SPECIFICATION MCSpec
CONSTANTS
    None = None
    Keys = {k1, k2}
    Slots = {1}
    Served = {"evidence-checkpoint"}
    Rate = 1
    Burst = 1
    MaxNow = 2
    MaxRestarts = 1
    MaxStrangers = 3
    HttpExports = {"http"}
    GrpcExports = {"grpc"}
    MaxSpans = 1
    CheckpointEvery = 1
    MaxFaults = 1
INVARIANTS
    DaemonBudget
    AckedRecorded
    KeyPinned
    ClosedAnchored
PROPERTY
    WatchStops
CHECK_DEADLOCK FALSE
