SPECIFICATION Spec
CONSTANTS
    w1 = w1
    w2 = w2
    Writers = {w1, w2}
    Events = {"allow"}
    Key = "key"
    Signed = TRUE
    CheckpointEvery = 2
    Faults = {}
    Tears = {"newline"}
    MaxSeq = 2
    MaxCrashes = 1
INVARIANT AckedReadable
CHECK_DEADLOCK FALSE
