SPECIFICATION FairSpec
CONSTANTS
    w1 = w1
    w2 = w2
    Writers = {w1, w2}
    Events = {"allow"}
    Key = "key"
    Signed = TRUE
    CheckpointEvery = 2
    Faults = {"sign"}
    Tears = {}
    MaxSeq = 3
    MaxCrashes = 0
PROPERTIES WritesReturn TailAnchored
CHECK_DEADLOCK FALSE
