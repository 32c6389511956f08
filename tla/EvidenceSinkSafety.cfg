SPECIFICATION Spec
CONSTANTS
    w1 = w1
    w2 = w2
    Writers = {w1, w2}
    Events = {"allow"}
    Key = "key"
    Signed = TRUE
    CheckpointEvery = 2
    Faults = {"encode", "flush", "sync", "sign"}
    Tears = {"body"}
    MaxSeq = 3
    MaxCrashes = 1
SYMMETRY WriterSymmetry
INVARIANTS AckedDurable AckedReadable ChainIntact
PROPERTY ImplementsEvidenceLog
CHECK_DEADLOCK FALSE
