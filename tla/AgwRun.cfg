SPECIFICATION FairSpec
CONSTANTS
    Categories = {"metadata", "external"}
    Faults = {"nft", "audit", "slow", "exit"}
    MaxRefused = 1
INVARIANT RefusalsAccounted
PROPERTY SuspendEnds
CHECK_DEADLOCK FALSE
