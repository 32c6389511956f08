SPECIFICATION FairSpec
CONSTANTS
    Transports = {TRUE, FALSE}
    Conns = {"c1", "c2"}
    Stdin = "c1"
    Bodies <- MCBodies
    Malformed = Malformed
    NoId = NoId
    None = None
    Permitted = {"read", "file"}
    ToolSets = {"v1", "v2", "none"}
    Empty = "none"
    PinTools = TRUE
    Otherwise <- MCOtherwise
    Faults = {"audit", "exit", "broken", "signal", "sign", "form"}
    MaxSent <- MCMaxSent
    MaxServer <- MCMaxServer
INVARIANT JudgedAndRecorded
PROPERTIES PinHolds SessionEnds
CHECK_DEADLOCK FALSE
