SPECIFICATION Spec
CONSTANTS
    r1 = r1
    r2 = r2
    p1 = p1
    None = None
    Nobody = Nobody
    Runs = {r1, r2}
    Procs = {r1, r2, p1}
    Faults = {"cmd", "crash", "survivors", "overlap"}
SYMMETRY HostSymmetry
INVARIANTS Contained HostStaysUsable KillSwitchReachable
CHECK_DEADLOCK FALSE
