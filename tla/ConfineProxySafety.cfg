SPECIFICATION Spec
CONSTANTS
    w1 = w1
    r1 = r1
    r2 = r2
    a1 = a1
    public = public
    metadata = metadata
    listed = listed
    unlisted = unlisted
    NoOne = NoOne
    Malformed = Malformed
    IPs = {public, metadata}
    Refused = {metadata}
    Allow <- MCAllow
    a2 = a2
    Workloads = {w1, w2}
    Addrs = {a1, a2}
    w2 = w2
    o1 = o1
    o2 = o2
    Requests = {r1, r2}
    Operators = {o1, o2}
    Methods = {"CONNECT", "HTTP"}
    Hosts = {listed, unlisted, public, metadata}
    Faults = {"audit", "hijack", "write"}
    FailOpenOnAuditError = FALSE
SYMMETRY HandlerSymmetry
INVARIANTS RecordedFirst OnlyPermitted RevokedHoldsNothing NothingLeaks
CHECK_DEADLOCK FALSE
