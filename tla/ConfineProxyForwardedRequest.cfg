SPECIFICATION Spec
CONSTANTS
    w1 = w1
    r1 = r1
    r2 = r2
    a1 = a1
    public = public
    metadata = metadata
    listed = listed
    unlisted = unlisted
    NoOne = NoOne
    Malformed = Malformed
    IPs = {public, metadata}
    Refused = {metadata}
    Allow <- MCAllow
    Workloads = {w1}
    Addrs = {a1}
    o1 = o1
    Requests = {r1, r2}
    Operators = {o1}
    Methods = {"HTTP"}
    Hosts = {listed}
    Faults = {}
    FailOpenOnAuditError = FALSE
INVARIANT RevokeCuts
CHECK_DEADLOCK FALSE
