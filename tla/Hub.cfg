SPECIFICATION FairSpec
CONSTANTS
    Reqs = {r1, r2}
    Methods = {"init", "setup", "update", "start", "stop", "change", "get", "quick"}
    Files = {f1}
    Bad = bad
    Default = default
    Ports = {p1}
    BasePort = p0
    Sels = {s1, s2}
    Nil = Nil
INVARIANTS TypeOK Settled
PROPERTIES Linear Answered
CHECK_DEADLOCK FALSE
