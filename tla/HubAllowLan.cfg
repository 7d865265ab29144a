SPECIFICATION Spec
CONSTANTS
    Reqs = {r1, r2}
    Methods = {"update", "quick", "start", "stop"}
    Files = {f1}
    Bad = bad
    Default = default
    Ports = {p1}
    BasePort = p0
    Sels = {s1, s2}
    Nil = Nil
INVARIANT PatchInForce
SYMMETRY Symmetry
CHECK_DEADLOCK FALSE
