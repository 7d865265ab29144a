SPECIFICATION Spec
CONSTANTS
    Restarts = {r1, r2}
    Boot = boot0
    Invokes = {i1, i2}
    MaxProc = 3
    Overlap = TRUE
    Faults = {"spawn", "dial", "early", "late"}
INVARIANTS TypeOK NoOrphan StatusTruthful NoInvokeLeft
PROPERTY AnswerOnce
SYMMETRY SameActors
CHECK_DEADLOCK FALSE
