SPECIFICATION FairSpec
CONSTANTS
    Restarts = {r1}
    Boot = boot0
    Invokes = {i1}
    MaxProc = 2
    Overlap = TRUE
    Faults = {}
PROPERTY CallReturns
CHECK_DEADLOCK FALSE
