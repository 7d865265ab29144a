SPECIFICATION FairSpec
CONSTANTS
    Restarts = {r1, r2}
    Boot = boot0
    Invokes = {i1, i2}
    MaxProc = 3
    Overlap = FALSE
    Faults = {"late"}
PROPERTIES CallReturns CrashNoticed
CHECK_DEADLOCK FALSE
