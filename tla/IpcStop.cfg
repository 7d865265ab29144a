SPECIFICATION FairSpec
CONSTANTS
    MaxGen = 1
    MaxConn = 1
    MaxSends = 0
    Unix = TRUE
    StopAllowed = TRUE
    SinkMayClose = TRUE
PROPERTY StopReturns
CHECK_DEADLOCK FALSE
