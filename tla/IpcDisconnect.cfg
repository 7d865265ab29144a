SPECIFICATION FairSpec
CONSTANTS
    MaxGen = 1
    MaxConn = 2
    MaxSends = 2
    Unix = TRUE
    StopAllowed = FALSE
    SinkMayClose = TRUE
PROPERTY DisconnectNoticed
CHECK_DEADLOCK FALSE
