SPECIFICATION Spec
CONSTANTS
    MaxGen = 2
    MaxConn = 1
    MaxSends = 0
    Unix = TRUE
    StopAllowed = TRUE
    SinkMayClose = TRUE
PROPERTY NewerSocketKept
CHECK_DEADLOCK FALSE
