SPECIFICATION Spec
CONSTANTS
    MaxGen = 2
    MaxConn = 2
    MaxSends = 1
    Unix = TRUE
    StopAllowed = TRUE
    SinkMayClose = TRUE
INVARIANTS TypeOK OneServing SessionVisible StoppedIsQuiet
PROPERTY ShutdownHitsOpenFd
CHECK_DEADLOCK FALSE
