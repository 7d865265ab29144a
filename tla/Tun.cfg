SPECIFICATION FairSpec
CONSTANTS
    Callers = {c1}
    Dialers = {d1, d2}
    Requests = {r1}
    MaxStart = 3
    Limit = 2
    None = None
INVARIANTS TypeOK CallbackLive OnlyCurrentHandler StopReleases
PROPERTY CallReturns
CHECK_DEADLOCK FALSE
