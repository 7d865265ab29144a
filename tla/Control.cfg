SPECIFICATION ControlSpec
CONSTANTS
    Groups = {g1, g2}
    Proxies = {p1, p2}
    Setups = {s1}
    MaxCalls = 3
    NoCall = noCall
    Tasks = {t1, t2}
    Jobs = {j1, j2}
    MaxCommands = 3
    NoJob = noJob
    MaxLoads = 3
    Handlers = {h1, h2, h3}
    MaxCores = 3
    LogCalls = {l1, l2, l3}
    Buffer = 2
INVARIANTS ProxyTypeOK SelectionAgrees SwitchTypeOK SwitchObeyed
INVARIANTS RunTypeOK RunAgrees ModulesAgree OnlyChild
PROPERTIES LatestWins LastCallApplied ShownAgrees PendingEnds LogFlows
CHECK_DEADLOCK FALSE
