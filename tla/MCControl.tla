------------------------------ MODULE MCControl ------------------------------
(* Parts that share no variable.  A behaviour is one of the part that is named *)
(* from the start; the others stay as they begin.                              *)
EXTENDS ChangeProxy, StartStop, AndroidRun, ModuleLoader, HelperService, LogStream

VARIABLE part

proxyRests == UNCHANGED proxyVars
switchRests == UNCHANGED switchVars
runRests == UNCHANGED runVars
servicesRest == UNCHANGED <<loaderVars, helperVars>>
logRests == UNCHANGED logVars

ControlInit ==
    /\ part \in {"proxy", "switch", "run", "loader", "helper", "log"}
    /\ ProxyInit /\ SwitchInit /\ RunInit /\ LoaderInit /\ HelperInit /\ LogInit
    /\ part # "proxy" => selected = [g \in Groups |-> CHOOSE p \in Proxies : TRUE]
    /\ part # "switch" => ~suspended
    /\ part # "run" => ~engine

ControlNext ==
    /\ UNCHANGED part
    /\ \/ part = "proxy" /\ ProxyNext
             /\ switchRests /\ runRests /\ servicesRest /\ logRests
       \/ part = "switch" /\ SwitchNext
             /\ proxyRests /\ runRests /\ servicesRest /\ logRests
       \/ part = "run" /\ RunNext
             /\ proxyRests /\ switchRests /\ servicesRest /\ logRests
       \/ part = "loader" /\ LoaderNext /\ UNCHANGED helperVars
             /\ proxyRests /\ switchRests /\ runRests /\ logRests
       \/ part = "helper" /\ HelperNext /\ UNCHANGED loaderVars
             /\ proxyRests /\ switchRests /\ runRests /\ logRests
       \/ part = "log" /\ LogNext
             /\ proxyRests /\ switchRests /\ runRests /\ servicesRest

ControlSpec ==
    /\ ControlInit
    /\ [][ControlNext]_<<part, proxyVars, switchVars, runVars, loaderVars, helperVars, logVars>>
    /\ ProxyFairness /\ SwitchFairness /\ RunFairness /\ LogFairness
=============================================================================
