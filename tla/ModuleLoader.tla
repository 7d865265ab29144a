---------------------------- MODULE ModuleLoader ----------------------------
(* The modules of an Android service (ModuleLoader.kt): load and cancel return *)
(* at once and do their work in coroutines of their own; a mutex keeps the     *)
(* installation and the removal apart.  Starts and stops of the service come   *)
(* one at a time (runLock of RemoteService).                                   *)
EXTENDS Naturals

CONSTANT MaxLoads            \* bound: starts of the service

ASSUME LoaderAssumption == MaxLoads \in Nat

VARIABLES
    loads,      \* load calls so far
    loader,     \* per load its coroutine: "none", "queued", "installs", "ended"
    loadJob,    \* job: the number of the last load, 0 for null
    cancels,    \* per cancel: "none", "queued", "waits", "ended"
    busy,       \* mutex is held
    modules,    \* installed modules, as the loads that installed them
    wantsModules,  \* history: the last call was a load
    overtaken      \* history: a load came before a cancel had ended
loaderVars == <<loads, loader, loadJob, cancels, busy, modules, wantsModules, overtaken>>

Loads == 1..MaxLoads

LoaderInit ==
    /\ loads = 0 /\ loadJob = 0 /\ busy = FALSE /\ modules = {}
    /\ loader = [n \in Loads |-> "none"] /\ cancels = [n \in Loads |-> "none"]
    /\ wantsModules = FALSE /\ overtaken = FALSE

Load ==
    /\ loads < MaxLoads /\ ~wantsModules
    /\ loads' = loads + 1 /\ loadJob' = loads + 1
    /\ loader' = [loader EXCEPT ![loads + 1] = "queued"]
    /\ wantsModules' = TRUE
    /\ overtaken' = (overtaken \/ \E n \in Loads : cancels[n] \in {"queued", "waits"})
    /\ UNCHANGED <<cancels, busy, modules>>

Install(n) ==
    /\ loader[n] = "queued" /\ ~busy
    /\ busy' = TRUE /\ loader' = [loader EXCEPT ![n] = "installs"]
    /\ modules' = modules \cup {n}
    /\ UNCHANGED <<loads, loadJob, cancels, wantsModules, overtaken>>

Installed(n) ==
    /\ loader[n] = "installs"
    /\ busy' = FALSE /\ loader' = [loader EXCEPT ![n] = "ended"]
    /\ UNCHANGED <<loads, loadJob, cancels, modules, wantsModules, overtaken>>

Cancel ==
    /\ wantsModules /\ wantsModules' = FALSE
    /\ cancels' = [cancels EXCEPT ![loads] = "queued"]
    /\ UNCHANGED <<loads, loader, loadJob, busy, modules, overtaken>>

(* A bug: the job is not cancelled.                                            *)
CancelJob_Not(n) ==
    /\ cancels[n] = "queued" /\ cancels' = [cancels EXCEPT ![n] = "waits"]
    /\ UNCHANGED <<loads, loader, loadJob, busy, modules, wantsModules, overtaken>>

(* cancel's coroutine reads job when it runs; a job that has the mutex ends    *)
(* all the same, because install does not suspend.                             *)
CancelJob(n) ==
    /\ cancels[n] = "queued" /\ cancels' = [cancels EXCEPT ![n] = "waits"]
    /\ loader' = IF loadJob # 0 /\ loader[loadJob] = "queued"
                 THEN [loader EXCEPT ![loadJob] = "ended"] ELSE loader
    /\ UNCHANGED <<loads, loadJob, busy, modules, wantsModules, overtaken>>

Uninstall(n) ==
    /\ cancels[n] = "waits" /\ ~busy
    /\ modules' = {} /\ cancels' = [cancels EXCEPT ![n] = "ended"]
    /\ UNCHANGED <<loads, loader, loadJob, busy, wantsModules, overtaken>>

LoaderNext ==
    \/ Load \/ Cancel
    \/ \E n \in Loads : Install(n) \/ Installed(n) \/ CancelJob(n) \/ Uninstall(n)

LoaderSpec == LoaderInit /\ [][LoaderNext]_loaderVars

LoaderRest == \A n \in Loads : /\ loader[n] \in {"none", "ended"}
                               /\ cancels[n] \in {"none", "ended"}

(* When all coroutines have ended, the modules are installed, once, exactly if *)
(* the service was started last, unless a start overtook the cancel of the     *)
(* stop before it: that cancel then stops or removes the new one.              *)
ModulesAgree ==
    LoaderRest /\ ~overtaken => modules = IF wantsModules THEN {loads} ELSE {}
=============================================================================
