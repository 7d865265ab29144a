----------------------------- MODULE StartStop -----------------------------
(* The on/off switch of the application (SetupAction, CoreAction.tryStartCore, *)
(* the suspend isRunning of AppManager).  Dart runs one step between two awaits *)
(* at a time.  Tasks are places for operations under way, used again and again.*)
EXTENDS Naturals

CONSTANT Tasks

VARIABLES
    started,        \* startTime # null
    shown,          \* runTime # null, which is isStartProvider
    transitioning,  \* _isTransitioning
    timer,          \* _updateTimer is running
    orphan,         \* a timer that no variable names is running
    suspended,      \* suspendProvider: the SSID is an excluded one
    debounced,      \* the suspend action that waits: "none", "start", "stop"
    coreUp,         \* the core is connected (isCompleted)
    isRunning,      \* the core's
    pc,             \* per task: the await it is in
    starting,       \* per task: its _handleStart waits for startListener
    request,        \* per task: its isRunning request the core has not handled
    disturbed         \* history: whether operations overlapped or one failed,
                    \* and whether the start of a restart button was dropped

display == <<started, shown, transitioning>>
timers == <<timer, orphan>>
wifi == <<suspended, debounced>>
coreSide == <<coreUp, isRunning>>
tasks == <<pc, starting, request>>
switchVars == <<display, timers, wifi, coreSide, tasks, disturbed>>

Steps == {"idle", "start", "stop", "tipStop", "suspend",
          "restart", "restartOn", "profile", "setup"}
    \* tipStop: handleStop of the restart button of VpnManager; restart and
    \* restartOn: restartCore(false), restartCore(true) until the new core is
    \* initialised; profile, setup: applyProfile before and after its request

(* Two operations of the user are never under way together, and the flag that  *)
(* greys out the button is up exactly while one is.                            *)
OneTransition ==
    /\ \A t, u \in Tasks : pc[t].guarded /\ pc[u].guarded => t = u
    /\ transitioning <=> \E t \in Tasks : pc[t].guarded

(* Types, the flag above, and who waits for whom.                              *)
SwitchTypeOK ==
    /\ {started, shown, transitioning, timer, orphan} \subseteq BOOLEAN
    /\ suspended \in BOOLEAN /\ debounced \in {"none", "start", "stop"}
    /\ coreUp \in BOOLEAN /\ isRunning \in BOOLEAN
    /\ disturbed \in {"nothing", "some", "dropped"}
    /\ pc \in [Tasks -> [step : Steps, guarded : BOOLEAN]]
    /\ starting \in [Tasks -> BOOLEAN]
    /\ request \in [Tasks -> {"none", "start", "stop"}]
    /\ OneTransition
    /\ \A t \in Tasks : \* who asks, waits
         /\ request[t] = "stop" => pc[t].step \in {"stop", "tipStop", "suspend"}
         /\ request[t] = "start" => starting[t] \/ pc[t].step = "suspend"
         /\ starting[t] => pc[t].step \in {"start", "setup", "idle"}

Idle == [step |-> "idle", guarded |-> FALSE]
Free(t) == pc[t] = Idle /\ ~starting[t] /\ request[t] = "none"
Rest == debounced = "none" /\ \A t \in Tasks : Free(t)
OthersBusy(t) == \E u \in Tasks \ {t} : ~Free(u)

SwitchInit ==
    /\ started = FALSE /\ shown = FALSE /\ transitioning = FALSE
    /\ timer = FALSE /\ orphan = FALSE
    /\ suspended \in BOOLEAN /\ debounced = "none"
    /\ coreUp = TRUE /\ isRunning = FALSE
    /\ pc = [t \in Tasks |-> Idle]
    /\ starting = [t \in Tasks |-> FALSE]
    /\ request = [t \in Tasks |-> "none"]
    /\ disturbed = "nothing"

Go(t, next) == pc' = [pc EXCEPT ![t].step = next]
Ask(t, what) == request' = [request EXCEPT ![t] = what]
Disturb(wrong) == disturbed' = IF wrong /\ disturbed = "nothing" THEN "some" ELSE disturbed
Begins(t) == Free(t) /\ Disturb(OthersBusy(t))

(* A bug: the guard of updateStatus is not looked at.                          *)
Enter_NoGuard(t, next) ==
    /\ transitioning' = TRUE
    /\ pc' = [pc EXCEPT ![t] = [step |-> next, guarded |-> TRUE]]

(* updateStatus without internal: the guard, and the finally block.            *)
Enter(t, next) ==
    /\ ~transitioning
    /\ transitioning' = TRUE
    /\ pc' = [pc EXCEPT ![t] = [step |-> next, guarded |-> TRUE]]
Leave(t) ==
    /\ transitioning' = (transitioning /\ ~pc[t].guarded)
    /\ pc' = [pc EXCEPT ![t] = Idle]

(* A bug: startListener is called on an excluded SSID too.                     *)
_handleStart_Suspended(t) ==
    /\ started' = TRUE /\ shown' = TRUE
    /\ starting' = [starting EXCEPT ![t] = TRUE]
    /\ Ask(t, "start") /\ UNCHANGED timers

(* _handleStart to its await, or to its end when there is nothing to await.    *)
_handleStart(t) ==
    /\ started' = TRUE /\ shown' = TRUE
    /\ IF suspended
       THEN timer' = TRUE /\ orphan' = (orphan \/ timer) /\ UNCHANGED <<starting, request>>
       ELSE /\ starting' = [starting EXCEPT ![t] = TRUE]
            /\ Ask(t, "start") /\ UNCHANGED timers

handleStop(t) ==
    started' = FALSE /\ timer' = FALSE /\ UNCHANGED orphan /\ Ask(t, "stop")

(* updateStatus(true): tryStartCore first, which restarts a core that is gone. *)
(* Two restarts at once are the subject of CoreService.                        *)
NoRestart == \A t \in Tasks : pc[t].step \notin {"restart", "restartOn"}
TurnOn(t) ==
    /\ ~transitioning
    /\ \/ coreUp /\ suspended /\ _handleStart(t)
          /\ pc' = [pc EXCEPT ![t] = Idle] /\ UNCHANGED transitioning
       \/ coreUp /\ ~suspended /\ _handleStart(t) /\ Enter(t, "start")
       \/ /\ ~coreUp /\ NoRestart
          /\ Enter(t, "restartOn")
          /\ UNCHANGED <<started, shown, timers, starting, request>>

Start(t) ==
    /\ Begins(t) /\ (shown => ~coreUp)
    /\ TurnOn(t)
    /\ UNCHANGED <<wifi, coreSide>>

Stop(t) ==
    /\ Begins(t) /\ shown
    /\ Enter(t, "stop") /\ handleStop(t)
    /\ UNCHANGED <<shown, wifi, coreSide, starting>>

(* The restart button of VpnManager; its notice outlives the state it is about.*)
TipRestart(t) ==
    /\ Begins(t)
    /\ Go(t, "tipStop") /\ handleStop(t)
    /\ UNCHANGED <<shown, transitioning, wifi, coreSide, starting>>

(* The application is resumed: tryStartCore().                                 *)
Resume(t) ==
    /\ Begins(t) /\ ~coreUp /\ NoRestart
    /\ Go(t, "restart")
    /\ UNCHANGED <<display, timers, wifi, coreSide, starting, request>>

(* startListener has answered _handleStart; the operation ends if that was     *)
(* what it waited for.                                                         *)
StartAnswered(t) ==
    /\ starting[t] /\ request[t] = "none"
    /\ timer' = TRUE /\ orphan' = (orphan \/ timer)
    /\ starting' = [starting EXCEPT ![t] = FALSE]
    /\ IF pc[t].step = "start" THEN Leave(t) ELSE UNCHANGED <<transitioning, pc>>
    /\ UNCHANGED <<started, shown, wifi, coreSide, request, disturbed>>

(* A bug: the run time is not cleared.                                         *)
StopAnswered_KeepsRunTime(t) ==
    /\ pc[t].step = "stop" /\ request[t] = "none"
    /\ Leave(t)
    /\ UNCHANGED <<started, shown, timers, wifi, coreSide, starting, request, disturbed>>

StopAnswered(t) ==
    /\ pc[t].step = "stop" /\ request[t] = "none"
    /\ shown' = FALSE /\ Leave(t)
    /\ UNCHANGED <<started, timers, wifi, coreSide, starting, request, disturbed>>

(* After its handleStop the button calls updateStatus(true), which does        *)
(* nothing while another operation is under way.                               *)
TipStopped(t) ==
    /\ pc[t].step = "tipStop" /\ request[t] = "none"
    /\ \/ TurnOn(t) /\ UNCHANGED disturbed
       \/ /\ transitioning /\ pc' = [pc EXCEPT ![t] = Idle]
          /\ disturbed' = "dropped"
          /\ UNCHANGED <<display, timers, starting, request>>
    /\ UNCHANGED <<wifi, coreSide>>

(* restartCore has a new core: it starts if it was told to, or if the switch   *)
(* is shown on (updateStatus, isInit and internal); else the profile is set up.*)
Restarted(t) ==
    /\ pc[t].step \in {"restart", "restartOn"}
    /\ coreUp' = TRUE
    /\ IF shown \/ pc[t].step = "restartOn"
       THEN shown' = TRUE /\ Go(t, "profile")
       ELSE Go(t, "setup") /\ UNCHANGED shown
    /\ UNCHANGED <<started, transitioning, timers, wifi, isRunning, starting, request, disturbed>>

(* applyProfile sends setupConfig and calls _handleStart, its preloadInvoke.   *)
ProfileReady(t) ==
    /\ pc[t].step = "profile"
    /\ Go(t, "setup") /\ _handleStart(t)
    /\ UNCHANGED <<transitioning, wifi, coreSide, disturbed>>

(* The profile cannot be built: updateStatus catches it.                       *)
ProfileFails(t) ==
    /\ pc[t].step = "profile"
    /\ shown' = FALSE /\ Leave(t)
    /\ Disturb(TRUE)
    /\ UNCHANGED <<started, timers, wifi, coreSide, starting, request>>

SetupAnswered(t) ==
    /\ pc[t].step = "setup"
    /\ Leave(t)
    /\ UNCHANGED <<started, shown, timers, wifi, coreSide, starting, request, disturbed>>

(* AppManager listens to suspendProvider; the last change wins the debounce.   *)
SsidChanges ==
    /\ suspended' = ~suspended
    /\ debounced' = IF ~shown THEN debounced ELSE IF suspended' THEN "stop" ELSE "start"
    /\ UNCHANGED <<display, timers, coreSide, tasks, disturbed>>

(* It does what it was armed for, also after a stop or on another SSID.        *)
DebounceFires(t) ==
    /\ Free(t) /\ debounced # "none"
    /\ Ask(t, debounced) /\ Go(t, "suspend")
    /\ debounced' = "none"
    /\ Disturb(OthersBusy(t) \/ ~started \/ (suspended <=> debounced = "start"))
    /\ UNCHANGED <<display, timers, suspended, coreSide, starting>>

SuspendAnswered(t) ==
    /\ pc[t].step = "suspend" /\ request[t] = "none"
    /\ Leave(t)
    /\ UNCHANGED <<started, shown, timers, wifi, coreSide, starting, request, disturbed>>

(* The core: a request is handled, or answered with null when the core dies    *)
(* or does not come up in time.                                                *)
CoreHandles(t) ==
    /\ coreUp /\ request[t] # "none"
    /\ isRunning' = (request[t] = "start")
    /\ Ask(t, "none")
    /\ UNCHANGED <<display, timers, wifi, coreUp, pc, starting, disturbed>>

GateTimesOut(t) ==
    /\ ~coreUp /\ request[t] # "none"
    /\ Ask(t, "none")
    /\ Disturb(request[t] = "start")
    /\ UNCHANGED <<display, timers, wifi, coreSide, pc, starting>>

CoreDies ==
    /\ coreUp
    /\ coreUp' = FALSE /\ isRunning' = FALSE
    /\ request' = [t \in Tasks |-> "none"]
    /\ UNCHANGED <<display, timers, wifi, pc, starting, disturbed>>

(* Every running timer calls updateRunTime.                                    *)
Tick ==
    /\ timer \/ orphan
    /\ shown' = started
    /\ UNCHANGED <<started, transitioning, timers, wifi, coreSide, tasks, disturbed>>

(* What goes on by itself.                                                     *)
TaskGoes(t) ==
    \/ StartAnswered(t) \/ StopAnswered(t) \/ TipStopped(t) \/ SuspendAnswered(t)
    \/ Restarted(t) \/ ProfileReady(t) \/ ProfileFails(t) \/ SetupAnswered(t)
    \/ CoreHandles(t) \/ GateTimesOut(t)

SwitchNext ==
    \/ \E t \in Tasks : Start(t) \/ Stop(t) \/ TipRestart(t) \/ Resume(t)
                        \/ DebounceFires(t) \/ TaskGoes(t)
    \/ SsidChanges \/ CoreDies \/ Tick

SwitchSpec == SwitchInit /\ [][SwitchNext]_switchVars

(* The event loop runs what is ready; a task goes on.                          *)
SwitchFairness == WF_switchVars(Tick) /\ \A t \in Tasks : WF_switchVars(TaskGoes(t))

-----------------------------------------------------------------------------
(* When nothing is under way and the core is there, it listens exactly if the  *)
(* switch is on and the SSID is not excluded, and the timer runs exactly if    *)
(* the switch is on, unless operations overlapped or one failed.               *)
SwitchObeyed ==
    Rest /\ coreUp /\ disturbed = "nothing" =>
        (isRunning <=> started /\ ~suspended) /\ (timer <=> started)

(* What is shown does not stay wrong, whatever overlapped or failed, except    *)
(* when the start of a restart button was dropped.                             *)
ShownAgrees ==
    (Rest /\ shown # started /\ disturbed # "dropped") ~> (shown = started \/ ~Rest)
=============================================================================
