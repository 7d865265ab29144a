----------------------------- MODULE ControlProofs -----------------------------
(***************************************************************************)
(* Proofs about StartStop and ChangeProxy, what the user switches and      *)
(* selects, for any number of tasks and for all groups, proxies, setups    *)
(* and bounds.                                                             *)
(***************************************************************************)
EXTENDS StartStop, ChangeProxy, TLAPS

(***************************************************************************)
(* SwitchTypeOK, with the flag of the switch in it, for any number of      *)
(* tasks.  An operation that passed the guard of updateStatus keeps the    *)
(* flag through every await, restarts and profiles included, and only its  *)
(* own end clears it; the restart button, which stops outside the guard,   *)
(* never holds it.                                                         *)
(***************************************************************************)
Step == [step : Steps, guarded : BOOLEAN]

(* The button of VpnManager stops without the flag.                         *)
TipUnguarded == \A t \in Tasks : pc[t].step = "tipStop" => ~pc[t].guarded

(* A task that has the flag, moves on, or ends.                             *)
Waiting ==
    \A t \in Tasks :
         /\ request[t] = "stop" => pc[t].step \in {"stop", "tipStop", "suspend"}
         /\ request[t] = "start" => starting[t] \/ pc[t].step = "suspend"
         /\ starting[t] => pc[t].step \in {"start", "setup", "idle"}

Values ==
    /\ {started, shown, transitioning, timer, orphan} \subseteq BOOLEAN
    /\ suspended \in BOOLEAN /\ debounced \in {"none", "start", "stop"}
    /\ coreUp \in BOOLEAN /\ isRunning \in BOOLEAN
    /\ disturbed \in {"nothing", "some", "dropped"}
    /\ starting \in [Tasks -> BOOLEAN]
    /\ request \in [Tasks -> {"none", "start", "stop"}]

Flag == pc \in [Tasks -> Step] /\ OneTransition /\ TipUnguarded

SwitchInv == Values /\ Flag /\ Waiting

(* The three ways in which a step touches the flag.                         *)
LEMMA EnterFlag ==
  ASSUME Flag, NEW t \in Tasks, NEW next \in Steps \ {"tipStop"}, Enter(t, next)
  PROVE  Flag' /\ transitioning' \in BOOLEAN
<1>1. pc' = [pc EXCEPT ![t] = [step |-> next, guarded |-> TRUE]] /\ transitioning' = TRUE
  BY DEF Enter
<1>2. \A u \in Tasks : ~pc[u].guarded
  BY DEF Enter, Flag, OneTransition
<1>. QED
  BY <1>1, <1>2 DEF Flag, OneTransition, TipUnguarded, Step

LEMMA LeaveFlag ==
  ASSUME Flag, transitioning \in BOOLEAN, NEW t \in Tasks, Leave(t)
  PROVE  Flag' /\ transitioning' \in BOOLEAN
<1>1. pc' = [pc EXCEPT ![t] = Idle] /\ transitioning' = (transitioning /\ ~pc[t].guarded)
  BY DEF Leave
<1>2. Idle \in Step /\ ~Idle.guarded /\ Idle.step # "tipStop"
  BY DEF Idle, Step, Steps
<1>3. pc' \in [Tasks -> Step] /\ TipUnguarded'
  BY <1>1, <1>2 DEF Flag, TipUnguarded
<1>4. CASE pc[t].guarded
  <2>1. \A u \in Tasks \ {t} : ~pc[u].guarded
    BY <1>4 DEF Flag, OneTransition
  <2>2. \A u \in Tasks : ~pc'[u].guarded
    BY <1>1, <1>2, <2>1 DEF Flag
  <2>. QED
    BY <1>1, <1>3, <1>4, <2>2 DEF Flag, OneTransition
<1>5. CASE ~pc[t].guarded
  <2>1. \A u \in Tasks : pc'[u].guarded <=> pc[u].guarded
    BY <1>1, <1>2, <1>5 DEF Flag
  <2>. QED
    BY <1>1, <1>3, <1>5, <2>1 DEF Flag, OneTransition
<1>. QED
  BY <1>4, <1>5

LEMMA GoFlag ==
  ASSUME Flag, NEW t \in Tasks, NEW next \in Steps, Go(t, next), UNCHANGED transitioning,
         next = "tipStop" => ~pc[t].guarded
  PROVE  Flag'
<1>1. pc' = [pc EXCEPT ![t].step = next]
  BY DEF Go
<1>2. pc' \in [Tasks -> Step] /\ \A u \in Tasks : pc'[u].guarded = pc[u].guarded
  BY <1>1 DEF Flag, Step
<1>3. TipUnguarded'
  BY <1>1, <1>2 DEF Flag, TipUnguarded
<1>. QED
  BY <1>2, <1>3 DEF Flag, OneTransition

(* Without the flag up, a task that becomes idle does not touch it.         *)
LEMMA IdleFlag ==
  ASSUME Flag, NEW t \in Tasks, ~pc[t].guarded, pc' = [pc EXCEPT ![t] = Idle],
         UNCHANGED transitioning
  PROVE  Flag'
<1>1. Idle \in Step /\ ~Idle.guarded /\ Idle.step # "tipStop"
  BY DEF Idle, Step, Steps
<1>2. pc' \in [Tasks -> Step] /\ \A u \in Tasks : pc'[u].guarded <=> pc[u].guarded
  BY <1>1 DEF Flag
<1>. QED
  BY <1>1, <1>2 DEF Flag, OneTransition, TipUnguarded

LEMMA SameFlag ==
  ASSUME Flag, UNCHANGED <<pc, transitioning>>
  PROVE  Flag'
  BY DEF Flag, OneTransition, TipUnguarded

(* A free task, and one that the restart button used, is not waited for.    *)
LEMMA TurnOnInv ==
  ASSUME SwitchInv, NEW t \in Tasks, TurnOn(t), pc[t].step \in {"idle", "tipStop"},
         ~starting[t], request[t] = "none",
         UNCHANGED <<wifi, coreSide>>, disturbed' \in {"nothing", "some", "dropped"}
  PROVE  SwitchInv'
<1>1. ~pc[t].guarded /\ transitioning \in BOOLEAN
  BY DEF TurnOn, SwitchInv, Values, Flag, OneTransition
<1>2. CASE /\ suspended /\ _handleStart(t)
           /\ pc' = [pc EXCEPT ![t] = Idle] /\ UNCHANGED transitioning
  <2>1. Flag'
    BY <1>1, <1>2, IdleFlag DEF SwitchInv
  <2>. QED
    BY <1>2, <2>1 DEF _handleStart, SwitchInv, Values, Waiting, Idle, Flag, wifi, coreSide
<1>3. CASE ~suspended /\ _handleStart(t) /\ Enter(t, "start")
  <2>1. Flag' /\ transitioning' \in BOOLEAN
    BY <1>3, EnterFlag DEF SwitchInv, Steps
  <2>2. /\ starting' = [starting EXCEPT ![t] = TRUE]
        /\ request' = [request EXCEPT ![t] = "start"]
        /\ pc' = [pc EXCEPT ![t] = [step |-> "start", guarded |-> TRUE]]
    BY <1>3 DEF _handleStart, Ask, Enter
  <2>3. Waiting'
    BY <2>2 DEF SwitchInv, Values, Waiting, Flag
  <2>. QED
    BY <1>3, <2>1, <2>2, <2>3 DEF _handleStart, SwitchInv, Values, wifi, coreSide, timers
<1>4. CASE /\ Enter(t, "restartOn")
           /\ UNCHANGED <<started, shown, timers, starting, request>>
  <2>1. Flag' /\ transitioning' \in BOOLEAN
    BY <1>4, EnterFlag DEF SwitchInv, Steps
  <2>2. Waiting'
    BY <1>4 DEF Enter, SwitchInv, Waiting, Flag
  <2>. QED
    BY <1>4, <2>1, <2>2 DEF SwitchInv, Values, wifi, coreSide, timers
<1>. QED
  BY <1>2, <1>3, <1>4 DEF TurnOn

LEMMA SwitchInvNext == SwitchInv /\ [SwitchNext]_switchVars => SwitchInv'
<1>. SUFFICES ASSUME SwitchInv, [SwitchNext]_switchVars PROVE SwitchInv'
  OBVIOUS
<1>. USE DEF display, timers, wifi, coreSide, tasks
<1>0. /\ \A t \in Tasks : Free(t) => /\ pc[t].step = "idle" /\ ~pc[t].guarded
                                     /\ ~starting[t] /\ request[t] = "none"
      /\ \A wrong \in BOOLEAN : Disturb(wrong) => disturbed' \in {"nothing", "some", "dropped"}
  BY DEF Free, Idle, Disturb, SwitchInv, Values
<1>1. ASSUME NEW t \in Tasks, Start(t) PROVE SwitchInv'
  <2>1. Free(t) /\ disturbed' \in {"nothing", "some", "dropped"}
    BY <1>1, <1>0 DEF Start, Begins, OthersBusy
  <2>. QED
    BY <1>0, <1>1, <2>1, TurnOnInv DEF Start
<1>2. ASSUME NEW t \in Tasks, Stop(t) PROVE SwitchInv'
  <2>1. Free(t) /\ disturbed' \in {"nothing", "some", "dropped"}
    BY <1>2, <1>0 DEF Stop, Begins, OthersBusy
  <2>2. Flag' /\ transitioning' \in BOOLEAN
    BY <1>2, EnterFlag DEF Stop, SwitchInv, Steps
  <2>3. /\ pc' = [pc EXCEPT ![t] = [step |-> "stop", guarded |-> TRUE]]
        /\ request' = [request EXCEPT ![t] = "stop"] /\ UNCHANGED starting
    BY <1>2 DEF Stop, Enter, handleStop, Ask
  <2>4. Waiting'
    BY <1>0, <2>1, <2>3 DEF SwitchInv, Values, Waiting, Flag
  <2>. QED
    BY <1>2, <2>1, <2>2, <2>3, <2>4 DEF Stop, handleStop, SwitchInv, Values
<1>3. ASSUME NEW t \in Tasks, TipRestart(t) PROVE SwitchInv'
  <2>1. Free(t) /\ disturbed' \in {"nothing", "some", "dropped"}
    BY <1>3, <1>0 DEF TipRestart, Begins, OthersBusy
  <2>2. Flag'
    BY <1>0, <1>3, <2>1, GoFlag DEF TipRestart, SwitchInv, Steps
  <2>3. /\ pc' = [pc EXCEPT ![t].step = "tipStop"]
        /\ request' = [request EXCEPT ![t] = "stop"] /\ UNCHANGED starting
    BY <1>3 DEF TipRestart, Go, handleStop, Ask
  <2>4. Waiting'
    BY <1>0, <2>1, <2>3 DEF SwitchInv, Values, Waiting, Flag
  <2>. QED
    BY <1>3, <2>1, <2>2, <2>3, <2>4 DEF TipRestart, handleStop, SwitchInv, Values
<1>4. ASSUME NEW t \in Tasks, Resume(t) PROVE SwitchInv'
  <2>1. Free(t) /\ disturbed' \in {"nothing", "some", "dropped"}
    BY <1>4, <1>0 DEF Resume, Begins, OthersBusy
  <2>2. Flag'
    BY <1>0, <1>4, <2>1, GoFlag DEF Resume, SwitchInv, Steps
  <2>3. Waiting'
    BY <1>0, <1>4, <2>1 DEF Resume, Go, SwitchInv, Waiting, Flag
  <2>. QED
    BY <1>4, <2>1, <2>2, <2>3 DEF Resume, SwitchInv, Values
<1>5. ASSUME NEW t \in Tasks, DebounceFires(t) PROVE SwitchInv'
  <2>1. Free(t) /\ disturbed' \in {"nothing", "some", "dropped"}
    BY <1>5, <1>0 DEF DebounceFires, OthersBusy
  <2>2. Flag'
    BY <1>0, <1>5, <2>1, GoFlag DEF DebounceFires, SwitchInv, Steps
  <2>3. /\ pc' = [pc EXCEPT ![t].step = "suspend"]
        /\ request' = [request EXCEPT ![t] = debounced] /\ UNCHANGED starting
        /\ debounced \in {"start", "stop"}
    BY <1>5 DEF DebounceFires, Go, Ask, SwitchInv, Values
  <2>4. Waiting'
    BY <1>0, <2>1, <2>3 DEF SwitchInv, Values, Waiting, Flag
  <2>. QED
    BY <1>5, <2>1, <2>2, <2>3, <2>4 DEF DebounceFires, SwitchInv, Values
<1>6. ASSUME NEW t \in Tasks, StartAnswered(t) PROVE SwitchInv'
  <2>1. /\ starting' = [starting EXCEPT ![t] = FALSE] /\ UNCHANGED request
        /\ request[t] = "none"
    BY <1>6 DEF StartAnswered
  <2>2. CASE pc[t].step = "start"
    <3>1. Leave(t) /\ transitioning \in BOOLEAN
      BY <1>6, <2>2 DEF StartAnswered, SwitchInv, Values
    <3>2. Flag' /\ transitioning' \in BOOLEAN
      BY <3>1, LeaveFlag DEF SwitchInv
    <3>3. Waiting'
      BY <2>1, <3>1 DEF Leave, Idle, SwitchInv, Values, Waiting, Flag
    <3>. QED
      BY <1>6, <2>1, <3>2, <3>3 DEF StartAnswered, SwitchInv, Values
  <2>3. CASE pc[t].step # "start"
    <3>1. UNCHANGED <<transitioning, pc>>
      BY <1>6, <2>3 DEF StartAnswered
    <3>2. Flag'
      BY <3>1, SameFlag DEF SwitchInv
    <3>3. Waiting'
      BY <2>1, <3>1 DEF SwitchInv, Values, Waiting, Flag
    <3>. QED
      BY <1>6, <2>1, <3>1, <3>2, <3>3 DEF StartAnswered, SwitchInv, Values
  <2>. QED
    BY <2>2, <2>3
<1>7. ASSUME NEW t \in Tasks, StopAnswered(t) \/ SuspendAnswered(t) PROVE SwitchInv'
  <2>1. /\ Leave(t) /\ transitioning \in BOOLEAN /\ UNCHANGED <<starting, request>>
        /\ pc[t].step \in {"stop", "suspend"} /\ request[t] = "none"
    BY <1>7 DEF StopAnswered, SuspendAnswered, SwitchInv, Values
  <2>2. Flag' /\ transitioning' \in BOOLEAN
    BY <2>1, LeaveFlag DEF SwitchInv
  <2>3. Waiting'
    BY <2>1 DEF Leave, Idle, SwitchInv, Values, Waiting, Flag
  <2>. QED
    BY <1>7, <2>2, <2>3 DEF StopAnswered, SuspendAnswered, SwitchInv, Values
<1>8. ASSUME NEW t \in Tasks, TipStopped(t) PROVE SwitchInv'
  <2>1. pc[t].step = "tipStop" /\ request[t] = "none" /\ ~starting[t] /\ ~pc[t].guarded
    BY <1>8 DEF TipStopped, SwitchInv, Waiting, Flag, TipUnguarded
  <2>2. CASE TurnOn(t) /\ UNCHANGED disturbed
    <3>1. disturbed' \in {"nothing", "some", "dropped"} /\ UNCHANGED <<wifi, coreSide>>
      BY <1>8, <2>2 DEF TipStopped, SwitchInv, Values
    <3>. QED
      BY <2>1, <2>2, <3>1, TurnOnInv
  <2>3. CASE /\ pc' = [pc EXCEPT ![t] = Idle] /\ disturbed' = "dropped"
             /\ UNCHANGED <<display, timers, starting, request>>
    <3>1. Flag'
      BY <2>1, <2>3, IdleFlag DEF SwitchInv
    <3>2. Waiting'
      BY <2>1, <2>3 DEF Idle, SwitchInv, Waiting, Flag
    <3>. QED
      BY <1>8, <2>3, <3>1, <3>2 DEF TipStopped, SwitchInv, Values
  <2>. QED
    BY <1>8, <2>2, <2>3 DEF TipStopped
<1>9. ASSUME NEW t \in Tasks, Restarted(t) PROVE SwitchInv'
  <2>1. PICK next \in {"profile", "setup"} : Go(t, next)
    BY <1>9 DEF Restarted
  <2>2. Flag'
    BY <1>9, <2>1, GoFlag DEF Restarted, SwitchInv, Steps
  <2>3. Waiting'
    BY <1>9, <2>1 DEF Restarted, Go, SwitchInv, Waiting, Flag
  <2>. QED
    BY <1>9, <2>2, <2>3 DEF Restarted, SwitchInv, Values
<1>10. ASSUME NEW t \in Tasks, ProfileReady(t) PROVE SwitchInv'
  <2>1. Flag'
    BY <1>10, GoFlag DEF ProfileReady, SwitchInv, Steps
  <2>2. pc' = [pc EXCEPT ![t].step = "setup"] /\ pc[t].step = "profile"
    BY <1>10 DEF ProfileReady, Go
  <2>3. CASE UNCHANGED <<starting, request>>
    <3>1. Waiting'
      BY <2>2, <2>3 DEF SwitchInv, Waiting, Flag
    <3>. QED
      BY <1>10, <2>1, <2>3, <3>1 DEF ProfileReady, _handleStart, SwitchInv, Values
  <2>4. CASE /\ starting' = [starting EXCEPT ![t] = TRUE]
             /\ request' = [request EXCEPT ![t] = "start"]
    <3>1. Waiting'
      BY <2>2, <2>4 DEF SwitchInv, Values, Waiting, Flag
    <3>. QED
      BY <1>10, <2>1, <2>4, <3>1 DEF ProfileReady, _handleStart, SwitchInv, Values
  <2>. QED
    BY <1>10, <2>3, <2>4 DEF ProfileReady, _handleStart, Ask
<1>11. ASSUME NEW t \in Tasks, ProfileFails(t) \/ SetupAnswered(t) PROVE SwitchInv'
  <2>1. /\ Leave(t) /\ transitioning \in BOOLEAN /\ UNCHANGED <<starting, request>>
        /\ pc[t].step \in {"profile", "setup"}
        /\ disturbed' \in {"nothing", "some", "dropped"}
    BY <1>0, <1>11 DEF ProfileFails, SetupAnswered, SwitchInv, Values
  <2>2. Flag' /\ transitioning' \in BOOLEAN
    BY <2>1, LeaveFlag DEF SwitchInv
  <2>3. Waiting'
    BY <2>1 DEF Leave, Idle, SwitchInv, Values, Waiting, Flag
  <2>. QED
    BY <1>11, <2>1, <2>2, <2>3 DEF ProfileFails, SetupAnswered, SwitchInv, Values
<1>12. ASSUME NEW t \in Tasks, CoreHandles(t) \/ GateTimesOut(t) PROVE SwitchInv'
  <2>1. /\ request' = [request EXCEPT ![t] = "none"] /\ UNCHANGED <<pc, starting, display>>
        /\ disturbed' \in {"nothing", "some", "dropped"}
    BY <1>0, <1>12 DEF CoreHandles, GateTimesOut, Ask, SwitchInv, Values
  <2>2. Flag'
    BY <2>1, SameFlag DEF SwitchInv
  <2>3. Waiting'
    BY <2>1 DEF SwitchInv, Values, Waiting
  <2>. QED
    BY <1>12, <2>1, <2>2, <2>3 DEF CoreHandles, GateTimesOut, SwitchInv, Values
<1>13. CASE SsidChanges \/ CoreDies \/ Tick
  <2>1. Flag' /\ Waiting'
    BY <1>13, SameFlag DEF SsidChanges, CoreDies, Tick, SwitchInv, Values, Waiting
  <2>. QED
    BY <1>13, <2>1 DEF SsidChanges, CoreDies, Tick, SwitchInv, Values
<1>14. CASE UNCHANGED switchVars
  <2>1. Flag' /\ Waiting'
    BY <1>14, SameFlag DEF switchVars, SwitchInv, Waiting
  <2>. QED
    BY <1>14, <2>1 DEF switchVars, SwitchInv, Values
<1>. QED
  BY <1>1, <1>2, <1>3, <1>4, <1>5, <1>6, <1>7, <1>8, <1>9, <1>10, <1>11, <1>12, <1>13, <1>14
     DEF SwitchNext, TaskGoes

(* Two guarded operations are never under way together, the flag is up       *)
(* exactly while one is, and a request to the core has someone who waits.    *)
THEOREM SwitchTypeCorrect == SwitchSpec => []SwitchTypeOK
<1>1. SwitchInit => SwitchInv
  <2>. SUFFICES ASSUME SwitchInit PROVE SwitchInv
    OBVIOUS
  <2>1. Flag
    BY DEF SwitchInit, Flag, OneTransition, TipUnguarded, Idle, Step, Steps
  <2>. QED
    BY <2>1 DEF SwitchInit, SwitchInv, Values, Waiting, Idle
<1>2. SwitchInv => SwitchTypeOK
  BY DEF SwitchInv, Values, Flag, Waiting, Step, SwitchTypeOK
<1>. QED
  BY <1>1, <1>2, SwitchInvNext, PTL DEF SwitchSpec
-----------------------------------------------------------------------------
(* SwitchObeyed is not inductive: between two awaits the core, the timer and   *)
(* the start time do not agree.  Steady says, await by await, how far they are *)
(* apart while one operation at a time is under way and none has failed.       *)
Calm ==
    /\ timer <=> started
    /\ ~started => ~isRunning
    /\ coreUp /\ debounced = "none" => (isRunning <=> started /\ ~suspended)

Doing(t) ==
    /\ starting[t] => /\ started /\ (debounced = "none" => ~suspended)
                      /\ coreUp /\ request[t] = "none" => isRunning
    /\ pc[t].step = "setup" /\ ~starting[t] => Calm /\ (shown => started)
    /\ pc[t].step \in {"stop", "tipStop"} =>
           ~started /\ ~timer /\ (request[t] = "none" => ~isRunning)
    /\ pc[t].step = "suspend" =>
           /\ started /\ timer
           /\ debounced = "none" /\ request[t] = "none" /\ coreUp =>
                  (isRunning <=> ~suspended)
           /\ debounced = "none" /\ request[t] # "none" =>
                  (request[t] = "start" <=> ~suspended)
    /\ pc[t].step \in {"restart", "restartOn"} => ~coreUp /\ (timer <=> started)
    /\ pc[t].step = "restart" => (shown => started)
    /\ pc[t].step = "profile" => ~isRunning /\ (timer <=> started)

Free1 == \A t, u \in Tasks : ~Free(t) /\ ~Free(u) => t = u

Steady ==
    /\ Free1
    /\ (started => shown) /\ (~coreUp => ~isRunning)
    /\ (\A t \in Tasks : Free(t)) => Calm /\ (shown => started)
    /\ \A t \in Tasks : Doing(t)

SteadyInv == disturbed = "nothing" => Steady

(* A step of the only task under way has to be looked at for that task alone.  *)
LEMMA Settles ==
  ASSUME NEW t \in Tasks, \A u \in Tasks \ {t} : Free(u),
         \A u \in Tasks \ {t} : /\ pc'[u] = pc[u] /\ starting'[u] = starting[u]
                                /\ request'[u] = request[u],
         started' => shown', ~coreUp' => ~isRunning',
         Free(t)' => Calm' /\ (shown' => started'),
         Doing(t)'
  PROVE  Steady'
<1>1. \A u \in Tasks \ {t} : Free(u)' /\ pc'[u].step = "idle" /\ ~starting'[u]
  BY DEF Free, Idle
<1>2. Free1'
  BY <1>1 DEF Free1
<1>3. \A u \in Tasks \ {t} : Doing(u)'
  BY <1>1 DEF Doing
<1>. QED
  BY <1>1, <1>2, <1>3 DEF Steady

(* Before the first step of a task that no other overlaps, nothing is under    *)
(* way; before a later one, only that task is.                                 *)
LEMMA FirstAlone ==
  ASSUME Steady, NEW t \in Tasks, Free(t), ~OthersBusy(t)
  PROVE  (\A u \in Tasks \ {t} : Free(u)) /\ Calm /\ (shown => started)
  BY DEF Steady, OthersBusy

LEMMA LaterAlone ==
  ASSUME Steady, NEW t \in Tasks, ~Free(t)
  PROVE  (\A u \in Tasks \ {t} : Free(u)) /\ Doing(t)
  BY DEF Steady, Free1

(* The start of the button: the core does not listen, the timer is as it was.  *)
LEMMA TurnOnSteady ==
  ASSUME SwitchInv, NEW t \in Tasks, TurnOn(t), UNCHANGED <<wifi, coreSide>>,
         \A u \in Tasks \ {t} : Free(u), ~starting[t], request[t] = "none",
         ~isRunning, timer <=> started, started => shown
  PROVE  Steady'
<1>. USE DEF wifi, coreSide, timers
<1>0. /\ pc \in [Tasks -> Step] /\ starting \in [Tasks -> BOOLEAN]
      /\ request \in [Tasks -> {"none", "start", "stop"}]
  BY DEF SwitchInv, Flag, Values
<1>1. CASE suspended /\ _handleStart(t) /\ pc' = [pc EXCEPT ![t] = Idle]
  <2>1. Calm' /\ shown' /\ started' /\ ~isRunning' /\ UNCHANGED <<starting, request>>
    BY <1>1 DEF _handleStart, Calm
  <2>2. Doing(t)'
    BY <1>0, <1>1, <2>1 DEF Doing, Idle
  <2>. QED
    BY <1>0, <1>1, <2>1, <2>2, Settles
<1>2. CASE ~suspended /\ _handleStart(t) /\ Enter(t, "start")
  <2>1. /\ starting' = [starting EXCEPT ![t] = TRUE]
        /\ request' = [request EXCEPT ![t] = "start"]
        /\ pc' = [pc EXCEPT ![t] = [step |-> "start", guarded |-> TRUE]]
        /\ shown' /\ started' /\ ~isRunning'
    BY <1>2 DEF _handleStart, Ask, Enter
  <2>2. Doing(t)' /\ ~Free(t)'
    BY <1>0, <1>2, <2>1 DEF Doing, Free
  <2>. QED
    BY <1>0, <2>1, <2>2, Settles
<1>3. CASE /\ ~coreUp /\ Enter(t, "restartOn")
           /\ UNCHANGED <<started, shown, timers, starting, request>>
  <2>1. pc' = [pc EXCEPT ![t] = [step |-> "restartOn", guarded |-> TRUE]]
    BY <1>3 DEF Enter
  <2>2. Doing(t)' /\ ~Free(t)'
    BY <1>0, <1>3, <2>1 DEF Doing, Free, Idle
  <2>. QED
    BY <1>0, <1>3, <2>1, <2>2, Settles
<1>. QED
  BY <1>1, <1>2, <1>3 DEF TurnOn

LEMMA SteadyNext ==
  ASSUME SwitchInv, SteadyInv, [SwitchNext]_switchVars
  PROVE  SteadyInv'
<1>. SUFFICES ASSUME disturbed' = "nothing" PROVE Steady'
  BY DEF SteadyInv
<1>. USE DEF display, timers, wifi, coreSide, tasks
<1>0. /\ pc \in [Tasks -> Step] /\ starting \in [Tasks -> BOOLEAN]
      /\ request \in [Tasks -> {"none", "start", "stop"}]
      /\ debounced \in {"none", "start", "stop"}
  BY DEF SwitchInv, Flag, Values
<1>a. ASSUME NEW t \in Tasks, Begins(t), Steady
      PROVE  /\ Free(t) /\ pc[t].step = "idle" /\ ~starting[t] /\ request[t] = "none"
             /\ \A u \in Tasks \ {t} : Free(u)
             /\ Calm /\ (shown => started)
  <2>1. Free(t) /\ ~OthersBusy(t)
    BY <1>a DEF Begins, Disturb
  <2>. QED
    BY <1>a, <2>1, FirstAlone DEF Free, Idle
<1>b. ASSUME NEW wrong \in BOOLEAN, Disturb(wrong) PROVE Steady
  BY <1>b DEF Disturb, SteadyInv
<1>c. /\ UNCHANGED disturbed => Steady
      /\ Steady => (started => shown) /\ (~coreUp => ~isRunning)
  BY DEF SteadyInv, Steady
<1>d. ASSUME NEW t \in Tasks, ~Free(t), Steady
      PROVE  /\ \A u \in Tasks \ {t} : Free(u)
             /\ Doing(t)
             /\ request[t] = "stop" => pc[t].step \in {"stop", "tipStop", "suspend"}
             /\ request[t] = "start" => starting[t] \/ pc[t].step = "suspend"
             /\ starting[t] => pc[t].step \in {"start", "setup", "idle"}
  BY <1>d, LaterAlone DEF SwitchInv, Waiting
<1>1. ASSUME NEW t \in Tasks, Start(t) PROVE Steady'
  <2>1. Steady
    BY <1>1, <1>b DEF Start, Begins, OthersBusy
  <2>2. ~isRunning /\ (timer <=> started)
    BY <1>1, <1>a, <1>c, <2>1 DEF Start, Calm
  <2>. QED
    BY <1>1, <1>a, <1>c, <2>1, <2>2, TurnOnSteady DEF Start
<1>2. ASSUME NEW t \in Tasks, Stop(t) \/ TipRestart(t) PROVE Steady'
  <2>1. Steady /\ Begins(t)
    BY <1>2, <1>b DEF Stop, TipRestart, Begins, OthersBusy
  <2>2. /\ request' = [request EXCEPT ![t] = "stop"] /\ UNCHANGED starting
        /\ pc'[t].step \in {"stop", "tipStop"}
        /\ \A u \in Tasks \ {t} : pc'[u] = pc[u]
        /\ ~started' /\ ~timer' /\ UNCHANGED <<shown, coreSide>>
    BY <1>0, <1>2 DEF Stop, TipRestart, handleStop, Ask, Enter, Go, Step
  <2>3. Doing(t)' /\ ~Free(t)'
    BY <1>0, <1>a, <2>1, <2>2 DEF Doing, Free
  <2>. QED
    BY <1>0, <1>a, <1>c, <2>1, <2>2, <2>3, Settles
<1>3. ASSUME NEW t \in Tasks, Resume(t) PROVE Steady'
  <2>1. Steady /\ Begins(t)
    BY <1>3, <1>b DEF Resume, Begins, OthersBusy
  <2>2. pc' = [pc EXCEPT ![t].step = "restart"] /\ pc'[t].step = "restart"
    BY <1>0, <1>3 DEF Resume, Go, Step
  <2>3. Doing(t)' /\ ~Free(t)'
    BY <1>a, <1>3, <2>1, <2>2 DEF Resume, Doing, Free, Calm, Idle
  <2>. QED
    BY <1>a, <1>c, <1>3, <2>1, <2>2, <2>3, Settles DEF Resume
<1>4. ASSUME NEW t \in Tasks, DebounceFires(t) PROVE Steady'
  <2>1. /\ Steady /\ Free(t) /\ ~OthersBusy(t) /\ started
        /\ ~(suspended <=> debounced = "start")
    BY <1>4, <1>b DEF DebounceFires, Disturb, OthersBusy, SteadyInv
  <2>2. (\A u \in Tasks \ {t} : Free(u)) /\ Calm
    BY <2>1, FirstAlone
  <2>3. /\ pc' = [pc EXCEPT ![t].step = "suspend"] /\ pc'[t].step = "suspend"
        /\ request' = [request EXCEPT ![t] = debounced] /\ request'[t] = debounced
        /\ debounced \in {"start", "stop"} /\ ~starting'[t]
    BY <1>0, <1>4 DEF DebounceFires, Go, Ask, Step, Free
  <2>4. Doing(t)' /\ ~Free(t)'
    BY <1>4, <2>1, <2>2, <2>3 DEF DebounceFires, Doing, Free, Calm
  <2>. QED
    BY <1>c, <1>4, <2>1, <2>2, <2>3, <2>4, Settles DEF DebounceFires
<1>5. ASSUME NEW t \in Tasks, StartAnswered(t) PROVE Steady'
  <2>1. ~Free(t) /\ Steady
    BY <1>5, <1>c DEF StartAnswered, Free
  <2>2. Doing(t) /\ (\A u \in Tasks \ {t} : Free(u)) /\ pc[t].step \in {"start", "setup", "idle"}
    BY <1>5, <1>d, <2>1 DEF StartAnswered
  <2>3. /\ starting' = [starting EXCEPT ![t] = FALSE] /\ timer' /\ UNCHANGED request
        /\ started' /\ shown' /\ Calm' /\ UNCHANGED <<started, coreSide>>
    BY <1>0, <1>5, <1>c, <2>1, <2>2 DEF StartAnswered, Doing, Calm
  <2>4. /\ pc'[t].step \in {"setup", "idle"} /\ ~starting'[t]
        /\ \A u \in Tasks \ {t} : pc'[u] = pc[u] /\ starting'[u] = starting[u]
    BY <1>0, <1>5, <2>2, <2>3 DEF StartAnswered, Leave, Idle
  <2>5. Doing(t)'
    BY <2>3, <2>4 DEF Doing
  <2>. QED
    BY <1>c, <2>1, <2>2, <2>3, <2>4, <2>5, Settles
<1>6. ASSUME NEW t \in Tasks,
             StopAnswered(t) \/ SuspendAnswered(t) \/ SetupAnswered(t)
      PROVE  Steady'
  <2>1. /\ ~Free(t) /\ Steady /\ pc' = [pc EXCEPT ![t] = Idle] /\ pc'[t].step = "idle"
        /\ UNCHANGED <<started, timers, wifi, coreSide, starting, request>>
        /\ (pc[t].step # "stop" => UNCHANGED shown)
    <3>1. /\ pc[t].step \in {"stop", "suspend", "setup"} /\ Leave(t) /\ UNCHANGED disturbed
          /\ UNCHANGED <<started, timers, wifi, coreSide, starting, request>>
          /\ (pc[t].step # "stop" => UNCHANGED shown)
      <4>1. CASE StopAnswered(t)
        BY <4>1 DEF StopAnswered
      <4>2. CASE SuspendAnswered(t)
        BY <4>2 DEF SuspendAnswered
      <4>3. CASE SetupAnswered(t)
        BY <4>3 DEF SetupAnswered
      <4>. QED
        BY <1>6, <4>1, <4>2, <4>3
    <3>2. pc' = [pc EXCEPT ![t] = Idle] /\ pc'[t].step = "idle" /\ ~Free(t)
      BY <1>0, <3>1 DEF Leave, Free, Idle
    <3>. QED
      BY <1>c, <3>1, <3>2
  <2>2. Doing(t) /\ (\A u \in Tasks \ {t} : Free(u))
        /\ (starting[t] => pc[t].step \in {"start", "setup", "idle"})
    BY <1>d, <2>1
  <2>3. started' => shown'
    <3>1. CASE pc[t].step = "stop"
      BY <2>1, <2>2, <3>1 DEF Doing
    <3>2. CASE pc[t].step # "stop"
      <4>1. shown' = shown /\ started' = started
        BY <2>1, <3>2
      <4>. QED
        BY <1>c, <2>1, <4>1
    <3>. QED
      BY <3>1, <3>2
  <2>4. ~starting[t] => Calm' /\ (shown' => started')
    <3>1. CASE StopAnswered(t)
      BY <2>1, <2>2, <3>1 DEF StopAnswered, Doing, Calm
    <3>2. CASE SuspendAnswered(t)
      <4>1. started' /\ timer'
        BY <2>1, <2>2, <3>2 DEF SuspendAnswered, Doing
      <4>2. Calm'
        BY <2>1, <2>2, <3>2, <4>1 DEF SuspendAnswered, Doing, Calm
      <4>. QED
        BY <4>1, <4>2
    <3>3. CASE SetupAnswered(t)
      BY <2>1, <2>2, <3>3 DEF SetupAnswered, Doing, Calm
    <3>. QED
      BY <1>6, <3>1, <3>2, <3>3
  <2>5. Doing(t)' /\ (Free(t)' => ~starting[t])
    BY <2>1, <2>2 DEF Doing, Free
  <2>. QED
    BY <1>c, <2>1, <2>2, <2>3, <2>4, <2>5, Settles
<1>7. ASSUME NEW t \in Tasks, TipStopped(t) PROVE Steady'
  <2>1. /\ ~Free(t) /\ Steady /\ TurnOn(t) /\ UNCHANGED <<wifi, coreSide>>
        /\ pc[t].step = "tipStop" /\ request[t] = "none"
    BY <1>7, <1>c DEF TipStopped, Free, Idle
  <2>2. Doing(t) /\ ~starting[t] /\ (\A u \in Tasks \ {t} : Free(u))
    BY <1>d, <2>1
  <2>3. ~isRunning /\ (timer <=> started)
    BY <2>1, <2>2 DEF Doing
  <2>. QED
    BY <1>c, <2>1, <2>2, <2>3, TurnOnSteady
<1>8. ASSUME NEW t \in Tasks, Restarted(t) PROVE Steady'
  <2>1. /\ ~Free(t) /\ Steady /\ pc[t].step \in {"restart", "restartOn"}
        /\ UNCHANGED <<started, timers, wifi, isRunning, starting, request>>
    BY <1>8, <1>c DEF Restarted, Free, Idle
  <2>2. /\ Doing(t) /\ ~starting[t] /\ (\A u \in Tasks \ {t} : Free(u))
        /\ ~isRunning /\ (timer <=> started) /\ (started => shown)
    BY <1>c, <1>d, <2>1 DEF Doing
  <2>3. /\ \/ shown' /\ pc'[t].step = "profile"
           \/ ~shown /\ UNCHANGED shown /\ pc'[t].step = "setup"
        /\ \A u \in Tasks \ {t} : pc'[u] = pc[u]
    BY <1>0, <1>8 DEF Restarted, Go, Step
  <2>4. Doing(t)' /\ ~Free(t)' /\ (started' => shown')
    BY <2>1, <2>2, <2>3 DEF Doing, Free, Calm, Idle
  <2>. QED
    BY <2>1, <2>2, <2>3, <2>4, Settles
<1>9. ASSUME NEW t \in Tasks, ProfileReady(t) PROVE Steady'
  <2>1. ~Free(t) /\ Steady /\ pc[t].step = "profile" /\ UNCHANGED <<wifi, coreSide>>
    BY <1>9, <1>c DEF ProfileReady, Free, Idle
  <2>2. /\ ~starting[t] /\ request[t] = "none" /\ (\A u \in Tasks \ {t} : Free(u))
        /\ ~isRunning /\ (timer <=> started)
    BY <1>0, <1>d, <2>1 DEF Doing
  <2>3. /\ pc'[t].step = "setup" /\ \A u \in Tasks \ {t} : pc'[u] = pc[u]
        /\ started' /\ shown' /\ UNCHANGED <<wifi, coreSide>>
    BY <1>0, <1>9 DEF ProfileReady, Go, Step, _handleStart
  <2>4. \/ suspended /\ timer' /\ UNCHANGED <<starting, request>>
        \/ /\ ~suspended /\ UNCHANGED timers /\ starting' = [starting EXCEPT ![t] = TRUE]
           /\ request' = [request EXCEPT ![t] = "start"]
    BY <1>9 DEF ProfileReady, _handleStart, Ask
  <2>5. /\ \/ ~starting'[t] /\ Calm'
           \/ starting'[t] /\ request'[t] = "start" /\ ~suspended'
        /\ \A u \in Tasks \ {t} : starting'[u] = starting[u] /\ request'[u] = request[u]
    BY <1>0, <2>2, <2>3, <2>4 DEF Calm
  <2>6. Doing(t)' /\ ~Free(t)'
    BY <2>3, <2>5 DEF Doing, Free, Idle
  <2>. QED
    BY <1>c, <2>1, <2>2, <2>3, <2>5, <2>6, Settles
<1>10. ASSUME NEW t \in Tasks, ProfileFails(t) PROVE Steady'
  BY <1>10 DEF ProfileFails, Disturb
<1>11. ASSUME NEW t \in Tasks, CoreHandles(t) PROVE Steady'
  <2>1. ~Free(t) /\ Steady /\ UNCHANGED <<display, timers, wifi, coreUp, pc, starting>>
    BY <1>11, <1>c DEF CoreHandles, Free
  <2>2. /\ request' = [request EXCEPT ![t] = "none"] /\ request'[t] = "none"
        /\ coreUp /\ (isRunning' <=> request[t] = "start") /\ request[t] \in {"start", "stop"}
    BY <1>0, <1>11 DEF CoreHandles, Ask
  <2>3. Doing(t)'
    BY <1>d, <2>1, <2>2 DEF Doing
  <2>4. ~Free(t)'
    BY <1>d, <2>1, <2>2 DEF Free, Idle
  <2>. QED
    BY <1>c, <1>d, <2>1, <2>2, <2>3, <2>4, Settles
<1>12. ASSUME NEW t \in Tasks, GateTimesOut(t) PROVE Steady'
  <2>1. /\ ~Free(t) /\ Steady /\ request[t] = "stop"
        /\ UNCHANGED <<display, timers, wifi, coreSide, pc, starting>>
    BY <1>0, <1>12, <1>b DEF GateTimesOut, Disturb, Free, SteadyInv
  <2>2. /\ request' = [request EXCEPT ![t] = "none"] /\ request'[t] = "none"
        /\ ~coreUp /\ ~isRunning
    BY <1>0, <1>12, <1>c, <2>1 DEF GateTimesOut, Ask
  <2>3. Doing(t)'
    BY <1>d, <2>1, <2>2 DEF Doing
  <2>4. ~Free(t)'
    BY <1>d, <2>1, <2>2 DEF Free, Idle
  <2>. QED
    BY <1>c, <1>d, <2>1, <2>2, <2>3, <2>4, Settles
<1>13. CASE SsidChanges \/ Tick
  <2>1. /\ Steady /\ UNCHANGED <<started, timers, coreSide, tasks>>
        /\ \A t \in Tasks : Free(t)' <=> Free(t)
    BY <1>13, <1>c DEF SsidChanges, Tick, Free
  <2>2. /\ started' => shown'
        /\ shown' => shown \/ started
        /\ \/ UNCHANGED wifi
           \/ debounced' # "none"
           \/ ~started
    BY <1>13, <1>c, <2>1 DEF SsidChanges, Tick
  <2>3. Calm => Calm'
    BY <2>1, <2>2 DEF Calm
  <2>4. ASSUME NEW t \in Tasks PROVE Doing(t)'
    BY <2>1, <2>2, <2>3, <2>4 DEF Steady, Doing
  <2>. QED
    BY <2>1, <2>2, <2>3, <2>4 DEF Steady, Free1
<1>14. CASE CoreDies
  <2>1. /\ Steady /\ UNCHANGED <<display, timers, wifi, pc, starting>>
        /\ ~coreUp' /\ ~isRunning'
        /\ \A t \in Tasks : request'[t] = "none"
    BY <1>14, <1>c DEF CoreDies
  <2>2. \A t \in Tasks : Free(t)' <=> Free(t)
    BY <1>0, <2>1 DEF SwitchInv, Waiting, Free, Idle
  <2>3. Calm => Calm'
    BY <2>1 DEF Calm
  <2>4. ASSUME NEW t \in Tasks PROVE Doing(t)'
    BY <2>1, <2>3, <2>4 DEF Steady, Doing
  <2>. QED
    BY <2>1, <2>2, <2>3, <2>4 DEF Steady, Free1
<1>15. CASE UNCHANGED switchVars
  <2>1. Steady /\ Free1' /\ (Calm => Calm') /\ \A t \in Tasks : Free(t)' <=> Free(t)
    BY <1>15, <1>c DEF switchVars, Steady, Free1, Free, Calm
  <2>2. \A t \in Tasks : Doing(t)'
    BY <1>15, <2>1 DEF switchVars, Steady, Doing
  <2>. QED
    BY <1>15, <2>1, <2>2 DEF switchVars, Steady
<1>. QED
  BY <1>1, <1>2, <1>3, <1>4, <1>5, <1>6, <1>7, <1>8, <1>9, <1>10, <1>11, <1>12, <1>13,
     <1>14, <1>15 DEF SwitchNext, TaskGoes

(* While nobody overlaps and nothing fails, the core listens exactly if the    *)
(* switch is on and the SSID is not excluded (_handleStart, handleStop and the *)
(* suspend listener end in agreement).                                         *)
THEOREM SwitchObeyedAlways == SwitchSpec => []SwitchObeyed
<1>1. SwitchInit => SwitchInv /\ SteadyInv
  <2>. SUFFICES ASSUME SwitchInit PROVE SwitchInv /\ SteadyInv
    OBVIOUS
  <2>1. Flag
    BY DEF SwitchInit, Flag, OneTransition, TipUnguarded, Idle, Step, Steps
  <2>2. \A t \in Tasks : Free(t) /\ Doing(t)
    BY DEF SwitchInit, Free, Doing, Idle
  <2>3. SteadyInv
    BY <2>2 DEF SwitchInit, SteadyInv, Steady, Free1, Calm
  <2>. QED
    BY <2>1, <2>3 DEF SwitchInit, SwitchInv, Values, Waiting, Idle
<1>2. SteadyInv => SwitchObeyed
  BY DEF SteadyInv, Steady, Calm, SwitchObeyed, Rest
<1>. QED
  BY <1>1, <1>2, SwitchInvNext, SteadyNext, PTL DEF SwitchSpec

-----------------------------------------------------------------------------
(***************************************************************************)
(* Proofs about ChangeProxy for all groups, proxies, setups and bounds.    *)
(* One request is out at a time, the one of inFlight, and the call that    *)
(* waits is newer: that gives the order of the calls.  For the agreement,  *)
(* the last tap on a group is in exactly one of three places: the slot     *)
(* that waits, the request that is out, or the core.                       *)
(***************************************************************************)
USE ProxyAssumption

(* The request that is out is the one the task waits for; numbers grow from *)
(* the core over the request to the call that waits.                        *)
Ordered ==
    /\ requests = IF inFlight # NoCall /\ stage = "sent" THEN {inFlight} ELSE {}
    /\ inFlight # NoCall =>
         inFlight.n <= calls /\ applied <= inFlight.n
         /\ (stage = "sent" => applied < inFlight.n)
    /\ pending # NoCall => inFlight.n < pending.n /\ pending.n <= calls

Waits(g) == pending # NoCall /\ pending.g = g
Out(g) == inFlight # NoCall /\ stage = "sent" /\ inFlight.g = g

(* The selection of a group, wherever it is on its way to the core.         *)
OnItsWay(g) ==
    /\ \A s \in Setups : setup[s] # NoCall => setup[s][g] = selectedMap[g]
    /\ Waits(g) => pending.p = selectedMap[g]
    /\ ~Waits(g) /\ Out(g) => inFlight.p = selectedMap[g]
    /\ ~Waits(g) /\ ~Out(g) => selected[g] = selectedMap[g]
Agreed == \A g \in Groups \ mayLose : OnItsWay(g)

ProxyInv == ProxyTypeOK /\ Ordered

LEMMA ProxyInvInit == ProxyInit => ProxyInv /\ Agreed
<1>. SUFFICES ASSUME ProxyInit PROVE ProxyInv /\ Agreed
  OBVIOUS
<1>1. ProxyInv
  BY DEF ProxyInit, ProxyInv, ProxyTypeOK, Ordered, Selection
<1>2. Agreed
  BY DEF ProxyInit, Agreed, OnItsWay, Waits, Out
<1>. QED
  BY <1>1, <1>2

(* A call that is made is newer than all others.                            *)
LEMMA TapInv ==
  ASSUME ProxyInv, NEW g \in Groups, NEW p \in Proxies, Tap(g, p)
  PROVE  ProxyInv'
<1>. DEFINE c == [n |-> calls + 1, g |-> g, p |-> p]
<1>1. c \in Call /\ c # NoCall /\ c.n = calls + 1
  BY DEF ProxyInv, ProxyTypeOK, Tap, Call
<1>2. calls' = calls + 1 /\ calls' \in 0..MaxCalls /\ selectedMap' \in Selection
  BY DEF ProxyInv, ProxyTypeOK, Tap, Selection
<1>3. CASE inFlight # NoCall
  <2>1. pending' = c /\ UNCHANGED <<inFlight, stage, requests, applied, selected, setup>>
    BY <1>3 DEF Tap, changeProxyDebounce, core
  <2>2. inFlight \in Call /\ inFlight.n \in Nat
    BY <1>3 DEF ProxyInv, ProxyTypeOK, Call
  <2>3. ProxyTypeOK'
    BY <1>1, <1>2, <1>3, <2>1 DEF ProxyInv, ProxyTypeOK, Tap
  <2>4. Ordered'
    BY <1>1, <1>2, <1>3, <2>1, <2>2 DEF ProxyInv, ProxyTypeOK, Ordered
  <2>. QED
    BY <2>3, <2>4 DEF ProxyInv
<1>4. CASE inFlight = NoCall
  <2>1. /\ inFlight' = c /\ stage' = "sent" /\ requests' = requests \cup {c}
        /\ UNCHANGED <<pending, applied, selected, setup>>
    BY <1>4 DEF Tap, changeProxyDebounce, core, Send
  <2>2. requests = {} /\ pending = NoCall
    BY <1>4 DEF ProxyInv, ProxyTypeOK, Ordered
  <2>3. ProxyTypeOK'
    BY <1>1, <1>2, <2>1, <2>2 DEF ProxyInv, ProxyTypeOK, Tap
  <2>4. Ordered'
    BY <1>1, <1>2, <2>1, <2>2 DEF ProxyInv, ProxyTypeOK, Ordered
  <2>. QED
    BY <2>3, <2>4 DEF ProxyInv
<1>. QED
  BY <1>3, <1>4

(* A call that the core handles is the one the task waits for.              *)
LEMMA AnswerIsOut ==
  ASSUME ProxyInv, NEW c \in requests
  PROVE  /\ inFlight # NoCall /\ stage = "sent" /\ c = inFlight /\ requests = {inFlight}
         /\ c \in Call /\ c.n \in 1..MaxCalls /\ c.g \in Groups /\ c.p \in Proxies
         /\ applied < c.n /\ c.n <= calls
  BY DEF ProxyInv, ProxyTypeOK, Ordered, Call

LEMMA AnswerInv ==
  ASSUME ProxyInv, NEW c \in requests, NEW next \in {"handled", "refused"},
         Answer(c, next), selected' \in Selection, mayLose' \subseteq Groups
  PROVE  ProxyInv'
<1>1. /\ inFlight # NoCall /\ stage = "sent" /\ c = inFlight /\ requests = {inFlight}
      /\ c.n \in 1..MaxCalls /\ c.n <= calls
  BY AnswerIsOut
<1>2. /\ applied' = inFlight.n /\ requests' = {} /\ stage' = next
      /\ UNCHANGED <<calls, inFlight, pending, selectedMap, setup>>
  BY <1>1 DEF Answer
<1>3. ProxyTypeOK'
  BY <1>1, <1>2 DEF ProxyInv, ProxyTypeOK
<1>4. Ordered'
  BY <1>1, <1>2 DEF ProxyInv, ProxyTypeOK, Ordered
<1>. QED
  BY <1>3, <1>4 DEF ProxyInv

LEMMA CompletedInv == ProxyInv /\ Completed => ProxyInv'
<1>. SUFFICES ASSUME ProxyInv, Completed PROVE ProxyInv'
  OBVIOUS
<1>1. inFlight # NoCall /\ stage # "sent" /\ requests = {}
  BY DEF Completed, ProxyInv, Ordered
<1>2. CASE pending = NoCall
  <2>1. /\ inFlight' = NoCall /\ pending' = NoCall
        /\ UNCHANGED <<stage, requests, calls, applied, selected, selectedMap, setup, mayLose>>
    BY <1>2 DEF Completed, core
  <2>. QED
    BY <1>1, <2>1 DEF ProxyInv, ProxyTypeOK, Ordered
<1>3. CASE pending # NoCall
  <2>1. /\ inFlight' = pending /\ stage' = "sent" /\ requests' = requests \cup {pending}
        /\ pending' = NoCall
        /\ UNCHANGED <<calls, applied, selected, selectedMap, setup, mayLose>>
    BY <1>3 DEF Completed, core, Send
  <2>2. pending \in Call /\ pending.n \in Nat /\ inFlight.n \in Nat
    BY <1>1, <1>3 DEF ProxyInv, ProxyTypeOK, Call
  <2>3. ProxyTypeOK'
    BY <1>1, <2>1, <2>2 DEF ProxyInv, ProxyTypeOK
  <2>4. Ordered'
    BY <1>1, <1>3, <2>1, <2>2 DEF ProxyInv, ProxyTypeOK, Ordered
  <2>. QED
    BY <2>3, <2>4 DEF ProxyInv
<1>. QED
  BY <1>2, <1>3

(* Every step keeps the types and the order.                                *)
LEMMA ProxyInvNext == ProxyInv /\ [ProxyNext]_proxyVars => ProxyInv'
<1>. SUFFICES ASSUME ProxyInv, [ProxyNext]_proxyVars PROVE ProxyInv'
  OBVIOUS
<1>1. ASSUME NEW g \in Groups, NEW p \in Proxies, Tap(g, p) PROVE ProxyInv'
  BY <1>1, TapInv
<1>2. ASSUME NEW c \in requests, CoreSelects(c) PROVE ProxyInv'
  <2>1. selected' \in Selection /\ mayLose' \subseteq Groups
    BY <1>2, AnswerIsOut DEF CoreSelects, ProxyInv, ProxyTypeOK, Selection
  <2>. QED
    BY <1>2, <2>1, AnswerInv DEF CoreSelects
<1>3. ASSUME NEW c \in requests, CoreRefuses(c) PROVE ProxyInv'
  <2>1. selected' \in Selection /\ mayLose' \subseteq Groups
    BY <1>3, AnswerIsOut DEF CoreRefuses, ProxyInv, ProxyTypeOK
  <2>. QED
    BY <1>3, <2>1, AnswerInv DEF CoreRefuses
<1>4. CASE CloseConnections
  BY <1>4 DEF CloseConnections, core, ProxyInv, ProxyTypeOK, Ordered
<1>5. CASE Completed
  BY <1>5, CompletedInv
<1>6. ASSUME NEW s \in Setups, SendSetup(s) PROVE ProxyInv'
  BY <1>6 DEF SendSetup, core, task, ProxyInv, ProxyTypeOK, Ordered
<1>7. ASSUME NEW s \in Setups, SetupHandled(s) PROVE ProxyInv'
  BY <1>7 DEF SetupHandled, core, task, ProxyInv, ProxyTypeOK, Ordered
<1>8. CASE UNCHANGED proxyVars
  BY <1>8 DEF proxyVars, core, task, ProxyInv, ProxyTypeOK, Ordered
<1>. QED
  BY <1>1, <1>2, <1>3, <1>4, <1>5, <1>6, <1>7, <1>8 DEF ProxyNext, ProxyTask

(* Every variable has its type, what the core has handled was called, and a *)
(* call waits only behind another one.                                      *)
THEOREM ProxyTypeCorrect == ProxySpec => []ProxyTypeOK
<1>1. ProxyInit => ProxyInv
  BY ProxyInvInit
<1>2. ProxyInv => ProxyTypeOK
  BY DEF ProxyInv
<1>. QED
  BY <1>1, <1>2, ProxyInvNext, PTL DEF ProxySpec

(* A step of the detailed specification is one of the abstract one, which   *)
(* lets calls take effect in their order only.                              *)
LEMMA StepIsLatest ==
  ASSUME ProxyInv, [ProxyNext]_proxyVars
  PROVE  [Latest!Next]_<<calls, applied>>
<1>1. ASSUME NEW g \in Groups, NEW p \in Proxies, Tap(g, p) PROVE Latest!Next
  BY <1>1 DEF Tap, core, Latest!Next, Latest!Call
<1>2. ASSUME NEW c \in requests, Answer(c, "handled") \/ Answer(c, "refused")
      PROVE  Latest!Next
  <2>1. c.n \in (applied + 1)..calls /\ applied' = c.n /\ calls' = calls
    BY <1>2, AnswerIsOut DEF Answer, ProxyInv, ProxyTypeOK
  <2>. QED
    BY <2>1 DEF Latest!Next, Latest!Apply
<1>3. CASE \/ CloseConnections \/ Completed \/ UNCHANGED proxyVars
           \/ \E s \in Setups : SendSetup(s) \/ SetupHandled(s)
  BY <1>3 DEF CloseConnections, Completed, SendSetup, SetupHandled, proxyVars, core
<1>. QED
  BY <1>1, <1>2, <1>3 DEF ProxyNext, ProxyTask, CoreSelects, CoreRefuses

(* The selections take effect in the order of the taps, each at most once:  *)
(* the queue of one request and one waiting call implements LatestCall.     *)
THEOREM ProxyLatestWins == ProxySpec => LatestWins
<1>1. ProxyInit => ProxyInv /\ Latest!Init
  BY ProxyInvInit DEF ProxyInit, Latest!Init
<1>2. ProxyInv /\ [ProxyNext]_proxyVars => [Latest!Next]_<<calls, applied>>
  BY StepIsLatest
<1>. QED
  BY <1>1, <1>2, ProxyInvNext, PTL DEF ProxySpec, LatestWins

(* A tap puts the selection of its group where the next request takes it.   *)
LEMMA TapAgreed ==
  ASSUME ProxyInv, Agreed, NEW g \in Groups, NEW p \in Proxies, Tap(g, p)
  PROVE  Agreed'
<1>. SUFFICES ASSUME NEW h \in Groups \ mayLose' PROVE OnItsWay(h)'
  BY DEF Agreed
<1>. DEFINE c == [n |-> calls + 1, g |-> g, p |-> p]
<1>1. c # NoCall /\ c.g = g /\ c.p = p
  BY DEF ProxyInv, ProxyTypeOK, Tap, Call
<1>2. OnItsWay(h) /\ (Waits(h) => h = g) /\ (SetupUnderWay => h # g)
  BY DEF Agreed, Tap, Waits
<1>3. /\ UNCHANGED <<selected, setup>> /\ selectedMap' = [selectedMap EXCEPT ![g] = p]
      /\ selectedMap \in [Groups -> Proxies]
  BY DEF Tap, core, ProxyInv, ProxyTypeOK, Selection
<1>4. \A s \in Setups : setup'[s] # NoCall => setup'[s][h] = selectedMap'[h]
  BY <1>2, <1>3 DEF OnItsWay, SetupUnderWay
<1>5. CASE inFlight # NoCall
  <2>1. pending' = c /\ UNCHANGED <<inFlight, stage>>
    BY <1>5 DEF Tap, changeProxyDebounce
  <2>. QED
    BY <1>1, <1>2, <1>3, <1>4, <2>1 DEF OnItsWay, Waits, Out
<1>6. CASE inFlight = NoCall
  <2>1. inFlight' = c /\ stage' = "sent" /\ pending' = NoCall /\ pending = NoCall
    BY <1>6 DEF Tap, changeProxyDebounce, Send, ProxyInv, ProxyTypeOK
  <2>. QED
    BY <1>1, <1>2, <1>3, <1>4, <1>6, <2>1 DEF OnItsWay, Waits, Out
<1>. QED
  BY <1>5, <1>6

LEMMA AgreedNext == ProxyInv /\ Agreed /\ [ProxyNext]_proxyVars => Agreed'
<1>. SUFFICES ASSUME ProxyInv, Agreed, [ProxyNext]_proxyVars PROVE Agreed'
  OBVIOUS
<1>1. ASSUME NEW g \in Groups, NEW p \in Proxies, Tap(g, p) PROVE Agreed'
  BY <1>1, TapAgreed
<1>2. ASSUME NEW c \in requests, CoreSelects(c) PROVE Agreed'
  <2>1. inFlight # NoCall /\ stage = "sent" /\ c = inFlight
    BY AnswerIsOut
  <2>2. /\ stage' = "handled" /\ selected' = [selected EXCEPT ![inFlight.g] = inFlight.p]
        /\ UNCHANGED <<inFlight, pending, selectedMap, setup, mayLose>>
    BY <1>2, <2>1 DEF CoreSelects, Answer
  <2>3. selected \in [Groups -> Proxies]
    BY DEF ProxyInv, ProxyTypeOK, Selection
  <2>. QED
    BY <2>1, <2>2, <2>3 DEF Agreed, OnItsWay, Waits, Out
<1>3. ASSUME NEW c \in requests, CoreRefuses(c) PROVE Agreed'
  <2>1. inFlight # NoCall /\ stage = "sent" /\ c = inFlight
    BY AnswerIsOut
  <2>2. /\ stage' = "refused" /\ mayLose' = mayLose \cup {inFlight.g}
        /\ UNCHANGED <<inFlight, pending, selected, selectedMap, setup>>
    BY <1>3, <2>1 DEF CoreRefuses, Answer
  <2>. QED
    BY <2>1, <2>2 DEF Agreed, OnItsWay, Waits, Out
<1>4. CASE CloseConnections
  BY <1>4 DEF CloseConnections, core, Agreed, OnItsWay, Waits, Out
<1>5. CASE Completed
  <2>1. /\ stage # "sent" /\ pending' = NoCall
        /\ UNCHANGED <<selected, selectedMap, setup, mayLose>>
        /\ IF pending = NoCall THEN inFlight' = NoCall
           ELSE inFlight' = pending /\ stage' = "sent"
    BY <1>5 DEF Completed, core, Send
  <2>. QED
    BY <2>1 DEF Agreed, OnItsWay, Waits, Out
<1>6. ASSUME NEW s \in Setups, SendSetup(s) PROVE Agreed'
  <2>1. /\ setup' = [setup EXCEPT ![s] = selectedMap]
        /\ UNCHANGED <<inFlight, stage, pending, selected, selectedMap, mayLose>>
    BY <1>6 DEF SendSetup, core, task
  <2>2. \A r \in Setups : setup'[r] = setup[r] \/ setup'[r] = selectedMap
    BY <2>1 DEF ProxyInv, ProxyTypeOK
  <2>. QED
    BY <2>1, <2>2 DEF Agreed, OnItsWay, Waits, Out
<1>7. ASSUME NEW s \in Setups, SetupHandled(s) PROVE Agreed'
  <2>1. /\ setup[s] # NoCall /\ selected' = setup[s]
        /\ setup' = [setup EXCEPT ![s] = NoCall]
        /\ UNCHANGED <<inFlight, stage, pending, selectedMap, mayLose>>
    BY <1>7 DEF SetupHandled, task
  <2>2. \A r \in Setups : setup'[r] = setup[r] \/ setup'[r] = NoCall
    BY <2>1 DEF ProxyInv, ProxyTypeOK
  <2>. QED
    BY <2>1, <2>2 DEF Agreed, OnItsWay, Waits, Out
<1>8. CASE UNCHANGED proxyVars
  BY <1>8 DEF proxyVars, core, task, Agreed, OnItsWay, Waits, Out
<1>. QED
  BY <1>1, <1>2, <1>3, <1>4, <1>5, <1>6, <1>7, <1>8 DEF ProxyNext, ProxyTask

(* When nothing is under way the core has, for each group, the selection    *)
(* that the profile names, except where a selection may be lost.            *)
THEOREM ProxySelectionAgrees == ProxySpec => []SelectionAgrees
<1>1. ProxyInit => ProxyInv /\ Agreed
  BY ProxyInvInit
<1>2. ProxyInv /\ Agreed => SelectionAgrees
  BY DEF ProxyInv, ProxyTypeOK, Agreed, OnItsWay, Waits, Out, SelectionAgrees
<1>. QED
  BY <1>1, <1>2, ProxyInvNext, AgreedNext, PTL DEF ProxySpec
================================================================================
