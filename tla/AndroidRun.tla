----------------------------- MODULE AndroidRun -----------------------------
(* The run state of the Android application (State.kt) and the service process *)
(* it talks to (RemoteService.kt).  Tiles, intents, broadcasts and Flutter ask *)
(* for a start or a stop in coroutines of their own; runLock keeps them apart, *)
(* but not from the callback that waits for the VPN permission.                *)
EXTENDS Naturals

CONSTANTS Jobs,            \* places for coroutines, used again and again
          MaxCommands,     \* bound: what users and Flutter ask for
          NoJob

ASSUME RunAssumption == MaxCommands \in Nat /\ NoJob \notin Jobs

VARIABLES
    runState,     \* runStateFlow
    runLock,      \* its holder
    engine,       \* flutterEngine # null, and with it the plugins
    listening,    \* onServiceDisconnected is set
    permission,   \* vpnPrepareCallback waits for the user
    at,           \* per job: what it waits to do, or waits for
    remote,       \* per job: its call the service process has not handled
    alive,        \* the VPN service exists
    up,           \* it runs
    created, destroyed,  \* its broadcasts that have not arrived
    runTime,      \* the service process: runTime # 0
    commands,
    excused       \* history: what went wrong and was not made up for (see RunAgrees)

run == <<runState, runLock>>
app == <<engine, listening, permission>>
service == <<alive, up, created, destroyed, runTime>>
runVars == <<run, app, at, remote, service, commands, excused>>

Waiting == {"toggle", "startAction", "stopAction", "pref", "start", "stop", "sync"}
Holding == {"setup", "starting", "stopping", "syncing"}
Outside == {"callback", "calling"}   \* the callback of prepare, without the lock

RunTypeOK ==
    /\ runState \in {"STOP", "PENDING", "START"}
    /\ runLock \in Jobs \cup {NoJob}
    /\ {engine, listening, permission, alive, up, created, destroyed, runTime} \subseteq BOOLEAN
    /\ at \in [Jobs -> {"idle"} \cup Waiting \cup Holding \cup Outside]
    /\ remote \in [Jobs -> {"none", "start", "stop", "lost"}]
    /\ commands \in 0..MaxCommands
    /\ excused \subseteq {"timeout", "failed", "late", "deaf"}
    /\ \A j \in Jobs : at[j] \in Holding <=> runLock = j
    /\ runState = "PENDING" =>
         \E j \in Jobs : runLock = j /\ at[j] \in {"starting", "stopping"}

RunInit ==
    /\ runState = "STOP" /\ runLock = NoJob
    /\ engine \in BOOLEAN /\ listening = engine /\ permission = FALSE
    /\ at = [j \in Jobs |-> "idle"] /\ remote = [j \in Jobs |-> "none"]
    /\ alive = FALSE /\ up = FALSE /\ created = FALSE /\ destroyed = FALSE
    /\ runTime = FALSE /\ commands = 0 /\ excused = {}

Goto(j, next) == at' = [at EXCEPT ![j] = next]
Remote(j, what) == remote' = [remote EXCEPT ![j] = what]
Idling(j) == at[j] = "idle" /\ remote[j] = "none"
Blame(wrong, what) == excused' = IF wrong THEN excused \cup {what} ELSE excused
CallbackUnderWay == permission \/ \E j \in Jobs : at[j] \in Outside

(* The service process has answered j at this place, and nothing crosses the   *)
(* answer: what went wrong before is made up for.                              *)
Alone(j, place) ==
    at[j] = place /\ ~CallbackUnderWay /\ \A k \in Jobs : remote'[k] = "none"
Answered(j, place, failed) ==
    excused' = (IF Alone(j, place) THEN {} ELSE excused) \cup (IF failed THEN {"failed"} ELSE {})

(* Somebody asks: the toggle, start or stop action of a tile or an intent;     *)
(* handleStartService, handleStopService and getRunTime of Flutter.            *)
Command(j, what) ==
    /\ Idling(j) /\ commands < MaxCommands
    /\ commands' = commands + 1
    /\ what \in {"start", "stop"} => engine
    /\ Goto(j, what)
    /\ UNCHANGED <<run, app, remote, service, excused>>

ServiceCreated(j) ==
    /\ Idling(j) /\ created /\ created' = FALSE
    /\ Goto(j, "startAction")
    /\ UNCHANGED <<run, app, remote, alive, up, destroyed, runTime, commands, excused>>

ServiceDestroyed(j) ==
    /\ Idling(j) /\ destroyed /\ destroyed' = FALSE
    /\ Goto(j, "stopAction")
    /\ UNCHANGED <<run, app, remote, alive, up, created, runTime, commands, excused>>

(* The activity comes, and its handleInit sets the listener, and goes.         *)
EngineChanges ==
    /\ engine' = ~engine /\ listening' = (listening \/ engine')
    /\ UNCHANGED <<run, permission, at, remote, service, commands, excused>>

(* handleToggleAction chooses under the lock and acts after it.  With an       *)
(* engine the actions only tell Flutter, which asks itself (Command).          *)
ActionOf == [STOP |-> "startAction", START |-> "stopAction", PENDING |-> "idle"]
Choose(j) ==
    /\ runLock = NoJob /\ at[j] \in {"toggle", "startAction", "stopAction"}
    /\ Goto(j, CASE at[j] = "toggle" -> ActionOf[runState]
                 [] at[j] = "startAction" ->
                      IF runState = "STOP" /\ ~engine THEN "pref" ELSE "idle"
                 [] OTHER -> IF runState = "START" /\ ~engine THEN "stop" ELSE "idle")
    /\ UNCHANGED <<run, app, remote, service, commands, excused>>

(* startServiceWithPref: quickSetup under the lock; onStarted calls            *)
(* startService, which is what remains if the service process answers.         *)
PrefStart(j) ==
    /\ at[j] = "pref" /\ runLock = NoJob
    /\ IF runState = "STOP" THEN Goto(j, "setup") /\ runLock' = j
       ELSE Goto(j, "idle") /\ UNCHANGED runLock
    /\ UNCHANGED <<runState, app, remote, service, commands, excused>>

SetupEnds(j) ==
    /\ at[j] = "setup" /\ runLock' = NoJob
    /\ \E next \in {"start", "idle"} : Goto(j, next)
    /\ UNCHANGED <<runState, app, remote, service, commands, excused>>

(* A bug: the state stays at PENDING when there is nothing to start.           *)
StartService_NoFinally(j) ==
    /\ at[j] = "start" /\ runLock = NoJob /\ runState = "STOP"
    /\ runState' = "PENDING" /\ Goto(j, "idle")
    /\ UNCHANGED <<runLock, app, remote, service, commands, excused>>

(* startService.  With an engine it leaves the start to the callback of        *)
(* prepare, and its finally block puts STOP back; without one it needs the     *)
(* permission and the options to be there.                                     *)
StartService(j) ==
    /\ at[j] = "start" /\ runLock = NoJob
    /\ \/ /\ runState # "STOP" \/ ~engine
          /\ Goto(j, "idle") /\ UNCHANGED <<run, permission, remote, excused>>
       \/ /\ runState = "STOP" /\ engine
          /\ \/ Goto(j, "callback") /\ UNCHANGED permission
             \/ permission' = TRUE /\ Goto(j, "idle")
          /\ Blame(CallbackUnderWay, "late")
          /\ UNCHANGED <<run, remote>>
       \/ /\ runState = "STOP" /\ ~engine
          /\ runState' = "PENDING" /\ runLock' = j
          /\ Goto(j, "starting") /\ Remote(j, "start")
          /\ Blame(CallbackUnderWay, "late") /\ UNCHANGED permission
    /\ UNCHANGED <<engine, listening, service, commands>>

(* The user answers: a refusal forgets the callback.                           *)
PermissionAnswered(j) ==
    /\ permission /\ permission' = FALSE
    /\ Idling(j) /\ \E next \in {"callback", "idle"} : Goto(j, next)
    /\ UNCHANGED <<run, engine, listening, remote, service, commands, excused>>

CallbackCalls(j) ==
    /\ at[j] = "callback"
    /\ Goto(j, "calling") /\ Remote(j, "start")
    /\ UNCHANGED <<run, app, service, commands, excused>>

StopService(j) ==
    /\ at[j] = "stop" /\ runLock = NoJob
    /\ IF runState = "START"
       THEN /\ runState' = "PENDING" /\ runLock' = j
            /\ Goto(j, "stopping") /\ Remote(j, "stop")
            /\ Blame(CallbackUnderWay, "late")
       ELSE Goto(j, "idle") /\ UNCHANGED <<run, remote, excused>>
    /\ UNCHANGED <<app, service, commands>>

(* The answer, or 0 after five seconds, which is taken for an answer.          *)
CallEnds(j) ==
    /\ at[j] \in {"starting", "calling", "stopping"}
    /\ runState' = IF at[j] = "stopping" THEN "STOP" ELSE "START"
    /\ Goto(j, "idle") /\ runLock' = IF runLock = j THEN NoJob ELSE runLock
    /\ remote' = [remote EXCEPT ![j] = IF @ = "lost" THEN "none" ELSE @]
    /\ Blame(remote[j] # "none", "timeout")
    /\ UNCHANGED <<app, service, commands>>

(* A bug: handleSyncState does not take the lock.                              *)
Sync_NoLock(j) ==
    /\ at[j] = "sync" /\ Goto(j, "syncing")
    /\ UNCHANGED <<run, app, remote, service, commands, excused>>

Sync(j) ==
    /\ at[j] = "sync" /\ runLock = NoJob
    /\ Goto(j, "syncing") /\ runLock' = j
    /\ UNCHANGED <<runState, app, remote, service, commands, excused>>

(* handleSyncState: the run time of the service process decides, or nothing    *)
(* does, which counts as 0.                                                    *)
SyncEnds(j) ==
    /\ at[j] = "syncing"
    /\ Goto(j, "idle") /\ runLock' = NoJob
    /\ UNCHANGED <<app, remote, service, commands>>
    /\ \/ /\ runState' = (IF runTime THEN "START" ELSE "STOP")
          /\ IF Alone(j, "syncing") THEN excused' = excused \cap {"failed"}
                                    ELSE Blame(CallbackUnderWay, "late")
       \/ runState' = "STOP" /\ Blame(runTime, "timeout")

(* handleStartService of RemoteService; a service that cannot start stops      *)
(* itself, and the answer is a run time all the same.                          *)
RemoteStarts(j) ==
    /\ remote[j] = "start" /\ Remote(j, "none")
    /\ alive' = TRUE /\ created' = (created \/ ~alive)
    /\ up' \in {TRUE, FALSE} /\ Answered(j, "starting", ~up')
    /\ runTime' = TRUE
    /\ UNCHANGED <<run, app, at, destroyed, commands>>

(* handleStopService; useService may fail, which is dropped.                   *)
RemoteStops(j) ==
    /\ remote[j] = "stop" /\ Remote(j, "none")
    /\ \/ /\ up' = FALSE /\ alive' = FALSE /\ destroyed' = (destroyed \/ alive)
          /\ Answered(j, "stopping", FALSE)
       \/ UNCHANGED <<up, alive, destroyed>> /\ Answered(j, "stopping", up)
    /\ runTime' = FALSE
    /\ UNCHANGED <<run, app, at, created, commands>>

(* A bug: the state is left alone when the service process is gone.            *)
Disconnected_Ignored ==
    /\ alive
    /\ alive' = FALSE /\ up' = FALSE /\ runTime' = FALSE
    /\ UNCHANGED <<run, app, at, remote, created, destroyed, commands, excused>>

(* The service process dies and its calls with it.  Who listens sets the       *)
(* state, without the lock; an application that never had an engine does not.  *)
Disconnected ==
    /\ alive
    /\ alive' = FALSE /\ up' = FALSE /\ runTime' = FALSE
    /\ remote' = [j \in Jobs |->
         IF remote[j] = "none" \/ at[j] = "idle" THEN "none" ELSE "lost"]
    /\ runState' = IF listening THEN "STOP" ELSE runState
    /\ excused' = (excused \ {"failed"})
         \cup (IF CallbackUnderWay \/ \E j \in Jobs : at[j] \in Holding \ {"setup"}
               THEN {"late"} ELSE {})
         \cup (IF listening \/ runState # "START" THEN {} ELSE {"deaf"})
    /\ UNCHANGED <<runLock, app, at, created, destroyed, commands>>

JobGoes(j) ==
    \/ Choose(j) \/ PrefStart(j) \/ SetupEnds(j) \/ StartService(j) \/ StopService(j)
    \/ CallbackCalls(j) \/ CallEnds(j) \/ Sync(j) \/ SyncEnds(j)
    \/ RemoteStarts(j) \/ RemoteStops(j)

RunNext ==
    \/ \E j \in Jobs :
         \/ \E what \in {"toggle", "startAction", "stopAction", "start", "stop", "sync"} :
              Command(j, what)
         \/ ServiceCreated(j) \/ ServiceDestroyed(j) \/ PermissionAnswered(j) \/ JobGoes(j)
    \/ EngineChanges \/ Disconnected

RunSpec == RunInit /\ [][RunNext]_runVars
RunFairness == \A j \in Jobs : WF_runVars(JobGoes(j))

-----------------------------------------------------------------------------
RunRest == ~CallbackUnderWay /\ ~created /\ ~destroyed /\ \A j \in Jobs : Idling(j)

(* When nothing is under way, the state is START exactly if the service        *)
(* process says it runs, and if the VPN service runs, with these exceptions:   *)
(*   timeout - a call ended after five seconds without an answer, which is     *)
(*             taken for an answer (useService of Service.kt);                 *)
(*   late    - a start, a stop or a sync was made, or the service process      *)
(*             died, while the callback of prepare was outside the lock; or    *)
(*             the process died during a start, a stop or a sync, so that the  *)
(*             listener and the call both set the state;                       *)
(*   deaf    - the process died at START and nobody listened, so that START    *)
(*             stays without a service;                                        *)
(*   failed  - the service did not start or stop although the process answers  *)
(*             as if it did: the state is what the process says.               *)
(* None of them outlasts the next start or stop that is answered with nothing  *)
(* beside it, and only failed outlasts such a sync.                            *)
RunAgrees == RunRest =>
    /\ excused \subseteq {"failed"} => (runState = "START" <=> runTime)
    /\ excused = {} => (runState = "START" <=> up)

(* PENDING, in which nobody can start or stop, does not last.                  *)
PendingEnds == runState = "PENDING" ~> runState # "PENDING"
=============================================================================
