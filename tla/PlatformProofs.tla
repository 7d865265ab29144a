---------------------------- MODULE PlatformProofs ----------------------------
(* The parts on the side of the platform: the helper of Windows, the modules of *)
(* an Android service, the run state of the Android application, for any        *)
(* number of threads, processes, starts, coroutines and commands.               *)
EXTENDS AndroidRun, ModuleLoader, HelperService, TLAPS

-----------------------------------------------------------------------------
(* The helper.  As long as no two starts were under way at once, a start that  *)
(* has stopped the old process and has not taken the lock again finds that     *)
(* nothing runs.                                                               *)
InStart == {"starts", "spawns"}

(* OnlyChild, and what a start between its two holds of the lock relies on. *)
HelperInv ==
    /\ handler \in [Handlers -> {"free", "starts", "spawns", "stops"}]
    /\ ~overlapped =>
         /\ running \subseteq {child}
         /\ \A h \in Handlers : handler[h] = "spawns" => running = {}
         /\ \A g, h \in Handlers : handler[g] \in InStart /\ handler[h] \in InStart => g = h

LEMMA HelperInvNext == HelperInv /\ [HelperNext]_helperVars => HelperInv'
<1>. SUFFICES ASSUME HelperInv, [HelperNext]_helperVars PROVE HelperInv'
  OBVIOUS
<1>. USE DEF HelperInv, InStart
<1>1. ASSUME NEW h \in Handlers, Request(h) PROVE HelperInv'
  <2>1. PICK what \in {"starts", "stops"} : handler' = [handler EXCEPT ![h] = what]
    BY <1>1 DEF Request
  <2>2. CASE what = "stops"
    BY <1>1, <2>1, <2>2 DEF Request
  <2>3. CASE what = "starts"
    <3>1. ~overlapped' => ~overlapped /\ \A g \in Handlers : handler[g] \notin InStart
      BY <1>1, <2>1, <2>3 DEF Request
    <3>. QED
      BY <1>1, <2>1, <2>3, <3>1 DEF Request
  <2>. QED
    BY <2>2, <2>3
<1>2. ASSUME NEW h \in Handlers, StopChild(h) PROVE HelperInv'
  <2>1. ~overlapped => running' = {}
    BY <1>2 DEF StopChild
  <2>. QED
    BY <1>2, <2>1 DEF StopChild
<1>3. ASSUME NEW h \in Handlers, Spawn(h) PROVE HelperInv'
  <2>1. ~overlapped => running' = {child'} /\ \A g \in Handlers : handler'[g] # "spawns"
    BY <1>3 DEF Spawn
  <2>. QED
    BY <1>3, <2>1 DEF Spawn
<1>4. ASSUME NEW h \in Handlers, SpawnFails(h) PROVE HelperInv'
  BY <1>4 DEF SpawnFails
<1>5. CASE CoreExits
  BY <1>5 DEF CoreExits
<1>6. CASE UNCHANGED helperVars
  BY <1>6 DEF helperVars
<1>. QED
  BY <1>1, <1>2, <1>3, <1>4, <1>5, <1>6 DEF HelperNext

(* No core runs that the helper cannot stop, unless two starts overlapped.  *)
THEOREM HelperOnlyChild == HelperSpec => []OnlyChild
<1>1. HelperInit => HelperInv
  BY DEF HelperInit, HelperInv, InStart
<1>2. HelperInv => OnlyChild
  BY DEF HelperInv, OnlyChild
<1>. QED
  BY <1>1, <1>2, HelperInvNext, PTL DEF HelperSpec

-----------------------------------------------------------------------------
(* The modules.  Without an overtaken cancel all loads but the last are over.  *)
LoaderTypes ==
    /\ loads \in 0..MaxLoads /\ loadJob = loads
    /\ loader \in [Loads -> {"none", "queued", "installs", "ended"}]
    /\ cancels \in [Loads -> {"none", "queued", "waits", "ended"}]
    /\ {busy, wantsModules, overtaken} \subseteq BOOLEAN
    /\ wantsModules => loads > 0
    /\ \A n \in Loads : n > loads => loader[n] = "none" /\ cancels[n] = "none"

(* How far the last load and its cancel are, and what that says of modules.    *)
LastLoad(n) ==
    /\ loader[n] # "none" /\ modules \subseteq {n}
    /\ busy <=> loader[n] = "installs"
    /\ wantsModules <=> cancels[n] = "none"
    /\ cancels[n] \in {"waits", "ended"} => loader[n] # "queued"
    /\ cancels[n] = "ended" => loader[n] = "ended" /\ modules = {}
    /\ loader[n] = "queued" => modules = {}
    /\ cancels[n] = "none" /\ loader[n] # "queued" => modules = {n}

Orderly ==
    /\ loads = 0 => modules = {} /\ ~busy
    /\ loads > 0 => LastLoad(loads)
    /\ \A n \in Loads : n < loads => loader[n] = "ended" /\ cancels[n] = "ended"

LoaderInv == LoaderTypes /\ (~overtaken => Orderly)

LEMMA LoaderInvNext == LoaderInv /\ [LoaderNext]_loaderVars => LoaderInv'
<1>. SUFFICES ASSUME LoaderInv, [LoaderNext]_loaderVars PROVE LoaderInv'
  OBVIOUS
<1>. USE LoaderAssumption DEF Loads
<1>0. LoaderTypes /\ loads \in Nat
  BY DEF LoaderInv, LoaderTypes
<1>1. CASE Load
  <2>1. LoaderTypes'
    BY <1>0, <1>1 DEF Load, LoaderTypes
  <2>2. ASSUME ~overtaken' PROVE Orderly'
    <3>1. Orderly /\ \A n \in Loads : cancels[n] \notin {"queued", "waits"}
      BY <1>1, <2>2 DEF Load, LoaderInv
    <3>2. loads > 0 => loader[loads] = "ended" /\ cancels[loads] = "ended" /\ ~busy
      BY <1>0, <1>1, <3>1 DEF Load, Orderly, LastLoad, LoaderTypes
    <3>3. modules = {} /\ ~busy
      BY <1>0, <3>1, <3>2 DEF Orderly, LastLoad
    <3>4. LastLoad(loads)'
      BY <1>0, <1>1, <3>3 DEF Load, LoaderTypes, LastLoad
    <3>. QED
      BY <1>0, <1>1, <3>1, <3>2, <3>4 DEF Load, LoaderTypes, Orderly
  <2>. QED
    BY <2>1, <2>2 DEF LoaderInv
<1>2. CASE Cancel
  <2>1. LoaderTypes'
    <3>1. wantsModules' = FALSE /\ \A n \in Loads : n > loads' => cancels'[n] = "none"
      BY <1>0, <1>2 DEF Cancel, LoaderTypes
    <3>2. wantsModules' \in BOOLEAN /\ (wantsModules' => loads' > 0)
      BY <3>1
    <3>. QED
      BY <1>0, <1>2, <3>1, <3>2 DEF Cancel, LoaderTypes
  <2>2. ASSUME ~overtaken' PROVE Orderly'
    <3>1. Orderly /\ loads > 0
      BY <1>0, <1>2, <2>2 DEF Cancel, LoaderInv, LoaderTypes
    <3>2. LastLoad(loads)'
      BY <1>0, <1>2, <3>1 DEF Cancel, LoaderTypes, Orderly, LastLoad
    <3>. QED
      BY <1>0, <1>2, <3>1, <3>2 DEF Cancel, LoaderTypes, Orderly
  <2>. QED
    BY <2>1, <2>2 DEF LoaderInv
<1>3. ASSUME NEW n \in Loads, Install(n) \/ Installed(n) \/ CancelJob(n) \/ Uninstall(n)
      PROVE  LoaderInv'
  <2>1. n <= loads /\ UNCHANGED <<loads, overtaken, wantsModules>>
    BY <1>0, <1>3 DEF LoaderTypes, Install, Installed, CancelJob, Uninstall
  <2>2. LoaderTypes'
    BY <1>0, <1>3, <2>1 DEF LoaderTypes, Install, Installed, CancelJob, Uninstall
  <2>3. ASSUME ~overtaken' PROVE Orderly'
    <3>1. Orderly /\ loads > 0
      BY <1>0, <2>1, <2>3 DEF LoaderInv
    <3>2. n = loads
      BY <1>0, <1>3, <2>1, <3>1 DEF Orderly, Install, Installed, CancelJob, Uninstall
    <3>3. LastLoad(loads)'
      <4>1. CASE Install(n)
        BY <1>0, <3>1, <3>2, <4>1 DEF Install, LoaderTypes, Orderly, LastLoad
      <4>2. CASE Installed(n)
        BY <1>0, <3>1, <3>2, <4>2 DEF Installed, LoaderTypes, Orderly, LastLoad
      <4>3. CASE CancelJob(n)
        BY <1>0, <3>1, <3>2, <4>3 DEF CancelJob, LoaderTypes, Orderly, LastLoad
      <4>4. CASE Uninstall(n)
        BY <1>0, <3>1, <3>2, <4>4 DEF Uninstall, LoaderTypes, Orderly, LastLoad
      <4>. QED
        BY <1>3, <4>1, <4>2, <4>3, <4>4
    <3>4. \A m \in Loads \ {n} : loader'[m] = loader[m] /\ cancels'[m] = cancels[m]
      BY <1>0, <1>3, <3>2 DEF LoaderTypes, Install, Installed, CancelJob, Uninstall
    <3>. QED
      BY <1>0, <2>1, <3>1, <3>2, <3>3, <3>4 DEF Orderly
  <2>. QED
    BY <2>2, <2>3 DEF LoaderInv
<1>4. CASE UNCHANGED loaderVars
  BY <1>4 DEF loaderVars, LoaderInv, LoaderTypes, Orderly, LastLoad
<1>. QED
  BY <1>1, <1>2, <1>3, <1>4 DEF LoaderNext

(* When the coroutines have ended the modules are those of the last load, or   *)
(* none after a cancel, unless a load overtook a cancel.                       *)
THEOREM ModulesAgreeAlways == LoaderSpec => []ModulesAgree
<1>1. LoaderInit => LoaderInv
  <2>. SUFFICES ASSUME LoaderInit PROVE LoaderInv
    OBVIOUS
  <2>1. LoaderTypes
    <3>1. {busy, wantsModules, overtaken} \subseteq BOOLEAN /\ ~wantsModules
      BY DEF LoaderInit
    <3>2. /\ loads \in 0..MaxLoads /\ loadJob = loads
          /\ loader = [n \in Loads |-> "none"] /\ cancels = [n \in Loads |-> "none"]
      BY LoaderAssumption DEF LoaderInit
    <3>. QED
      BY <3>1, <3>2 DEF LoaderTypes
  <2>2. Orderly
    BY LoaderAssumption DEF LoaderInit, Orderly, Loads
  <2>. QED
    BY <2>1, <2>2 DEF LoaderInv
<1>2. LoaderInv => ModulesAgree
  BY LoaderAssumption
     DEF LoaderInv, LoaderTypes, Orderly, LastLoad, LoaderRest, ModulesAgree, Loads
<1>. QED
  BY <1>1, <1>2, LoaderInvNext, PTL DEF LoaderSpec

-----------------------------------------------------------------------------
(* The run state.  RunTypeOK, with who holds the lock and who is PENDING, is   *)
(* inductive as it stands: a step of a coroutine keeps away from the lock,     *)
(* takes it, or gives it back.                                                 *)
RunPlaces == {"idle"} \cup Waiting \cup Holding \cup Outside

LockShape ==
    /\ at \in [Jobs -> RunPlaces] /\ runState \in {"STOP", "PENDING", "START"}
    /\ runLock \in Jobs \cup {NoJob}
    /\ \A j \in Jobs : at[j] \in Holding <=> runLock = j
    /\ runState = "PENDING" =>
         \E j \in Jobs : runLock = j /\ at[j] \in {"starting", "stopping"}

LEMMA KeepsAway ==
  ASSUME LockShape, NEW j \in Jobs, NEW next \in RunPlaces \ Holding,
         at[j] \notin Holding, Goto(j, next), UNCHANGED runLock,
         runState' \in {runState, "STOP", "START"}
  PROVE  LockShape'
<1>1. at' = [at EXCEPT ![j] = next] /\ \A k \in Jobs : at[k] \in Holding => at'[k] = at[k]
  BY DEF Goto, LockShape
<1>2. \A k \in Jobs : at'[k] \in Holding <=> runLock' = k
  BY <1>1 DEF LockShape
<1>. QED
  BY <1>1, <1>2 DEF LockShape, Holding

LEMMA TakesLock ==
  ASSUME LockShape, NEW j \in Jobs, NEW next \in Holding, runLock = NoJob,
         Goto(j, next), runLock' = j,
         runState' = IF next \in {"starting", "stopping"} THEN "PENDING" ELSE runState
  PROVE  LockShape'
<1>1. at' = [at EXCEPT ![j] = next] /\ runState # "PENDING"
  BY RunAssumption DEF Goto, LockShape
<1>. QED
  BY <1>1, RunAssumption DEF LockShape, RunPlaces

LEMMA GivesBack ==
  ASSUME LockShape, NEW j \in Jobs, NEW next \in RunPlaces \ Holding, at[j] \in Holding,
         Goto(j, next), runLock' = NoJob,
         \/ runState' \in {"STOP", "START"}
         \/ UNCHANGED runState /\ at[j] \notin {"starting", "stopping"}
  PROVE  LockShape'
<1>1. at' = [at EXCEPT ![j] = next] /\ runState' \in {"STOP", "START"}
  BY DEF Goto, LockShape
<1>2. \A k \in Jobs : at'[k] \notin Holding /\ runLock' # k
  BY <1>1, RunAssumption DEF LockShape
<1>. QED
  BY <1>1, <1>2 DEF LockShape

LEMMA LockShapeNext ==
  ASSUME LockShape, [RunNext]_runVars PROVE LockShape'
<1>. USE DEF run, RunPlaces, Waiting, Holding, Outside
<1>1. ASSUME NEW j \in Jobs, \/ \E what \in {"toggle", "startAction", "stopAction",
                                            "start", "stop", "sync"} : Command(j, what)
                              \/ ServiceCreated(j) \/ ServiceDestroyed(j)
                              \/ PermissionAnswered(j) \/ Choose(j) \/ CallbackCalls(j)
      PROVE  LockShape'
  <2>1. at[j] \notin Holding /\ UNCHANGED run
    BY <1>1 DEF Command, ServiceCreated, ServiceDestroyed, PermissionAnswered, Choose,
                CallbackCalls, Idling
  <2>2. PICK next \in RunPlaces \ Holding : Goto(j, next)
    <3>1. CASE Choose(j)
      <4>1. ActionOf[runState] \in {"startAction", "stopAction", "idle"}
        BY DEF ActionOf, LockShape
      <4>. QED
        BY <3>1, <4>1 DEF Choose
    <3>. QED
      BY <1>1, <3>1 DEF Command, ServiceCreated, ServiceDestroyed, PermissionAnswered,
                        CallbackCalls
  <2>. QED
    BY <2>1, <2>2, KeepsAway
<1>2. ASSUME NEW j \in Jobs, PrefStart(j) PROVE LockShape'
  <2>1. CASE Goto(j, "setup") /\ runLock' = j
    BY <1>2, <2>1, TakesLock DEF PrefStart
  <2>2. CASE Goto(j, "idle") /\ UNCHANGED runLock
    BY <1>2, <2>2, KeepsAway DEF PrefStart
  <2>. QED
    BY <1>2, <2>1, <2>2 DEF PrefStart
<1>3. ASSUME NEW j \in Jobs, SetupEnds(j) \/ SyncEnds(j) PROVE LockShape'
  <2>1. PICK next \in {"start", "idle"} : Goto(j, next)
    BY <1>3 DEF SetupEnds, SyncEnds
  <2>2. /\ at[j] \in {"setup", "syncing"} /\ runLock' = NoJob
        /\ runState' \in {"STOP", "START"} \/ UNCHANGED runState
    BY <1>3 DEF SetupEnds, SyncEnds
  <2>. QED
    BY <2>1, <2>2, GivesBack
<1>4. ASSUME NEW j \in Jobs, StartService(j) PROVE LockShape'
  <2>1. CASE Goto(j, "starting") /\ runLock' = j /\ runState' = "PENDING"
    BY <1>4, <2>1, TakesLock DEF StartService
  <2>2. CASE (Goto(j, "idle") \/ Goto(j, "callback")) /\ UNCHANGED run
    BY <1>4, <2>2, KeepsAway DEF StartService
  <2>. QED
    BY <1>4, <2>1, <2>2 DEF StartService
<1>5. ASSUME NEW j \in Jobs, StopService(j) PROVE LockShape'
  <2>1. CASE Goto(j, "stopping") /\ runLock' = j /\ runState' = "PENDING"
    BY <1>5, <2>1, TakesLock DEF StopService
  <2>2. CASE Goto(j, "idle") /\ UNCHANGED run
    BY <1>5, <2>2, KeepsAway DEF StopService
  <2>. QED
    BY <1>5, <2>1, <2>2 DEF StopService
<1>6. ASSUME NEW j \in Jobs, CallEnds(j) PROVE LockShape'
  <2>1. /\ Goto(j, "idle") /\ runState' \in {"STOP", "START"}
        /\ runLock' = IF runLock = j THEN NoJob ELSE runLock
    BY <1>6 DEF CallEnds
  <2>2. CASE at[j] \in Holding
    BY <2>1, <2>2, GivesBack DEF LockShape
  <2>3. CASE at[j] \notin Holding
    BY <2>1, <2>3, KeepsAway DEF LockShape
  <2>. QED
    BY <2>2, <2>3
<1>7. ASSUME NEW j \in Jobs, Sync(j) PROVE LockShape'
  BY <1>7, TakesLock DEF Sync
<1>8. ASSUME NEW j \in Jobs, RemoteStarts(j) \/ RemoteStops(j) PROVE LockShape'
  BY <1>8 DEF RemoteStarts, RemoteStops, LockShape
<1>9. CASE EngineChanges
  BY <1>9 DEF EngineChanges, LockShape
<1>10. CASE Disconnected
  BY <1>10 DEF Disconnected, LockShape
<1>11. CASE UNCHANGED runVars
  BY <1>11 DEF runVars, LockShape
<1>. QED
  BY <1>1, <1>2, <1>3, <1>4, <1>5, <1>6, <1>7, <1>8, <1>9, <1>10, <1>11 DEF RunNext, JobGoes

RunValues ==
    /\ {engine, listening, permission, alive, up, created, destroyed, runTime} \subseteq BOOLEAN
    /\ remote \in [Jobs -> {"none", "start", "stop", "lost"}]
    /\ commands \in 0..MaxCommands
    /\ excused \subseteq {"timeout", "failed", "late", "deaf"}

LEMMA RunValuesNext ==
  ASSUME RunValues, LockShape, [RunNext]_runVars PROVE RunValues'
<1>. USE RunAssumption DEF run, app, service
<1>0. \A w \in BOOLEAN, what \in {"timeout", "failed", "late", "deaf"} :
         Blame(w, what) => excused' \subseteq {"timeout", "failed", "late", "deaf"}
  BY DEF Blame, RunValues
<1>00. \A j, place, w :
         Answered(j, place, w) => excused' \subseteq {"timeout", "failed", "late", "deaf"}
  BY DEF Answered, RunValues
<1>1. ASSUME NEW j \in Jobs, NEW what \in {"toggle", "startAction", "stopAction",
                                            "start", "stop", "sync"}, Command(j, what)
      PROVE  RunValues'
  BY <1>1 DEF Command, RunValues
<1>2. ASSUME NEW j \in Jobs,
             ServiceCreated(j) \/ ServiceDestroyed(j) \/ PermissionAnswered(j)
      PROVE  RunValues'
  BY <1>2 DEF ServiceCreated, ServiceDestroyed, PermissionAnswered, RunValues
<1>3. ASSUME NEW j \in Jobs, Choose(j) \/ PrefStart(j) \/ SetupEnds(j) \/ Sync(j)
      PROVE  RunValues'
  BY <1>3 DEF Choose, PrefStart, SetupEnds, Sync, RunValues
<1>4. ASSUME NEW j \in Jobs, StartService(j) \/ StopService(j) \/ CallbackCalls(j)
      PROVE  RunValues'
  <2>1. excused' \subseteq {"timeout", "failed", "late", "deaf"}
    BY <1>0, <1>4 DEF StartService, StopService, CallbackCalls, CallbackUnderWay, RunValues
  <2>2. remote' \in [Jobs -> {"none", "start", "stop", "lost"}] /\ permission' \in BOOLEAN
    BY <1>4 DEF StartService, StopService, CallbackCalls, Remote, RunValues
  <2>3. UNCHANGED <<engine, listening, service, commands>>
    BY <1>4 DEF StartService, StopService, CallbackCalls
  <2>. QED
    BY <2>1, <2>2, <2>3 DEF RunValues
<1>5. ASSUME NEW j \in Jobs, CallEnds(j) \/ SyncEnds(j) PROVE RunValues'
  <2>1. excused' \subseteq {"timeout", "failed", "late", "deaf"}
    BY <1>0, <1>5 DEF CallEnds, SyncEnds, CallbackUnderWay, RunValues
  <2>2. remote' \in [Jobs -> {"none", "start", "stop", "lost"}]
    BY <1>5 DEF CallEnds, SyncEnds, RunValues
  <2>3. UNCHANGED <<app, service, commands>>
    BY <1>5 DEF CallEnds, SyncEnds
  <2>. QED
    BY <2>1, <2>2, <2>3 DEF RunValues
<1>6. ASSUME NEW j \in Jobs, RemoteStarts(j) \/ RemoteStops(j) PROVE RunValues'
  <2>1. excused' \subseteq {"timeout", "failed", "late", "deaf"}
    BY <1>00, <1>6 DEF RemoteStarts, RemoteStops
  <2>2. /\ remote' \in [Jobs -> {"none", "start", "stop", "lost"}]
        /\ {alive', up', created', destroyed', runTime'} \subseteq BOOLEAN
    <3>1. CASE RemoteStarts(j)
      BY <3>1 DEF RemoteStarts, Remote, RunValues
    <3>2. CASE RemoteStops(j)
      BY <3>2 DEF RemoteStops, Remote, RunValues
    <3>. QED
      BY <1>6, <3>1, <3>2
  <2>3. UNCHANGED <<app, commands>>
    BY <1>6 DEF RemoteStarts, RemoteStops
  <2>. QED
    BY <2>1, <2>2, <2>3 DEF RunValues
<1>7. CASE EngineChanges
  <2>1. /\ {engine', listening'} \subseteq BOOLEAN
        /\ UNCHANGED <<permission, remote, service, commands, excused>>
    BY <1>7 DEF EngineChanges, RunValues
  <2>. QED
    BY <2>1 DEF RunValues
<1>8. CASE Disconnected
  BY <1>8 DEF Disconnected, RunValues
<1>9. CASE UNCHANGED runVars
  BY <1>9 DEF runVars, RunValues
<1>. QED
  BY <1>1, <1>2, <1>3, <1>4, <1>5, <1>6, <1>7, <1>8, <1>9 DEF RunNext, JobGoes

LEMMA RunShapeInit == ASSUME RunInit PROVE RunValues /\ LockShape
<1>1. /\ {engine, listening, permission, alive, up, created, destroyed, runTime} \subseteq BOOLEAN
      /\ remote \in [Jobs -> {"none", "start", "stop", "lost"}]
  BY DEF RunInit
<1>2. commands \in 0..MaxCommands /\ excused = {}
  BY RunAssumption DEF RunInit
<1>3. LockShape
  BY RunAssumption DEF RunInit, LockShape, RunPlaces, Waiting, Holding, Outside
<1>. QED
  BY <1>1, <1>2, <1>3 DEF RunValues

(* The lock has exactly the holder that says so, PENDING has an operation that *)
(* will end it, for any number of coroutines (runLock, startService,           *)
(* stopService, handleSyncState, their finally blocks).                        *)
THEOREM RunTypeCorrect == RunSpec => []RunTypeOK
<1>1. RunValues /\ LockShape => RunTypeOK
  BY DEF RunValues, LockShape, RunTypeOK, RunPlaces
<1>2. RunValues /\ LockShape /\ [RunNext]_runVars => (RunValues /\ LockShape)'
  BY LockShapeNext, RunValuesNext
<1>. QED
  BY <1>1, <1>2, RunShapeInit, PTL DEF RunSpec

-----------------------------------------------------------------------------
(* RunAgrees is about rest only.  Truthful says how far the state and what the *)
(* service process says are apart while one call is under way, with the lock   *)
(* (starting, stopping) or without it (calling, which finds the state at STOP).*)
Active(j) == at[j] \in {"starting", "stopping", "calling"}

Carries(j) ==
    /\ remote[j] # "none" => \/ remote[j] = "start" /\ at[j] \in {"starting", "calling"}
                             \/ remote[j] = "stop" /\ at[j] = "stopping"
    /\ at[j] \in {"starting", "stopping"} => ~CallbackUnderWay
    /\ at[j] \in {"starting", "calling"} => (runTime <=> remote[j] = "none")
    /\ at[j] = "stopping" => (runTime <=> remote[j] # "none")

OneCallback ==
    /\ \A j, k \in Jobs : at[j] \in Outside /\ at[k] \in Outside => j = k
    /\ permission => \A j \in Jobs : at[j] \notin Outside
    /\ CallbackUnderWay => runState = "STOP"

Truthful ==
    /\ OneCallback
    /\ \A j \in Jobs : Carries(j)
    /\ (\A j \in Jobs : ~Active(j)) => (runState = "START" <=> runTime)

TruthInv ==
    /\ excused \subseteq {"failed"} => Truthful
    /\ "failed" \notin excused => (runTime <=> up)

LEMMA OneActive ==
  ASSUME LockShape, Truthful, NEW j \in Jobs, NEW k \in Jobs, Active(j), Active(k)
  PROVE  j = k
<1>1. CASE at[j] = "calling" \/ at[k] = "calling"
  BY <1>1 DEF Truthful, OneCallback, Carries, Active, CallbackUnderWay, Outside
<1>2. CASE at[j] \in {"starting", "stopping"} /\ at[k] \in {"starting", "stopping"}
  BY <1>2 DEF LockShape, Holding
<1>. QED
  BY <1>1, <1>2 DEF Active

(* What a free lock and the absence of a callback say of the others.           *)
LEMMA NoneActive ==
  ASSUME LockShape, Truthful, ~CallbackUnderWay,
         runLock = NoJob \/ \E h \in Jobs : runLock = h /\ at[h] \notin {"starting", "stopping"}
  PROVE  /\ \A j \in Jobs : ~Active(j) /\ remote[j] = "none"
         /\ runState = "START" <=> runTime
<1>1. \A j \in Jobs : ~Active(j)
  BY RunAssumption DEF LockShape, Holding, Active, CallbackUnderWay, Outside
<1>2. \A j \in Jobs : remote[j] = "none"
  BY <1>1 DEF Truthful, Carries, Active
<1>. QED
  BY <1>1, <1>2 DEF Truthful

(* A step that starts and ends no call, and touches no service.  The callback  *)
(* of prepare begins only while the lock is free.                              *)
LEMMA TruthfulMove ==
  ASSUME Truthful, LockShape, NEW j \in Jobs, NEW next \in RunPlaces,
         at' = [at EXCEPT ![j] = next], ~Active(j),
         next \notin {"starting", "stopping", "calling"},
         next \in Outside => /\ (\A k \in Jobs \ {j} : at[k] \notin Outside) /\ ~permission'
                             /\ runState = "STOP" /\ (permission \/ runLock = NoJob),
         permission' => permission \/ (~CallbackUnderWay /\ runState = "STOP" /\ runLock = NoJob),
         UNCHANGED <<runState, remote, runTime>>
  PROVE  Truthful'
<1>1. /\ at'[j] = next /\ \A k \in Jobs \ {j} : at'[k] = at[k]
      /\ \A k \in Jobs : Active(k)' <=> Active(k)
  BY DEF LockShape, Active
<1>2. CallbackUnderWay' => CallbackUnderWay \/ runLock = NoJob
  BY <1>1 DEF CallbackUnderWay
<1>3. ASSUME NEW k \in Jobs, at'[k] \in {"starting", "stopping"} PROVE ~CallbackUnderWay'
  <2>1. at[k] = at'[k]
    BY <1>1, <1>3
  <2>2. runLock = k /\ ~CallbackUnderWay
    BY <1>3, <2>1 DEF LockShape, Holding, Truthful, Carries
  <2>. QED
    BY <1>2, <2>2, RunAssumption
<1>4. \A k \in Jobs : Carries(k)'
  BY <1>1, <1>3 DEF Truthful, Carries, Active
<1>5. OneCallback'
  BY <1>1 DEF Truthful, OneCallback, CallbackUnderWay, Outside
<1>. QED
  BY <1>1, <1>4, <1>5 DEF Truthful

(* An answer that nothing crosses: the call is the only one, and its end will  *)
(* tell what the process said.                                                 *)
LEMMA TruthfulAlone ==
  ASSUME LockShape, NEW j \in Jobs, NEW place \in {"starting", "stopping"}, Alone(j, place),
         runTime' <=> place = "starting", UNCHANGED <<at, permission>>
  PROVE  Truthful'
<1>1. /\ at[j] = place /\ ~CallbackUnderWay /\ \A k \in Jobs : remote'[k] = "none"
      /\ ~CallbackUnderWay'
  BY DEF Alone, CallbackUnderWay
<1>2. \A k \in Jobs \ {j} : ~Active(k)
  BY <1>1 DEF LockShape, Holding, CallbackUnderWay, Outside, Active
<1>3. \A k \in Jobs : Carries(k)'
  BY <1>1, <1>2 DEF Carries, Active
<1>4. OneCallback' /\ Active(j)'
  BY <1>1 DEF OneCallback, CallbackUnderWay, Active
<1>. QED
  BY <1>3, <1>4 DEF Truthful

LEMMA TruthfulNext ==
  ASSUME LockShape, RunValues, TruthInv, [RunNext]_runVars, excused' \subseteq {"failed"}
  PROVE  Truthful'
<1>. USE DEF run, app, service
<1>a. ASSUME NEW w \in BOOLEAN, NEW what, what # "failed", Blame(w, what) PROVE ~w /\ Truthful
  BY <1>a DEF Blame, TruthInv
<1>b. excused \subseteq excused' => Truthful
  BY DEF TruthInv
<1>c. /\ at \in [Jobs -> RunPlaces] /\ remote \in [Jobs -> {"none", "start", "stop", "lost"}]
      /\ CallbackUnderWay \in BOOLEAN /\ runState \in {"STOP", "PENDING", "START"}
      /\ runTime \in BOOLEAN
  BY DEF LockShape, RunValues, CallbackUnderWay
<1>1. ASSUME NEW j \in Jobs, \/ \E what \in {"toggle", "startAction", "stopAction",
                                            "start", "stop", "sync"} : Command(j, what)
                              \/ ServiceCreated(j) \/ ServiceDestroyed(j)
                              \/ Choose(j) \/ PrefStart(j) \/ SetupEnds(j) \/ Sync(j)
      PROVE  Truthful'
  <2>1. PICK next \in RunPlaces :
          /\ next \notin {"starting", "stopping"} /\ next \notin Outside /\ Goto(j, next)
    <3>1. CASE Choose(j)
      <4>1. ActionOf[runState] \in {"startAction", "stopAction", "idle"}
        BY DEF ActionOf, LockShape
      <4>. QED
        BY <3>1, <4>1 DEF Choose, RunPlaces, Waiting, Outside
    <3>. QED
      BY <1>1, <3>1 DEF Command, ServiceCreated, ServiceDestroyed, PrefStart, SetupEnds, Sync,
                        RunPlaces, Waiting, Holding, Outside
  <2>2. ~Active(j) /\ UNCHANGED <<runState, permission, remote, runTime, excused>>
    BY <1>1 DEF Command, ServiceCreated, ServiceDestroyed, Choose, PrefStart, SetupEnds, Sync,
                Idling, Active
  <2>. QED
    BY <1>b, <2>1, <2>2, TruthfulMove DEF Goto, Outside
<1>2. ASSUME NEW j \in Jobs, PermissionAnswered(j) PROVE Truthful'
  <2>1. /\ Truthful /\ permission /\ ~permission' /\ at[j] = "idle"
        /\ UNCHANGED <<runState, remote, runTime>>
    BY <1>2, <1>b DEF PermissionAnswered, Idling
  <2>2. runState = "STOP" /\ \A k \in Jobs : at[k] \notin Outside
    BY <2>1 DEF Truthful, OneCallback, CallbackUnderWay
  <2>3. PICK next \in {"callback", "idle"} : at' = [at EXCEPT ![j] = next]
    BY <1>2 DEF PermissionAnswered, Goto
  <2>. QED
    BY <2>1, <2>2, <2>3, TruthfulMove DEF Active, RunPlaces, Outside
<1>3. ASSUME NEW j \in Jobs, StartService(j) PROVE Truthful'
  <2>1. CASE Goto(j, "idle") /\ UNCHANGED <<run, permission, remote, excused>>
    BY <1>3, <1>b, <2>1, TruthfulMove DEF StartService, Goto, Active, RunPlaces, Outside
  <2>2. CASE /\ Blame(CallbackUnderWay, "late") /\ runState = "STOP" /\ UNCHANGED <<run, remote>>
             /\ \/ Goto(j, "callback") /\ UNCHANGED permission
                \/ permission' = TRUE /\ Goto(j, "idle")
    <3>1. ~CallbackUnderWay /\ Truthful /\ runLock = NoJob
      BY <1>3, <1>a, <1>c, <2>2 DEF StartService
    <3>2. PICK next \in {"callback", "idle"} : /\ at' = [at EXCEPT ![j] = next]
                                               /\ next = "callback" => UNCHANGED permission
      BY <2>2 DEF Goto
    <3>3. ~permission /\ \A k \in Jobs : at[k] \notin Outside
      BY <3>1 DEF CallbackUnderWay
    <3>4. ~Active(j) /\ UNCHANGED runTime
      BY <1>3 DEF StartService, Active
    <3>. QED
      BY <2>2, <3>1, <3>2, <3>3, <3>4, TruthfulMove DEF RunPlaces, Outside
  <2>3. CASE /\ runState = "STOP" /\ runState' = "PENDING" /\ Blame(CallbackUnderWay, "late")
             /\ Goto(j, "starting") /\ Remote(j, "start") /\ UNCHANGED permission
    <3>1. ~CallbackUnderWay /\ Truthful /\ runLock = NoJob
      BY <1>3, <1>a, <1>c, <2>3 DEF StartService
    <3>2. (\A k \in Jobs : ~Active(k) /\ remote[k] = "none") /\ ~runTime
      BY <2>3, <3>1, NoneActive
    <3>3. /\ at' = [at EXCEPT ![j] = "starting"] /\ remote' = [remote EXCEPT ![j] = "start"]
          /\ UNCHANGED <<runTime, permission>> /\ runState' = "PENDING"
      BY <1>3, <2>3 DEF StartService, Goto, Remote
    <3>4. ~CallbackUnderWay'
      BY <1>c, <3>1, <3>3 DEF CallbackUnderWay, Outside
    <3>5. \A k \in Jobs : Carries(k)'
      BY <1>c, <3>2, <3>3, <3>4 DEF Carries, Active
    <3>6. OneCallback' /\ Active(j)'
      BY <1>c, <3>3, <3>4 DEF OneCallback, CallbackUnderWay, Active
    <3>. QED
      BY <3>5, <3>6 DEF Truthful
  <2>. QED
    BY <1>3, <2>1, <2>2, <2>3 DEF StartService
<1>4. ASSUME NEW j \in Jobs, CallbackCalls(j) PROVE Truthful'
  <2>1. /\ Truthful /\ CallbackUnderWay /\ at[j] = "callback"
        /\ at' = [at EXCEPT ![j] = "calling"] /\ remote' = [remote EXCEPT ![j] = "start"]
        /\ UNCHANGED <<runState, permission, runTime>>
    BY <1>4, <1>b DEF CallbackCalls, CallbackUnderWay, Outside, Goto, Remote
  <2>2. runState = "STOP" /\ \A k \in Jobs : ~Active(k)
    BY <2>1 DEF Truthful, OneCallback, Carries, Active, Outside
  <2>3. \A k \in Jobs : Carries(k)'
    <3>1. ~runTime /\ \A k \in Jobs : remote[k] = "none"
      BY <2>1, <2>2 DEF Truthful, Carries, Active
    <3>. QED
      BY <1>c, <2>1, <2>2, <3>1 DEF Carries, Active
  <2>4. OneCallback' /\ Active(j)'
    BY <1>c, <2>1 DEF Truthful, OneCallback, CallbackUnderWay, Outside, Active
  <2>. QED
    BY <2>3, <2>4 DEF Truthful
<1>5. ASSUME NEW j \in Jobs, StopService(j) PROVE Truthful'
  <2>1. CASE Goto(j, "idle") /\ UNCHANGED <<run, remote, excused>>
    BY <1>5, <1>b, <2>1, TruthfulMove DEF StopService, Goto, Active, RunPlaces, Outside
  <2>2. CASE /\ runState = "START" /\ runState' = "PENDING" /\ Blame(CallbackUnderWay, "late")
             /\ Goto(j, "stopping") /\ Remote(j, "stop")
    <3>1. ~CallbackUnderWay /\ Truthful /\ runLock = NoJob
      BY <1>5, <1>a, <1>c, <2>2 DEF StopService
    <3>2. (\A k \in Jobs : ~Active(k) /\ remote[k] = "none") /\ runTime
      BY <2>2, <3>1, NoneActive
    <3>3. /\ at' = [at EXCEPT ![j] = "stopping"] /\ remote' = [remote EXCEPT ![j] = "stop"]
          /\ UNCHANGED <<runTime, permission>> /\ runState' = "PENDING"
      BY <1>5, <2>2 DEF StopService, Goto, Remote
    <3>4. ~CallbackUnderWay'
      BY <1>c, <3>1, <3>3 DEF CallbackUnderWay, Outside
    <3>5. \A k \in Jobs : Carries(k)'
      BY <1>c, <3>2, <3>3, <3>4 DEF Carries, Active
    <3>6. OneCallback' /\ Active(j)'
      BY <1>c, <3>3, <3>4 DEF OneCallback, CallbackUnderWay, Active
    <3>. QED
      BY <3>5, <3>6 DEF Truthful
  <2>. QED
    BY <1>5, <2>1, <2>2 DEF StopService
<1>6. ASSUME NEW j \in Jobs, CallEnds(j) PROVE Truthful'
  <2>1. remote[j] = "none" /\ Truthful /\ Active(j)
    BY <1>6, <1>a DEF CallEnds, Active
  <2>2. /\ at' = [at EXCEPT ![j] = "idle"] /\ \A k \in Jobs : remote'[k] = remote[k]
        /\ UNCHANGED <<permission, runTime>>
        /\ runState' = IF at[j] = "stopping" THEN "STOP" ELSE "START"
    BY <1>6, <1>c, <2>1 DEF CallEnds, Goto
  <2>3. /\ \A k \in Jobs : ~Active(k)' /\ remote[k] = "none"
        /\ runTime <=> at[j] # "stopping"
    BY <1>c, <2>1, <2>2, OneActive DEF Active, Truthful, Carries
  <2>4. ~CallbackUnderWay'
    <3>1. CASE at[j] = "calling"
      BY <1>c, <2>1, <2>2, <3>1 DEF Truthful, OneCallback, CallbackUnderWay, Outside
    <3>2. CASE at[j] # "calling"
      <4>1. ~CallbackUnderWay
        BY <2>1, <3>2 DEF Truthful, Carries, Active
      <4>. QED
        BY <1>c, <2>2, <4>1 DEF CallbackUnderWay, Outside
    <3>. QED
      BY <3>1, <3>2
  <2>5. OneCallback' /\ \A k \in Jobs : Carries(k)'
    BY <2>2, <2>3, <2>4 DEF OneCallback, CallbackUnderWay, Carries, Active
  <2>. QED
    BY <2>2, <2>3, <2>5 DEF Truthful
<1>7. ASSUME NEW j \in Jobs, SyncEnds(j) PROVE Truthful'
  <2>1. /\ at' = [at EXCEPT ![j] = "idle"] /\ at[j] = "syncing"
        /\ UNCHANGED <<permission, remote, runTime>>
    BY <1>7 DEF SyncEnds, Goto
  <2>2. \A k \in Jobs : at[k] \notin {"starting", "stopping"}
    BY <2>1 DEF LockShape, Holding
  <2>3. CASE Alone(j, "syncing") /\ runState' = (IF runTime THEN "START" ELSE "STOP")
    <3>1. \A k \in Jobs : at'[k] \notin Outside /\ ~Active(k)' /\ remote'[k] = "none"
      BY <1>c, <2>1, <2>2, <2>3 DEF Alone, CallbackUnderWay, Outside, Active
    <3>2. ~CallbackUnderWay'
      BY <2>1, <2>3, <3>1 DEF Alone, CallbackUnderWay
    <3>. QED
      BY <2>1, <2>3, <3>1, <3>2 DEF Truthful, OneCallback, Carries, Active
  <2>4. CASE ~(Alone(j, "syncing") /\ runState' = (IF runTime THEN "START" ELSE "STOP"))
    <3>1. /\ Truthful /\ runState' \in {"START", "STOP"} /\ (runState' = "START" <=> runTime)
          /\ CallbackUnderWay => runState' = "STOP"
      <4>1. CASE /\ runState' = (IF runTime THEN "START" ELSE "STOP")
                 /\ Blame(CallbackUnderWay, "late")
        BY <1>a, <1>c, <4>1
      <4>2. CASE runState' = "STOP" /\ Blame(runTime, "timeout")
        BY <1>a, <1>c, <4>2
      <4>. QED
        BY <1>7, <2>4, <4>1, <4>2 DEF SyncEnds
    <3>2. \A k \in Jobs : Carries(k)'
      BY <1>c, <2>1, <2>2, <3>1 DEF Truthful, Carries
    <3>3. OneCallback'
      BY <1>c, <2>1, <3>1 DEF Truthful, OneCallback, CallbackUnderWay, Outside
    <3>. QED
      BY <3>1, <3>2, <3>3, <2>1 DEF Truthful
  <2>. QED
    BY <2>3, <2>4
<1>8. ASSUME NEW j \in Jobs, RemoteStarts(j) PROVE Truthful'
  <2>1. /\ runTime' /\ UNCHANGED <<at, runState, permission>> /\ remote[j] = "start"
        /\ remote' = [remote EXCEPT ![j] = "none"]
        /\ \E failed : Answered(j, "starting", failed)
    BY <1>8 DEF RemoteStarts, Remote
  <2>2. CASE Alone(j, "starting")
    BY <2>1, <2>2, TruthfulAlone
  <2>3. CASE ~Alone(j, "starting")
    <3>1. Truthful
      BY <1>b, <2>1, <2>3 DEF Answered
    <3>2. at[j] \in {"starting", "calling"}
      BY <2>1, <3>1 DEF Truthful, Carries
    <3>3. \A k \in Jobs \ {j} : ~Active(k)
      BY <3>1, <3>2, OneActive DEF Active
    <3>4. \A k \in Jobs : Carries(k)'
      BY <1>c, <2>1, <3>1, <3>2, <3>3 DEF Truthful, Carries, Active, CallbackUnderWay
    <3>. QED
      BY <2>1, <3>1, <3>2, <3>4 DEF Truthful, OneCallback, CallbackUnderWay, Active
  <2>. QED
    BY <2>2, <2>3
<1>9. ASSUME NEW j \in Jobs, RemoteStops(j) PROVE Truthful'
  <2>1. /\ ~runTime' /\ UNCHANGED <<at, runState, permission>> /\ remote[j] = "stop"
        /\ remote' = [remote EXCEPT ![j] = "none"]
        /\ \E failed : Answered(j, "stopping", failed)
    BY <1>9 DEF RemoteStops, Remote
  <2>2. CASE Alone(j, "stopping")
    BY <2>1, <2>2, TruthfulAlone
  <2>3. CASE ~Alone(j, "stopping")
    <3>1. Truthful
      BY <1>b, <2>1, <2>3 DEF Answered
    <3>2. at[j] = "stopping"
      BY <2>1, <3>1 DEF Truthful, Carries
    <3>3. \A k \in Jobs \ {j} : ~Active(k)
      BY <3>1, <3>2, OneActive DEF Active
    <3>4. \A k \in Jobs : Carries(k)'
      BY <1>c, <2>1, <3>1, <3>2, <3>3 DEF Truthful, Carries, Active, CallbackUnderWay
    <3>. QED
      BY <2>1, <3>1, <3>2, <3>4 DEF Truthful, OneCallback, CallbackUnderWay, Active
  <2>. QED
    BY <2>2, <2>3
<1>10. CASE EngineChanges
  BY <1>10, <1>b DEF EngineChanges, Truthful, OneCallback, CallbackUnderWay, Carries, Active
<1>11. CASE Disconnected
  <2>1. /\ ~CallbackUnderWay /\ (listening \/ runState # "START") /\ Truthful
        /\ \A k \in Jobs : at[k] \notin {"starting", "stopping"}
    BY <1>11 DEF Disconnected, Holding, TruthInv
  <2>2. \A k \in Jobs : ~Active(k)
    BY <2>1 DEF CallbackUnderWay, Outside, Active
  <2>3. \A k \in Jobs : remote[k] = "none"
    BY <2>1, <2>2 DEF Truthful, Carries, Active
  <2>4. /\ \A k \in Jobs : remote'[k] = "none"
        /\ ~runTime' /\ runState' # "START" /\ UNCHANGED <<at, permission>>
    BY <1>11, <2>1, <2>3 DEF Disconnected
  <2>5. OneCallback' /\ \A k \in Jobs : Carries(k)'
    BY <2>1, <2>2, <2>4 DEF OneCallback, CallbackUnderWay, Carries, Active
  <2>. QED
    BY <2>4, <2>5 DEF Truthful
<1>12. CASE UNCHANGED runVars
  BY <1>12, <1>b DEF runVars, Truthful, OneCallback, CallbackUnderWay, Carries, Active
<1>. QED
  BY <1>1, <1>2, <1>3, <1>4, <1>5, <1>6, <1>7, <1>8, <1>9, <1>10, <1>11, <1>12
     DEF RunNext, JobGoes

(* What the process says is true, unless its last start or stop did not work.  *)
LEMMA ProcessKnows ==
  ASSUME TruthInv, [RunNext]_runVars, "failed" \notin excused'
  PROVE  (runTime <=> up)'
<1>. USE DEF run, app, service, TruthInv
<1>a. \A w, what : Blame(w, what) => "failed" \notin excused
  BY DEF Blame
<1>1. ASSUME NEW j \in Jobs,
             \/ \E what \in {"toggle", "startAction", "stopAction",
                              "start", "stop", "sync"} : Command(j, what)
             \/ ServiceCreated(j) \/ ServiceDestroyed(j) \/ PermissionAnswered(j)
             \/ Choose(j) \/ PrefStart(j) \/ SetupEnds(j) \/ Sync(j) \/ CallbackCalls(j)
      PROVE  (runTime <=> up)'
  BY <1>1 DEF Command, ServiceCreated, ServiceDestroyed, PermissionAnswered,
              Choose, PrefStart, SetupEnds, Sync, CallbackCalls
<1>2. ASSUME NEW j \in Jobs, StartService(j) \/ StopService(j) \/ CallEnds(j)
      PROVE  (runTime <=> up)'
  BY <1>2, <1>a DEF StartService, StopService, CallEnds
<1>3. ASSUME NEW j \in Jobs, SyncEnds(j) PROVE (runTime <=> up)'
  BY <1>3, <1>a DEF SyncEnds
<1>4. ASSUME NEW j \in Jobs, RemoteStarts(j) PROVE (runTime <=> up)'
  BY <1>4 DEF RemoteStarts, Answered
<1>5. ASSUME NEW j \in Jobs, RemoteStops(j) PROVE (runTime <=> up)'
  BY <1>5 DEF RemoteStops, Answered
<1>6. CASE EngineChanges \/ Disconnected \/ UNCHANGED runVars
  BY <1>6 DEF EngineChanges, Disconnected, runVars
<1>. QED
  BY <1>1, <1>2, <1>3, <1>4, <1>5, <1>6 DEF RunNext, JobGoes

(* At rest the state is START exactly if the service process says it runs, and *)
(* if the VPN service does, for any number of coroutines and commands.  The    *)
(* exceptions are those of RunAgrees: a call that timed out, something done or *)
(* a death of the process while the callback of prepare was outside the lock,  *)
(* a death during a start, a stop or a sync, a death at START that nobody      *)
(* listened to, a service that did not start or stop; each until the next      *)
(* start, stop or sync that is answered with nothing beside it.                *)
THEOREM RunAgreesAlways == RunSpec => []RunAgrees
<1>1. RunInit => TruthInv
  BY DEF RunInit, TruthInv, Truthful, OneCallback, CallbackUnderWay, Carries, Outside
<1>2. TruthInv => RunAgrees
  BY DEF TruthInv, Truthful, RunAgrees, RunRest, Idling, Active
<1>3. LockShape /\ RunValues /\ TruthInv /\ [RunNext]_runVars => TruthInv'
  BY TruthfulNext, ProcessKnows DEF TruthInv
<1>4. /\ RunInit => RunValues /\ LockShape /\ TruthInv
      /\ RunValues /\ LockShape /\ TruthInv /\ [RunNext]_runVars =>
           (RunValues /\ LockShape /\ TruthInv)'
  BY <1>1, <1>3, RunShapeInit, LockShapeNext, RunValuesNext
<1>. QED
  BY <1>2, <1>4, PTL DEF RunSpec
=============================================================================
