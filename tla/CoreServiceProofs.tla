--------------------------- MODULE CoreServiceProofs ---------------------------
(***************************************************************************)
(* Proofs about CoreService for every set of calls and invokes, every      *)
(* number of processes, every set of faults, and restarts that overlap or  *)
(* not: no theorem assumes anything of the constants but CoreAssumption.   *)
(*                                                                         *)
(* NoOrphan rests on Owners: while one call at a time is between its look  *)
(* at _process and its assignment, there is no process to drop.  What      *)
(* StatusTruthful and NoInvokeLeft say of every behaviour rests on Wire: a *)
(* completed transport completer means a served core, or the frame of its  *)
(* end on the way.  What they say besides of the behaviours in which       *)
(* excused is still empty rests on Session: the connection to the last     *)
(* core is in one of eight phases, and at most one frame of news is on its *)
(* way to Dart.                                                            *)
(***************************************************************************)
EXTENDS CoreService, SequenceTheorems, TLAPS

USE CoreAssumption
USE DEF dart, calls, cores, server, invs, history

(* What the history remembers stays.                                       *)
LEMMA HistoryNext ==
  ASSUME TypeOK, [Next]_vars
  PROVE  TypeHistory' /\ excused \subseteq excused'
<1>. USE DEF TypeOK, TypeHistory, Excuse, Sees
<1>1. CASE boot \/ OnConnected \/ OnDisconnected \/ Accept \/ HangUp \/ UNCHANGED vars
  BY <1>1 DEF boot, OnConnected, OnDisconnected, Accept, HangUp, vars
<1>2. CASE onCrash
  BY <1>2 DEF onCrash
<1>3. ASSUME NEW c \in Restarts, restartCore(c) PROVE TypeHistory' /\ excused \subseteq excused'
  BY <1>3 DEF restartCore
<1>4. ASSUME NEW c \in Calls, CallStep(c) PROVE TypeHistory' /\ excused \subseteq excused'
  <2>1. CASE connectCore(c) \/ SpawnFails(c)
    BY <2>1 DEF connectCore, SpawnFails
  <2>2. CASE Connected(c)
    BY <2>2 DEF Connected
  <2>3. CASE ShutdownDone(c) \/ Spawn(c) \/ Spawned(c) \/ StartDone(c)
    BY <2>3 DEF ShutdownDone, Spawn, Spawned, StartDone
  <2>. QED
    BY <1>4, <2>1, <2>2, <2>3 DEF CallStep
<1>5. ASSUME NEW p \in Procs, dial(p) \/ Dies(p) PROVE TypeHistory' /\ excused \subseteq excused'
  BY <1>5 DEF dial, Dies
<1>6. ASSUME NEW i \in Invokes, InvokeStep(i) \/ handleResult(i)
      PROVE  TypeHistory' /\ excused \subseteq excused'
  BY <1>6 DEF InvokeStep, _invoke, GateTimeout, invoke, InvokeTimeout, CoreAnswers, handleResult
<1>. QED
  BY <1>1, <1>2, <1>3, <1>4, <1>5, <1>6 DEF Next, Dart

(* shutdown leaves well-typed values.                                      *)
LEMMA ShutdownType ==
  ASSUME TypeOK, shutdown
  PROVE  /\ shutter' \in Nat /\ shutter' > shutter /\ process' = 0
         /\ completer' \in Nat /\ completer' > completer
         /\ killed' \subseteq 1 .. made
         /\ inv' \in [Invokes -> {"idle", "gate", "open", "data", "null"}]
<1>. USE DEF TypeOK, TypeDart, TypeCores, TypeInvokes, shutdown
<1>1. killed' \subseteq 1 .. made
  <2>1. CASE process = 0
    BY <2>1
  <2>2. CASE process # 0
    <3>1. process \in 1 .. made
      BY <2>2
    <3>2. killed' = killed \cup {process}
      BY <2>2
    <3>. QED
      BY <3>1, <3>2
  <2>. QED
    BY <2>1, <2>2
<1>2. inv' \in [Invokes -> {"idle", "gate", "open", "data", "null"}]
  BY DEF _clearCompleter
<1>. QED
  BY <1>1, <1>2

(* So does a step that calls shutdown and changes the status.              *)
LEMMA ShutdownStep ==
  ASSUME TypeOK, shutdown, UNCHANGED <<completed, shut, made, core, gate, to>>,
         crash' \in Nat, status' \in {"connecting", "connected", "disconnected"}
  PROVE  TypeDart' /\ TypeCores' /\ TypeInvokes'
<1>1. /\ shutter' \in Nat /\ shutter' > shutter /\ process' = 0
      /\ completer' \in Nat /\ completer' > completer
      /\ killed' \subseteq 1 .. made
      /\ inv' \in [Invokes -> {"idle", "gate", "open", "data", "null"}]
  BY ShutdownType
<1>. USE DEF TypeOK, TypeDart, TypeCores, TypeInvokes
<1>2. completed' \subseteq 0 .. completer' /\ shut' \subseteq 0 .. shutter'
  BY <1>1
<1>3. process' \in 0 .. made' /\ made' \in 0 .. MaxProc
  BY <1>1
<1>4. TypeDart'
  BY <1>1, <1>2, <1>3
<1>5. TypeCores'
  BY <1>1, <1>3
<1>6. gate' \in [Invokes -> 0 .. completer']
  BY <1>1
<1>7. TypeInvokes'
  BY <1>1, <1>6
<1>. QED
  BY <1>4, <1>5, <1>7

(* Every step keeps the variables well typed.                              *)
LEMMA TypeNext == TypeOK /\ [Next]_vars => TypeOK'
<1>. SUFFICES ASSUME TypeOK, [Next]_vars PROVE TypeOK'
  OBVIOUS
<1>0. TypeHistory'
  BY HistoryNext
<1>. USE <1>0 DEF TypeOK, TypeDart, TypeCalls, TypeCores, TypeServer, TypeInvokes,
             Calls, Procs
<1>1. CASE boot
  BY <1>1 DEF boot, Go
<1>2. CASE OnConnected
  BY <1>2 DEF OnConnected
<1>3. CASE OnDisconnected
  BY <1>3 DEF OnDisconnected
<1>4. CASE onCrash
  <2>1. TypeCalls' /\ TypeServer'
    BY <1>4 DEF onCrash
  <2>2. TypeDart' /\ TypeCores' /\ TypeInvokes'
    <3>1. CASE status = "connected"
      <4>1. /\ shutdown /\ UNCHANGED <<completed, shut, made, core, gate, to>>
            /\ crash' \in Nat /\ status' = "disconnected"
        BY <1>4, <3>1 DEF onCrash
      <4>. QED
        BY <4>1, ShutdownStep
    <3>2. CASE status # "connected"
      <4>1. TypeDart'
        BY <1>4, <3>2 DEF onCrash
      <4>2. TypeCores'
        BY <1>4, <3>2 DEF onCrash
      <4>3. TypeInvokes'
        BY <1>4, <3>2 DEF onCrash
      <4>. QED
        BY <4>1, <4>2, <4>3
    <3>. QED
      BY <3>1, <3>2
  <2>. QED
    BY <2>1, <2>2
<1>5. CASE Accept
  <2>1. TypeDart' /\ TypeCalls' /\ TypeCores'
    BY <1>5 DEF Accept
  <2>2. TypeInvokes'
    BY <1>5 DEF Accept
  <2>3. TypeServer'
    BY <1>5 DEF Accept
  <2>. QED
    BY <2>1, <2>2, <2>3
<1>6. CASE HangUp
  <2>1. TypeDart' /\ TypeCalls' /\ TypeCores'
    BY <1>6 DEF HangUp
  <2>2. TypeInvokes'
    BY <1>6 DEF HangUp
  <2>3. TypeServer'
    BY <1>6 DEF HangUp
  <2>. QED
    BY <2>1, <2>2, <2>3
<1>7. ASSUME NEW c \in Restarts, restartCore(c) PROVE TypeOK'
  <2>1. TypeDart' /\ TypeCores' /\ TypeServer' /\ TypeInvokes'
    <3>1. /\ shutdown /\ UNCHANGED <<completed, shut, made, core, gate, to>>
          /\ crash' \in Nat /\ status' = "disconnected"
      BY <1>7 DEF restartCore
    <3>2. TypeServer'
      BY <1>7 DEF restartCore
    <3>. QED
      BY <3>1, <3>2, ShutdownStep
  <2>2. TypeCalls'
    <3>1. CASE status = "disconnected"
      BY <1>7, <3>1 DEF restartCore, Go
    <3>2. CASE status # "disconnected"
      <4>1. shutter' \in Nat /\ UNCHANGED <<made, child>>
        BY <1>7, ShutdownType DEF restartCore
      <4>2. await' = [await EXCEPT ![c] = shutter'] /\ Go(c, "shut")
        BY <1>7, <3>2 DEF restartCore
      <4>. QED
        BY <4>1, <4>2 DEF Go
    <3>. QED
      BY <3>1, <3>2
  <2>. QED
    BY <2>1, <2>2
<1>8. ASSUME NEW c \in Calls, ShutdownDone(c) PROVE TypeOK'
  BY <1>8 DEF ShutdownDone, Go
<1>9. ASSUME NEW c \in Calls, connectCore(c) PROVE TypeOK'
  <2>1. TypeCalls' /\ TypeServer'
    BY <1>9 DEF connectCore, Go
  <2>2. TypeDart' /\ TypeCores' /\ TypeInvokes'
    <3>1. CASE process # 0
      <4>1. /\ shutdown /\ UNCHANGED <<completed, shut, made, core, gate, to>>
            /\ crash' \in Nat /\ status' = "connecting"
        BY <1>9, <3>1 DEF connectCore
      <4>. QED
        BY <4>1, ShutdownStep
    <3>2. CASE process = 0
      <4>1. TypeDart'
        BY <1>9, <3>2 DEF connectCore
      <4>2. TypeCores'
        BY <1>9, <3>2 DEF connectCore
      <4>3. TypeInvokes'
        BY <1>9, <3>2 DEF connectCore
      <4>. QED
        BY <4>1, <4>2, <4>3
    <3>. QED
      BY <3>1, <3>2
  <2>. QED
    BY <2>1, <2>2
<1>10. ASSUME NEW c \in Calls, Spawn(c) PROVE TypeOK'
  BY <1>10 DEF Spawn, Go
<1>11. ASSUME NEW c \in Calls, SpawnFails(c) PROVE TypeOK'
  BY <1>11 DEF SpawnFails, Go
<1>12. ASSUME NEW c \in Calls, Spawned(c) PROVE TypeOK'
  BY <1>12 DEF Spawned, Go
<1>13. ASSUME NEW c \in Calls, StartDone(c) PROVE TypeOK'
  BY <1>13 DEF StartDone, Go
<1>14. ASSUME NEW c \in Calls, Connected(c) PROVE TypeOK'
  BY <1>14 DEF Connected, Go
<1>15. ASSUME NEW p \in Procs, dial(p) PROVE TypeOK'
  BY <1>15 DEF dial
<1>16. ASSUME NEW p \in Procs, Dies(p) PROVE TypeOK'
  BY <1>16 DEF Dies, Live
<1>17. ASSUME NEW i \in Invokes, _invoke(i) PROVE TypeOK'
  BY <1>17 DEF _invoke
<1>18. ASSUME NEW i \in Invokes, GateTimeout(i) PROVE TypeOK'
  BY <1>18 DEF GateTimeout
<1>19. ASSUME NEW i \in Invokes, invoke(i) PROVE TypeOK'
  BY <1>19 DEF invoke
<1>20. ASSUME NEW i \in Invokes, InvokeTimeout(i) PROVE TypeOK'
  BY <1>20 DEF InvokeTimeout
<1>21. ASSUME NEW i \in Invokes, CoreAnswers(i) PROVE TypeOK'
  BY <1>21 DEF CoreAnswers
<1>22. ASSUME NEW i \in Invokes, handleResult(i) PROVE TypeOK'
  BY <1>22 DEF handleResult
<1>23. CASE UNCHANGED vars
  BY <1>23 DEF vars
<1>. HIDE DEF TypeOK, Calls, Procs
<1>24. ASSUME NEW c \in Calls, CallStep(c) PROVE TypeOK'
  BY <1>24, <1>8, <1>9, <1>10, <1>11, <1>12, <1>13, <1>14
  DEF CallStep
<1>25. ASSUME NEW i \in Invokes, InvokeStep(i) PROVE TypeOK'
  BY <1>25, <1>17, <1>18, <1>19, <1>20, <1>21 DEF InvokeStep
<1>. QED
  BY <1>24, <1>25, <1>1, <1>2, <1>3, <1>4, <1>5, <1>6, <1>7, <1>15, <1>16,
     <1>22, <1>23
  DEF Next, Dart

(* Every reachable state of the core service is well typed.                *)
THEOREM TypeCorrect == Spec => []TypeOK
<1>1. Init => TypeOK
  <2>. SUFFICES ASSUME Init PROVE TypeOK
    OBVIOUS
  <2>. USE DEF Init, Calls, Procs
  <2>1. TypeDart
    BY DEF TypeDart
  <2>2. TypeCalls
    BY DEF TypeCalls
  <2>3. TypeCores
    BY DEF TypeCores
  <2>4. TypeServer
    BY DEF TypeServer
  <2>5. TypeInvokes
    BY DEF TypeInvokes
  <2>6. TypeHistory
    BY DEF TypeHistory
  <2>. QED
    BY <2>1, <2>2, <2>3, <2>4, <2>5, <2>6 DEF TypeOK
<1>. QED
  BY <1>1, TypeNext, PTL DEF Spec

-----------------------------------------------------------------------------
(* Whoever starts a core is alone with it, until two calls do.             *)
ChildStep == \A c \in Calls : child[c] # 0 => pc[c] = "spawned"
OneStart  == \A c, d \in Calls : Starts(c) /\ Starts(d) => c = d
Free      == \A c \in Calls : Starts(c) => process = 0
Kept    == \A p \in 1 .. made :
               Live(p) /\ p \notin killed => p = process \/ \E c \in Calls : child[c] = p
Owners    == ChildStep /\ ("double" \notin excused => OneStart /\ Free /\ Kept)

(* The shutdown of a process leaves no other without an owner.             *)
LEMMA ShutdownOwners ==
  ASSUME TypeOK, OneStart, Free, Kept, UNCHANGED <<made, core, child>>,
         \/ UNCHANGED <<process, killed>>
         \/ process' = 0 /\ killed' = IF process = 0 THEN killed ELSE killed \cup {process},
         \A c \in Calls : Starts(c)' => process' = 0
  PROVE  Free' /\ Kept'
BY DEF Free, Kept, Live

(* Every step keeps the owners.                                            *)
LEMMA OwnersNext ==
  ASSUME TypeOK, Owners, [Next]_vars
  PROVE  Owners'
<1>0. /\ made \in 0 .. MaxProc
      /\ pc \in [Calls -> {"idle", "shut", "connect", "spawn", "spawned",
                                           "await", "delay", "done"}]
      /\ child \in [Calls -> 0 .. made] /\ process \in 0 .. made
      /\ core \in [Procs -> {"none", "started", "dialed", "dead"}]
      /\ excused \subseteq excused'
  BY HistoryNext DEF TypeOK, TypeCores, TypeCalls, TypeDart
<1>. USE <1>0 DEF Starts, Owners
<1>1. CASE OnConnected \/ OnDisconnected \/ Accept \/ HangUp \/ UNCHANGED vars
  <2>1. UNCHANGED <<pc, child, process, made, core, killed, excused>>
    BY <1>1 DEF OnConnected, OnDisconnected, Accept, HangUp, vars
  <2>. QED
    BY <2>1 DEF ChildStep, OneStart, Free, Kept, Live
<1>2. ASSUME NEW i \in Invokes, InvokeStep(i) \/ handleResult(i) PROVE Owners'
  <2>1. UNCHANGED <<pc, child, process, made, core, killed, excused>>
    BY <1>2 DEF InvokeStep, _invoke, GateTimeout, invoke, InvokeTimeout, CoreAnswers, handleResult
  <2>. QED
    BY <2>1 DEF ChildStep, OneStart, Free, Kept, Live
<1>3. CASE boot
  <2>1. /\ UNCHANGED <<child, process, made, core, killed, excused>>
        /\ pc' = [pc EXCEPT ![Boot] = "connect"] /\ pc[Boot] = "idle"
    BY <1>3 DEF boot, Go
  <2>. QED
    BY <2>1 DEF ChildStep, OneStart, Free, Kept, Live
<1>4. CASE onCrash
  <2>1. /\ UNCHANGED <<pc, child, made, core, excused>>
        /\ \/ UNCHANGED <<process, killed>>
           \/ process' = 0 /\ killed' = IF process = 0 THEN killed ELSE killed \cup {process}
    BY <1>4 DEF onCrash, shutdown
  <2>2. ChildStep' /\ (OneStart => OneStart')
    BY <2>1 DEF ChildStep, OneStart
  <2>3. Free => \A c \in Calls : Starts(c)' => process' = 0
    BY <2>1 DEF Free
  <2>. QED
    BY <2>1, <2>2, <2>3, ShutdownOwners
<1>5. ASSUME NEW c \in Restarts, restartCore(c) PROVE Owners'
  <2>1. /\ UNCHANGED <<child, made, core>> /\ pc[c] = "idle" /\ c \in Calls
        /\ process' = 0 /\ killed' = IF process = 0 THEN killed ELSE killed \cup {process}
        /\ pc' \in {[pc EXCEPT ![c] = "connect"], [pc EXCEPT ![c] = "shut"]}
    BY <1>5 DEF restartCore, shutdown, Go, Calls
  <2>2. ChildStep' /\ (OneStart => OneStart')
    BY <2>1 DEF ChildStep, OneStart
  <2>. QED
    BY <2>1, <2>2, ShutdownOwners
<1>6. ASSUME NEW c \in Calls, connectCore(c) PROVE Owners'
  <2>1. /\ UNCHANGED <<child, made, core>> /\ pc[c] = "connect"
        /\ \/ UNCHANGED <<process, killed>> /\ process = 0
           \/ process' = 0 /\ killed' = IF process = 0 THEN killed ELSE killed \cup {process}
        /\ pc' = [pc EXCEPT ![c] = "spawn"]
    BY <1>6 DEF connectCore, shutdown, Go
  <2>2. ChildStep'
    BY <2>1 DEF ChildStep
  <2>3. "double" \notin excused' => \A d \in Calls : ~Starts(d)
    BY <1>6 DEF connectCore, Excuse
  <2>4. "double" \notin excused' => OneStart'
    BY <2>1, <2>3 DEF OneStart
  <2>. QED
    BY <2>1, <2>2, <2>4, ShutdownOwners
<1>7. ASSUME NEW c \in Calls, Spawn(c) PROVE Owners'
  <2>1. /\ UNCHANGED <<process, killed, excused>> /\ pc[c] = "spawn"
        /\ made' = made + 1 /\ core' = [core EXCEPT ![made + 1] = "started"]
        /\ child' = [child EXCEPT ![c] = made + 1] /\ pc' = [pc EXCEPT ![c] = "spawned"]
    BY <1>7 DEF Spawn, Go
  <2>2. ChildStep' /\ (OneStart => OneStart') /\ (Free => Free')
    BY <2>1 DEF ChildStep, OneStart, Free
  <2>3. child[c] = 0
    BY <2>1 DEF ChildStep
  <2>4. Kept => Kept'
    BY <2>1, <2>3 DEF Kept, Live
  <2>. QED
    BY <2>1, <2>2, <2>4
<1>8. ASSUME NEW c \in Calls, Spawned(c) PROVE Owners'
  <2>1. /\ UNCHANGED <<made, core, killed, excused>> /\ pc[c] = "spawned"
        /\ process' = child[c] /\ child' = [child EXCEPT ![c] = 0]
        /\ pc' = [pc EXCEPT ![c] = "await"]
    BY <1>8 DEF Spawned, Go
  <2>2. ChildStep' /\ (OneStart => OneStart')
    BY <2>1 DEF ChildStep, OneStart
  <2>3. OneStart => Free'
    BY <2>1 DEF OneStart, Free
  <2>4. Free /\ Kept => Kept'
    <3>. SUFFICES ASSUME Free, Kept, NEW p \in 1 .. made, Live(p), p \notin killed
                  PROVE  p = process' \/ \E d \in Calls : child'[d] = p
      BY <2>1 DEF Kept, Live
    <3>1. PICK d \in Calls : child[d] = p
      BY <2>1 DEF Kept, Free
    <3>2. CASE d = c
      BY <2>1, <3>1, <3>2
    <3>3. CASE d # c
      BY <2>1, <3>1, <3>3
    <3>. QED
      BY <3>2, <3>3
  <2>. QED
    BY <2>1, <2>2, <2>3, <2>4
<1>9. ASSUME NEW c \in Calls, ShutdownDone(c) \/ SpawnFails(c) \/ StartDone(c) \/ Connected(c)
      PROVE  Owners'
  <2>1. /\ UNCHANGED <<child, process, made, core, killed>>
        /\ pc[c] # "spawned" /\ pc' \in {[pc EXCEPT ![c] = s] : s \in {"connect", "delay", "done"}}
    BY <1>9 DEF ShutdownDone, SpawnFails, StartDone, Connected, Go
  <2>. QED
    BY <2>1 DEF ChildStep, OneStart, Free, Kept, Live
<1>10. ASSUME NEW p \in Procs, dial(p) \/ Dies(p) PROVE Owners'
  <2>1. /\ UNCHANGED <<pc, child, process, made, killed>> /\ Live(p)
        /\ core' \in {[core EXCEPT ![p] = s] : s \in {"dialed", "dead"}}
    BY <1>10 DEF dial, Dies, Live
  <2>2. ChildStep' /\ (OneStart => OneStart') /\ (Free => Free')
    BY <2>1 DEF ChildStep, OneStart, Free
  <2>3. \A q \in 1 .. made : Live(q)' => Live(q)
    <3>. SUFFICES ASSUME NEW q \in 1 .. made, Live(q)' PROVE Live(q)
      OBVIOUS
    <3>1. CASE q = p
      BY <2>1, <3>1
    <3>2. CASE q # p
      BY <1>0, <2>1, <3>2 DEF Live, Procs
    <3>. QED
      BY <3>1, <3>2
  <2>4. Kept => Kept'
    BY <2>1, <2>3, Zenon DEF Kept
  <2>. QED
    BY <2>2, <2>4
<1>. QED
  BY <1>1, <1>2, <1>3, <1>4, <1>5, <1>6, <1>7, <1>8, <1>9, <1>10 DEF Next, Dart, CallStep

(* However restarts overlap and whatever fails, a live core that was not   *)
(* sent a signal is the one the service holds or one that a call is        *)
(* starting, until two calls are between connectCore's look at _process    *)
(* and the assignment in CoreService.start at the same time.               *)
THEOREM NoOrphanAlways == Spec => []NoOrphan
<1>1. Init => Owners
  BY DEF Init, Owners, ChildStep, OneStart, Free, Kept, Starts
<1>2. TypeOK /\ Owners /\ [Next]_vars => Owners'
  BY OwnersNext
<1>3. Owners => NoOrphan
  BY DEF Owners, Kept, NoOrphan
<1>. QED
  BY <1>1, <1>2, <1>3, TypeCorrect, PTL DEF Spec

-----------------------------------------------------------------------------
(* Calls take turns, and the one that starts a core has no other, as long  *)
(* as no restart overlaps a call.                                          *)
Active(c) == pc[c] \notin {"idle", "done"}
BootFirst == pc[Boot] = "idle" => \A c \in Restarts : pc[c] = "idle"
Alone     == \A c, d \in Calls : Active(c) /\ Active(d) => c = d
Empty     == \A c \in Calls : pc[c] \in {"spawn", "spawned"} => process = 0
Turns     == BootFirst /\ Alone /\ ChildStep /\ Empty

(* No call has begun.                                                      *)
LEMMA TurnsInit == Init => Turns
BY DEF Init, Turns, BootFirst, Alone, ChildStep, Empty, Active, Calls

(* Every step keeps the turns, when a restart comes after the call before. *)
LEMMA TurnsNext ==
  ASSUME excused' = {}, TypeOK, Turns, [Next]_vars
  PROVE  Turns'
<1>. USE DEF TypeOK, TypeDart, TypeCalls, TypeCores, TypeServer, TypeInvokes,
             Calls, Procs, Active, BootFirst, Alone, ChildStep, Empty, Turns
<1>1. CASE boot
  BY <1>1 DEF boot, Go
<1>2. CASE OnConnected
  BY <1>2 DEF OnConnected
<1>3. CASE OnDisconnected
  BY <1>3 DEF OnDisconnected
<1>4. CASE onCrash
  <2>1. UNCHANGED <<pc, child, made, core>>
    BY <1>4 DEF onCrash
  <2>2. process' \in {process, 0}
    BY <1>4 DEF onCrash, shutdown
  <2>3. BootFirst' /\ Alone' /\ ChildStep'
    BY <2>1
  <2>4. Empty'
    BY <2>1, <2>2
  <2>. QED
    BY <2>3, <2>4
<1>5. CASE Accept
  BY <1>5 DEF Accept
<1>6. CASE HangUp
  BY <1>6 DEF HangUp
<1>7. ASSUME NEW c \in Restarts, restartCore(c) PROVE Turns'
  <2>1. Quiet
    BY <1>7 DEF restartCore, Excuse
  <2>2. \A e \in Calls : e # c => ~Active(e)'
    <3>1. pc' \in {[pc EXCEPT ![c] = "connect"], [pc EXCEPT ![c] = "shut"]}
      BY <1>7 DEF restartCore, Go
    <3>. QED
      BY <2>1, <3>1 DEF Quiet
  <2>3. Alone'
    BY <2>2
  <2>4. BootFirst' /\ ChildStep' /\ Empty'
    BY <1>7, <2>1 DEF restartCore, shutdown, Quiet, Go
  <2>. QED
    BY <2>3, <2>4
<1>8. ASSUME NEW c \in Calls, ShutdownDone(c) PROVE Turns'
  BY <1>8 DEF ShutdownDone, Go
<1>9. ASSUME NEW c \in Calls, connectCore(c) PROVE Turns'
  BY <1>9 DEF connectCore, shutdown, _clearCompleter, Go
<1>10. ASSUME NEW c \in Calls, Spawn(c) PROVE Turns'
  <2>1. BootFirst'
    BY <1>10 DEF Spawn, Go
  <2>2. Alone'
    BY <1>10 DEF Spawn, Go
  <2>3. ChildStep'
    BY <1>10 DEF Spawn, Go
  <2>4. Empty'
    BY <1>10 DEF Spawn, Go
  <2>. QED
    BY <2>1, <2>2, <2>3, <2>4
<1>11. ASSUME NEW c \in Calls, SpawnFails(c) PROVE Turns'
  BY <1>11 DEF SpawnFails, Go
<1>12. ASSUME NEW c \in Calls, Spawned(c) PROVE Turns'
  BY <1>12 DEF Spawned, Go
<1>13. ASSUME NEW c \in Calls, StartDone(c) PROVE Turns'
  BY <1>13 DEF StartDone, Go
<1>14. ASSUME NEW c \in Calls, Connected(c) PROVE Turns'
  BY <1>14 DEF Connected, Go
<1>15. ASSUME NEW p \in Procs, dial(p) PROVE Turns'
  BY <1>15 DEF dial
<1>16. ASSUME NEW p \in Procs, Dies(p) PROVE Turns'
  BY <1>16 DEF Dies, Live
<1>17. ASSUME NEW i \in Invokes, _invoke(i) PROVE Turns'
  BY <1>17 DEF _invoke
<1>18. ASSUME NEW i \in Invokes, GateTimeout(i) PROVE Turns'
  BY <1>18 DEF GateTimeout
<1>19. ASSUME NEW i \in Invokes, invoke(i) PROVE Turns'
  BY <1>19 DEF invoke
<1>20. ASSUME NEW i \in Invokes, InvokeTimeout(i) PROVE Turns'
  BY <1>20 DEF InvokeTimeout
<1>21. ASSUME NEW i \in Invokes, CoreAnswers(i) PROVE Turns'
  BY <1>21 DEF CoreAnswers
<1>22. ASSUME NEW i \in Invokes, handleResult(i) PROVE Turns'
  BY <1>22 DEF handleResult
<1>23. CASE UNCHANGED vars
  BY <1>23 DEF vars
<1>. HIDE DEF TypeOK, Calls, Procs, Active, BootFirst, Alone, ChildStep,
             Empty, Turns
<1>24. ASSUME NEW c \in Calls, CallStep(c) PROVE Turns'
  BY <1>24, <1>8, <1>9, <1>10, <1>11, <1>12, <1>13, <1>14
  DEF CallStep
<1>25. ASSUME NEW i \in Invokes, InvokeStep(i) PROVE Turns'
  BY <1>25, <1>17, <1>18, <1>19, <1>20, <1>21 DEF InvokeStep
<1>. QED
  BY <1>24, <1>25, <1>1, <1>2, <1>3, <1>4, <1>5, <1>6, <1>7, <1>15, <1>16,
     <1>22, <1>23
  DEF Next, Dart

Answered(i) == inv[i] \in {"data", "null"}

(* No step changes an invoke that is answered.                             *)
LEMMA AnswerKept ==
  ASSUME TypeOK, [Next]_vars, NEW i \in Invokes, Answered(i)
  PROVE  inv'[i] = inv[i]
<1>. USE DEF Answered, dart, calls, cores, server, invs
<1>0. inv \in [Invokes -> {"idle", "gate", "open", "data", "null"}]
  BY DEF TypeOK, TypeInvokes
<1>1. _clearCompleter => inv'[i] = inv[i]
  BY DEF _clearCompleter
<1>2. CASE boot \/ OnConnected \/ OnDisconnected \/ Accept \/ HangUp \/ UNCHANGED vars
  BY <1>2 DEF boot, OnConnected, OnDisconnected, Accept, HangUp, vars
<1>3. CASE onCrash
  BY <1>1, <1>3 DEF onCrash, shutdown
<1>4. ASSUME NEW c \in Restarts, restartCore(c) PROVE inv'[i] = inv[i]
  BY <1>1, <1>4 DEF restartCore, shutdown
<1>5. ASSUME NEW c \in Calls, connectCore(c) PROVE inv'[i] = inv[i]
  BY <1>1, <1>5 DEF connectCore, shutdown
<1>6. ASSUME NEW c \in Calls, \/ ShutdownDone(c) \/ Spawn(c) \/ SpawnFails(c) \/ Spawned(c)
                              \/ StartDone(c) \/ Connected(c)
      PROVE  inv'[i] = inv[i]
  BY <1>6 DEF ShutdownDone, Spawn, SpawnFails, Spawned, StartDone, Connected
<1>7. ASSUME NEW p \in Procs, dial(p) \/ Dies(p) PROVE inv'[i] = inv[i]
  BY <1>7 DEF dial, Dies
<1>8. ASSUME NEW k \in Invokes, _invoke(k) \/ GateTimeout(k) \/ invoke(k) \/ InvokeTimeout(k)
      PROVE  inv'[i] = inv[i]
  <2>1. k # i
    BY <1>8 DEF _invoke, GateTimeout, invoke, InvokeTimeout
  <2>. QED
    BY <1>0, <1>8, <2>1 DEF _invoke, GateTimeout, invoke, InvokeTimeout
<1>9. ASSUME NEW k \in Invokes, handleResult(k) \/ CoreAnswers(k) PROVE inv'[i] = inv[i]
  BY <1>0, <1>9 DEF handleResult, CoreAnswers
<1>. QED
  BY <1>2, <1>3, <1>4, <1>5, <1>6, <1>7, <1>8, <1>9 DEF Next, Dart, CallStep, InvokeStep

(* An invoke that has completed, with data or with null, stays so: what    *)
(* comes after a timeout or a shutdown is dropped (handleResult,           *)
(* _clearCompleter).                                                       *)
THEOREM AnswerOnceAlways == Spec => AnswerOnce
<1>1. TypeOK /\ [Next]_vars =>
        [\A i \in Invokes : inv[i] \in {"data", "null"} => inv'[i] = inv[i]]_vars
  BY AnswerKept DEF Answered
<1>. QED
  BY <1>1, TypeCorrect, PTL DEF Spec, AnswerOnce

-----------------------------------------------------------------------------
(* The frames under way, of which at most one is news of a connection.     *)
News == {"connected", "disconnected"}
In(x, f) == \E n \in 1 .. Len(f) : f[n] = x
Calm(f)  == \A n \in 1 .. Len(f) : f[n] \notin News
One(f)   == \A m, n \in 1 .. Len(f) : f[m] \in News /\ f[n] \in News => m = n

(* How far the connection to the last core is, from nothing over a core    *)
(* that starts, dials, is accepted and is known to Dart, to one that is    *)
(* lost (it died) or that was told to stop, and back to nothing.           *)
Known      == completer \in completed
Gone       == made = 0 \/ (made \in Procs /\ core[made] = "dead")
Owned      == made \in Procs /\ made \notin killed
Within(s)  == \E c \in Calls : pc[c] \in s

Down ==
    /\ serving = 0 /\ backlog = <<>> /\ Calm(frames) /\ ~Known /\ Gone
    /\ \A c \in Calls : \/ pc[c] \in {"idle", "done", "connect", "spawn"}
                        \/ pc[c] = "shut" /\ await[c] \in shut
    /\ status = "connected" => crash > 0 /\ Quiet
    /\ status = "connecting" /\ Quiet => pc[Boot] = "idle"
Begun == Owned /\ ~Known /\ status = "connecting" /\ Within({"spawned", "await"})
Starting ==
    /\ Begun /\ core[made] \in {"started", "dead"}
    /\ serving = 0 /\ backlog = <<>> /\ Calm(frames)
Queued ==
    /\ Begun /\ core[made] = "dialed"
    /\ serving = 0 /\ backlog = <<made>> /\ Calm(frames)
Greeted ==
    /\ Begun /\ core[made] = "dialed"
    /\ serving = made /\ backlog = <<>> /\ ~In("disconnected", frames)
Settled == status = "connected" /\ Quiet /\ process = made
Up ==
    /\ Owned /\ Known /\ crash = 0 /\ core[made] \in {"dialed", "dead"}
    /\ serving = made /\ backlog = <<>> /\ Calm(frames)
    /\ \/ status = "connecting" /\ Within({"spawned", "await", "delay"}) /\ core[made] = "dialed"
       \/ Settled
Lost ==
    /\ Owned /\ Known /\ crash = 0 /\ core[made] = "dead" /\ Settled
    /\ serving = 0 /\ backlog = <<>> /\ ~In("connected", frames) /\ In("disconnected", frames)
Ordered ==
    /\ made \in killed /\ ~Known /\ crash = 0 /\ status = "disconnected"
    /\ Within({"shut"}) /\ shutter \notin shut
Stopping ==
    /\ Ordered /\ core[made] \in {"dialed", "dead"}
    /\ serving = made /\ backlog = <<>> /\ Calm(frames)
Stopped ==
    /\ Ordered /\ core[made] = "dead"
    /\ serving = 0 /\ backlog = <<>> /\ ~In("connected", frames)
Phase == \/ Down \/ Starting \/ Queued \/ Greeted \/ Up \/ Lost \/ Stopping \/ Stopped

(* What a call has to do with it.                                          *)
Waits == \A c \in Calls :
    /\ pc[c] = "shut" => await[c] = shutter
    /\ pc[c] = "await" => await[c] = completer
    /\ pc[c] = "delay" => Known
    /\ pc[c] = "spawn" => status = "connecting"
Holds == \A c \in Calls :
    /\ pc[c] \in {"shut", "connect"} => process = 0
    /\ pc[c] = "spawned" => child[c] = made
    /\ pc[c] \in {"await", "delay"} => process = made
Asleep  == pc[Boot] = "idle" => status = "connecting" /\ process = 0
Earlier == \A p \in Procs : /\ p < made => core[p] = "dead"
                            /\ p > made => core[p] = "none"
(* Only a known connection opens invokes, and its end completes them.      *)
Gates == \A i \in Invokes : inv[i] = "gate" /\ gate[i] \in completed => Known
Opens == \A i \in Invokes : inv[i] = "open" => Known \/ (crash > 0 /\ status = "connected")

Session == One(frames) /\ Phase /\ Waits /\ Holds /\ Asleep /\ Earlier /\ Gates /\ Opens

(* What a frame more does to the news under way.                           *)
LEMMA InAppend ==
  ASSUME NEW S, NEW f \in Seq(S), NEW e \in S
  PROVE  /\ \A x : In(x, Append(f, e)) <=> In(x, f) \/ x = e
         /\ e \notin News => /\ Calm(f) => Calm(Append(f, e))
                             /\ One(f) => One(Append(f, e))
         /\ Calm(f) => One(Append(f, e))
<1>. DEFINE g == Append(f, e)
<1>1. /\ Len(f) \in Nat /\ Len(g) = Len(f) + 1 /\ g[Len(f) + 1] = e
      /\ \A n \in 1 .. Len(f) : g[n] = f[n]
  BY AppendProperties
<1>. HIDE DEF g
<1>2. \A n \in 1 .. Len(g) : n \in 1 .. Len(f) \/ n = Len(f) + 1
  BY <1>1
<1>3. \A x : In(x, g) <=> In(x, f) \/ x = e
  BY <1>1, <1>2 DEF In
<1>4. e \notin News /\ Calm(f) => Calm(g)
  BY <1>1, <1>2 DEF Calm
<1>5. e \notin News /\ One(f) => One(g)
  BY <1>1, <1>2 DEF One
<1>6. Calm(f) => One(g)
  BY <1>1, <1>2 DEF One, Calm
<1>. QED
  BY <1>3, <1>4, <1>5, <1>6 DEF g

(* And a frame less.                                                       *)
LEMMA InTail ==
  ASSUME NEW S, NEW f \in Seq(S), f # <<>>
  PROVE  /\ \A x : In(x, f) <=> In(x, Tail(f)) \/ x = Head(f)
         /\ Calm(f) => Calm(Tail(f)) /\ Head(f) \notin News
         /\ One(f) => One(Tail(f))
         /\ One(f) /\ Head(f) \in News => Calm(Tail(f))
<1>. DEFINE g == Tail(f)
<1>1. /\ Len(f) \in Nat \ {0} /\ Len(g) = Len(f) - 1 /\ Head(f) = f[1]
      /\ \A n \in 1 .. Len(g) : g[n] = f[n + 1]
  BY HeadTailProperties, EmptySeq
<1>. HIDE DEF g
<1>2. \A n \in 1 .. Len(f) : n = 1 \/ (n - 1 \in 1 .. Len(g) /\ f[n] = g[n - 1])
  BY <1>1
<1>3. \A x : In(x, f) <=> In(x, g) \/ x = Head(f)
  BY <1>1, <1>2 DEF In
<1>4. Calm(f) => Calm(g) /\ Head(f) \notin News
  BY <1>1 DEF Calm
<1>5. One(f) => One(g)
  <2>. SUFFICES ASSUME One(f), NEW m \in 1 .. Len(g), NEW n \in 1 .. Len(g),
                       g[m] \in News, g[n] \in News
                PROVE  m = n
    BY DEF One
  <2>1. m + 1 = n + 1
    BY <1>1 DEF One
  <2>. QED
    BY <2>1
<1>6. One(f) /\ Head(f) \in News => Calm(g)
  <2>. SUFFICES ASSUME One(f), Head(f) \in News, NEW n \in 1 .. Len(g), g[n] \in News
                PROVE  FALSE
    BY DEF Calm
  <2>1. n + 1 = 1
    BY <1>1 DEF One
  <2>. QED
    BY <2>1
<1>. QED
  BY <1>3, <1>4, <1>5, <1>6 DEF g

(* No news is neither a connection nor the end of one.                     *)
LEMMA CalmIn == \A f : Calm(f) <=> ~In("connected", f) /\ ~In("disconnected", f)
BY DEF Calm, In, News

(* In which phase a call may be.                                           *)
LEMMA PhaseOfCall ==
  ASSUME Turns, Session, NEW c \in Calls, Active(c)
  PROVE  /\ ~Quiet
         /\ pc[c] \in {"connect", "spawn"} => Down
         /\ pc[c] = "shut" /\ await[c] \in shut => Down
         /\ pc[c] = "spawned" => Starting \/ Queued \/ Greeted \/ Up
         /\ pc[c] = "await" => Starting \/ Queued \/ Greeted \/ Up
         /\ pc[c] = "delay" => Up
<1>1. ~Quiet /\ ~Settled
  BY DEF Active, Quiet, Settled
<1>2. \A d \in Calls : Active(d) => d = c
  BY DEF Turns, Alone
<1>3. Begun => pc[c] \in {"spawned", "await"}
  BY <1>2 DEF Begun, Within, Active
<1>4. Ordered => pc[c] = "shut" /\ shutter \notin shut
  BY <1>2 DEF Ordered, Within, Active
<1>5. Up => pc[c] \in {"spawned", "await", "delay"}
  BY <1>1, <1>2 DEF Up, Within, Active
<1>6. Down => pc[c] \in {"connect", "spawn", "shut"}
  BY DEF Down, Active
<1>7. pc[c] = "shut" => await[c] = shutter
  BY DEF Session, Waits
<1>. QED
  BY <1>1, <1>3, <1>4, <1>5, <1>6, <1>7
  DEF Session, Phase, Starting, Queued, Greeted, Lost, Stopping, Stopped

(* In which phase an event finds the system.                               *)
LEMMA PhaseOfEvent ==
  ASSUME Session, TypeOK
  PROVE  /\ Known => Up \/ Lost
         /\ Quiet => Down \/ Up \/ Lost
         /\ crash > 0 => Down \/ Starting \/ Queued \/ Greeted
         /\ In("connected", frames) => Greeted
         /\ In("disconnected", frames) => Lost \/ Stopped
         /\ backlog # <<>> => Queued
         /\ serving # 0 => Greeted \/ Up \/ Stopping
<1>1. Quiet => ~Begun /\ ~Ordered
  BY DEF Quiet, Begun, Ordered, Within
<1>. QED
  BY <1>1, CalmIn
  DEF Session, Phase, Down, Starting, Queued, Greeted, Up, Lost, Stopping, Stopped, Begun, Ordered,
      TypeOK, TypeDart

(* Shutdown takes a new transport completer, which is not completed, and a *)
(* new shutdown completer.                                                 *)
LEMMA ShutdownFresh ==
  ASSUME TypeOK, shutdown, UNCHANGED <<completed, shut>>
  PROVE  /\ ~Known' /\ process' = 0 /\ shutter' \notin shut'
         /\ process # 0 => killed' = killed \cup {process}
         /\ \A i \in Invokes : inv'[i] # "open" /\ (inv'[i] = "gate" => inv[i] = "gate")
BY DEF TypeOK, TypeDart, TypeInvokes, shutdown, _clearCompleter, Known

(* A frame that is no news changes no phase.                               *)
LEMMA QuietFrames ==
  ASSUME Session, One(frames'), Calm(frames) => Calm(frames'),
         \A x \in News : In(x, frames') <=> In(x, frames),
         UNCHANGED <<dart, calls, cores, backlog, serving>>
  PROVE  One(frames') /\ Phase' /\ Waits' /\ Holds' /\ Asleep' /\ Earlier'
<1>1. In("connected", frames') <=> In("connected", frames)
  BY DEF News
<1>2. In("disconnected", frames') <=> In("disconnected", frames)
  BY DEF News
<1>. USE DEF Known, Gone, Owned, Within, Begun, Settled, Ordered, Quiet
<1>3. Phase'
  <2>1. Down => Down'
    BY DEF Down
  <2>2. Starting => Starting'
    BY DEF Starting
  <2>3. Queued => Queued'
    BY DEF Queued
  <2>4. Greeted => Greeted'
    BY <1>2 DEF Greeted
  <2>5. Up => Up'
    BY DEF Up
  <2>6. Lost => Lost'
    BY <1>1, <1>2 DEF Lost
  <2>7. Stopping => Stopping'
    BY DEF Stopping
  <2>8. Stopped => Stopped'
    BY <1>1 DEF Stopped
  <2>. QED
    BY <2>1, <2>2, <2>3, <2>4, <2>5, <2>6, <2>7, <2>8 DEF Session, Phase
<1>4. Waits' /\ Holds' /\ Asleep' /\ Earlier'
  BY DEF Session, Waits, Holds, Asleep, Earlier
<1>. QED
  BY <1>3, <1>4

(* An invoke, its timeouts, its answer and the handling of that change no  *)
(* phase: only a known connection opens one.                               *)
LEMMA InvokeSession ==
  ASSUME TypeOK, Session, NEW i \in Invokes, InvokeStep(i) \/ handleResult(i)
  PROVE  Session'
<1>1. frames \in Seq(News \cup Invokes) /\ i \notin News
  BY DEF TypeOK, TypeServer, News
<1>2. UNCHANGED <<dart, calls, cores, backlog, serving>>
  BY DEF InvokeStep, _invoke, GateTimeout, invoke, InvokeTimeout, CoreAnswers, handleResult
<1>3. /\ One(frames') /\ (Calm(frames) => Calm(frames'))
      /\ \A x \in News : In(x, frames') <=> In(x, frames)
  <2>1. CASE UNCHANGED frames
    BY <2>1 DEF Session
  <2>2. CASE CoreAnswers(i)
    <3>1. frames' = Append(frames, i)
      BY <2>2 DEF CoreAnswers
    <3>. QED
      BY <1>1, <3>1, InAppend DEF Session
  <2>3. CASE handleResult(i)
    <3>1. frames # <<>> /\ frames' = Tail(frames) /\ Head(frames) = i
      BY <2>3 DEF handleResult
    <3>. QED
      BY <1>1, <3>1, InTail DEF Session
  <2>4. CASE _invoke(i) \/ GateTimeout(i) \/ invoke(i) \/ InvokeTimeout(i)
    <3>1. UNCHANGED frames
      BY <2>4 DEF _invoke, GateTimeout, invoke, InvokeTimeout
    <3>. QED
      BY <2>1, <3>1
  <2>. QED
    BY <2>2, <2>3, <2>4 DEF InvokeStep
<1>4. One(frames') /\ Phase' /\ Waits' /\ Holds' /\ Asleep' /\ Earlier'
  BY <1>2, <1>3, QuietFrames
<1>5. Known' <=> Known
  BY <1>2 DEF Known
<1>6. \A k \in Invokes :
        /\ inv'[k] = "gate" => \/ inv[k] = "gate" /\ gate'[k] = gate[k]
                               \/ gate'[k] = completer
        /\ inv'[k] = "open" => inv[k] = "open" \/ (inv[k] = "gate" /\ gate[k] \in completed)
  BY DEF TypeOK, TypeInvokes, InvokeStep, _invoke, GateTimeout, invoke, InvokeTimeout,
         CoreAnswers, handleResult
<1>7. Gates'
  BY <1>2, <1>5, <1>6 DEF Session, Gates, Known
<1>8. Opens'
  BY <1>2, <1>5, <1>6 DEF Session, Opens, Gates
<1>. QED
  BY <1>4, <1>7, <1>8 DEF Session

(* The core: only the last one is alive, and it dies when it was told to,  *)
(* when it cannot dial, or while the status says connected.                *)
LEMMA CoreSession ==
  ASSUME excused' = {}, TypeOK, Session, NEW p \in Procs, dial(p) \/ Dies(p)
  PROVE  Session'
<1>1. UNCHANGED <<dart, calls, made, killed, serving, frames, invs>>
  BY DEF dial, Dies
<1>2. p = made /\ core \in [Procs -> {"none", "started", "dialed", "dead"}] /\ made \in Nat
  BY DEF dial, Dies, Live, TypeOK, TypeCores, Session, Earlier, Procs
<1>3. One(frames') /\ Waits' /\ Holds' /\ Asleep' /\ Gates' /\ Opens'
  BY <1>1 DEF Session, One, Waits, Holds, Asleep, Gates, Opens, Known
<1>4. Earlier'
  BY <1>1, <1>2 DEF dial, Dies, Session, Earlier, Procs
<1>. USE DEF Known, Gone, Owned, Within, Begun, Settled, Ordered, Quiet
<1>5. CASE dial(p)
  <2>1. Starting
    BY <1>2, <1>5
    DEF dial, Session, Phase, Down, Starting, Queued, Greeted, Up, Lost, Stopping, Stopped
  <2>2. backlog' = <<made>> /\ core'[made] = "dialed"
    BY <1>2, <1>5, <2>1 DEF dial, Starting
  <2>3. Queued'
    BY <1>1, <2>1, <2>2 DEF Starting, Queued
  <2>. QED
    BY <1>3, <1>4, <2>3 DEF Session, Phase
<1>6. CASE Dies(p)
  <2>1. core'[made] = "dead" /\ UNCHANGED backlog /\ core[made] \in {"started", "dialed"}
    BY <1>2, <1>6 DEF Dies, Live
  <2>2. \/ made \in killed
        \/ core[made] = "started"
        \/ status = "connected"
    BY <1>2, <1>6 DEF Dies, Live, Excuse
  <2>3. \/ Starting \/ (Up /\ Settled) \/ Stopping
    <3>1. made # 0
      BY <1>2 DEF Procs
    <3>. QED
      BY <2>1, <2>2, <3>1
      DEF Session, Phase, Down, Starting, Queued, Greeted, Up, Lost, Stopping, Stopped
  <2>4. CASE Starting
    <3>1. Starting'
      BY <1>1, <2>1, <2>4 DEF Starting
    <3>. QED
      BY <1>3, <1>4, <3>1 DEF Session, Phase
  <2>5. CASE Up /\ Settled
    <3>1. Up'
      BY <1>1, <2>1, <2>5 DEF Up
    <3>. QED
      BY <1>3, <1>4, <3>1 DEF Session, Phase
  <2>6. CASE Stopping
    <3>1. Stopping'
      BY <1>1, <2>1, <2>6 DEF Stopping
    <3>. QED
      BY <1>3, <1>4, <3>1 DEF Session, Phase
  <2>. QED
    BY <2>3, <2>4, <2>5, <2>6
<1>. QED
  BY <1>5, <1>6

(* The IPC server: it accepts the core that dialed, and hangs up on the    *)
(* one that died connected or was told to stop.                            *)
LEMMA ServerSession ==
  ASSUME TypeOK, Session, Accept \/ HangUp
  PROVE  Session'
<1>1. UNCHANGED <<dart, calls, cores, invs>>
  BY DEF Accept, HangUp
<1>2. Waits' /\ Holds' /\ Asleep' /\ Earlier' /\ Gates' /\ Opens'
  BY <1>1 DEF Session, Waits, Holds, Asleep, Earlier, Gates, Opens, Known
<1>3. frames \in Seq(News \cup Invokes)
  BY DEF TypeOK, TypeServer, News
<1>. USE DEF Known, Gone, Owned, Within, Begun, Settled, Ordered, Quiet
<1>4. CASE Accept
  <2>1. Queued
    BY <1>4, PhaseOfEvent DEF Accept
  <2>2. serving' = made /\ backlog' = <<>>
    BY <1>4, <2>1 DEF Accept, Queued
  <2>3. frames' = Append(frames, "connected")
    BY <1>4 DEF Accept
  <2>4. Calm(frames) /\ ~In("disconnected", frames)
    BY <2>1, CalmIn DEF Queued
  <2>5. One(frames') /\ ~In("disconnected", frames')
    BY <1>3, <2>3, <2>4, InAppend DEF News
  <2>6. Greeted'
    BY <1>1, <2>1, <2>2, <2>5 DEF Queued, Greeted
  <2>. QED
    BY <1>2, <2>5, <2>6 DEF Session, Phase
<1>5. CASE HangUp
  <2>1. (Up /\ Settled) \/ Stopping
    BY <1>5 DEF HangUp, Session, Phase, Down, Starting, Queued, Greeted, Up, Lost, Stopping, Stopped
  <2>2. serving' = 0 /\ backlog' = <<>> /\ core[made] = "dead"
    BY <1>5, <2>1 DEF HangUp, Up, Stopping
  <2>3. frames' = Append(frames, "disconnected")
    BY <1>5 DEF HangUp
  <2>4. Calm(frames) /\ ~In("connected", frames)
    BY <2>1, CalmIn DEF Up, Stopping
  <2>5. One(frames') /\ ~In("connected", frames') /\ In("disconnected", frames')
    BY <1>3, <2>3, <2>4, InAppend DEF News
  <2>6. Lost' \/ Stopped'
    BY <1>1, <2>1, <2>2, <2>5 DEF Up, Stopping, Lost, Stopped
  <2>. QED
    BY <1>2, <2>5, <2>6 DEF Session, Phase
<1>. QED
  BY <1>4, <1>5

(* The frames that tell Dart of a connection, and of its end.              *)
LEMMA NewsSession ==
  ASSUME TypeOK, Turns, Session, OnConnected \/ OnDisconnected
  PROVE  Session'
<1>1. /\ UNCHANGED <<status, process, shutter, calls, cores, backlog, serving, invs>>
      /\ frames # <<>> /\ frames' = Tail(frames) /\ Head(frames) \in News
  BY DEF OnConnected, OnDisconnected, News
<1>2. frames \in Seq(News \cup Invokes)
  BY DEF TypeOK, TypeServer, News
<1>3. /\ Calm(frames') /\ In(Head(frames), frames) /\ One(frames')
      /\ ~In("connected", frames') /\ ~In("disconnected", frames')
  BY <1>1, <1>2, InTail, CalmIn DEF Session, One, Calm
<1>4. /\ crash = 0
      /\ \A c \in Calls : ~(pc[c] = "shut" /\ await[c] \in shut)
      /\ \A i \in Invokes : ~(inv[i] = "gate" /\ gate[i] \in completed)
  BY DEF OnConnected, OnDisconnected, Pending, TypeOK, TypeDart
<1>5. Holds' /\ Asleep' /\ Earlier'
  BY <1>1 DEF Session, Holds, Asleep, Earlier
<1>. USE DEF Known, Gone, Owned, Within, Begun, Settled, Ordered, Quiet
<1>6. CASE OnConnected
  <2>1. Greeted
    BY <1>3, <1>6, PhaseOfEvent DEF OnConnected
  <2>2. UNCHANGED <<completer, shut, crash>> /\ Known'
    BY <1>6 DEF OnConnected
  <2>3. Up'
    BY <1>1, <1>3, <1>4, <2>1, <2>2 DEF Greeted, Up
  <2>4. Waits' /\ Gates' /\ Opens'
    BY <1>1, <2>2 DEF Session, Waits, Gates, Opens
  <2>. QED
    BY <1>3, <1>5, <2>3, <2>4 DEF Session, Phase
<1>7. CASE OnDisconnected
  <2>1. Lost \/ Stopped
    BY <1>3, <1>7, PhaseOfEvent DEF OnDisconnected
  <2>2. UNCHANGED completed /\ completer' = completer + 1 /\ shut' = shut \cup {shutter}
        /\ crash' = crash + 1
    BY <1>7 DEF OnDisconnected
  <2>3. ~Known' /\ crash' > 0
    BY <2>2, <1>4 DEF TypeOK, TypeDart
  <2>4. Gates'
    BY <1>1, <1>4, <2>2 DEF Gates
  <2>5. CASE Lost
    <3>1. Quiet /\ status = "connected"
      BY <2>5 DEF Lost
    <3>2. Down'
      BY <1>1, <1>3, <2>3, <2>5, <3>1 DEF Lost, Down
    <3>3. Waits'
      BY <1>1, <3>1 DEF Waits
    <3>4. Opens'
      BY <1>1, <2>3, <3>1 DEF Opens
    <3>. QED
      BY <1>3, <1>5, <2>4, <3>2, <3>3, <3>4 DEF Session, Phase
  <2>6. CASE Stopped
    <3>1. \A c \in Calls : pc[c] \in {"idle", "done"} \/ (pc[c] = "shut" /\ await[c] \in shut')
      BY <2>2, <2>6 DEF Stopped, Turns, Alone, Active, Session, Waits
    <3>2. ~Quiet' /\ status' = "disconnected"
      BY <1>1, <2>6 DEF Stopped
    <3>3. made \in Procs
      BY <2>6 DEF Stopped, TypeOK, TypeCores, Procs
    <3>4. Down'
      BY <1>1, <1>3, <2>3, <2>6, <3>1, <3>2, <3>3 DEF Stopped, Down
    <3>5. Waits'
      BY <1>1, <3>1 DEF Session, Waits
    <3>6. Opens'
      BY <1>1, <1>4, <2>6 DEF Session, Opens, Stopped
    <3>. QED
      BY <1>3, <1>5, <2>4, <3>4, <3>5, <3>6 DEF Session, Phase
  <2>. QED
    BY <2>1, <2>5, <2>6
<1>. QED
  BY <1>6, <1>7

(* A crash event acts only when the connection is already over.            *)
LEMMA CrashSession ==
  ASSUME TypeOK, Session, onCrash
  PROVE  Session'
<1>1. /\ UNCHANGED <<completed, shut, calls, made, core, server, gate, to>>
      /\ crash > 0 /\ crash' = crash - 1
  BY DEF onCrash
<1>2. Down \/ Starting \/ Queued \/ Greeted
  BY <1>1, PhaseOfEvent
<1>3. ~Known
  BY <1>2 DEF Down, Starting, Queued, Greeted, Begun
<1>4. One(frames') /\ Earlier'
  BY <1>1 DEF Session, One, Earlier
<1>5. CASE status = "connected"
  <2>1. shutdown /\ status' = "disconnected"
    BY <1>5 DEF onCrash
  <2>2. /\ ~Known' /\ process' = 0
        /\ \A i \in Invokes : inv'[i] # "open" /\ (inv'[i] = "gate" => inv[i] = "gate")
    BY <1>1, <2>1, ShutdownFresh
  <2>3. Down /\ Quiet
    BY <1>2, <1>5 DEF Down, Starting, Queued, Greeted, Begun
  <2>4. Down'
    BY <1>1, <2>1, <2>2, <2>3 DEF Down, Gone, Quiet
  <2>5. Waits' /\ Holds'
    BY <1>1, <2>3 DEF Waits, Holds, Quiet
  <2>6. Asleep'
    BY <1>1, <1>5 DEF Session, Asleep
  <2>7. Gates' /\ Opens'
    BY <1>1, <1>3, <2>2 DEF Session, Gates, Opens
  <2>. QED
    BY <1>4, <2>4, <2>5, <2>6, <2>7 DEF Session, Phase
<1>6. CASE status # "connected"
  <2>1. UNCHANGED <<status, shutter, completer, killed, process, inv>>
    BY <1>6 DEF onCrash
  <2>2. Waits' /\ Holds' /\ Asleep' /\ Gates'
    BY <1>1, <2>1 DEF Session, Waits, Holds, Asleep, Gates, Known
  <2>3. Opens'
    BY <1>1, <1>3, <1>6, <2>1 DEF Session, Opens
  <2>4. /\ Down => Down'
        /\ Starting => Starting'
        /\ Queued => Queued'
        /\ Greeted => Greeted'
    BY <1>1, <1>6, <2>1
    DEF Down, Starting, Queued, Greeted, Begun, Known, Gone, Owned, Within, Quiet
  <2>. QED
    BY <1>2, <1>4, <2>2, <2>3, <2>4 DEF Session, Phase
<1>. QED
  BY <1>5, <1>6

(* The first call finds nothing; a restart that finds a connection stops   *)
(* its core and waits, one that finds none connects at once.               *)
LEMMA CallSession ==
  ASSUME excused' = {}, TypeOK, Turns, Session,
         boot \/ \E c \in Restarts : restartCore(c)
  PROVE  Session'
<1>. USE DEF Known, Gone, Owned, Within, Begun, Settled, Ordered
<1>1. PICK c \in Calls :
        \/ boot /\ c = Boot
        \/ c \in Restarts /\ restartCore(c)
  BY DEF Calls
<1>2. Quiet /\ crash = 0
  <2>1. CASE boot
    BY <2>1 DEF boot, Quiet, Turns, BootFirst, Calls, Pending, TypeOK, TypeDart
  <2>2. CASE restartCore(c)
    BY <2>2 DEF restartCore, Excuse, Pending, TypeOK, TypeDart
  <2>. QED
    BY <1>1, <2>1, <2>2
<1>3. Down \/ Up \/ Lost
  BY <1>2, PhaseOfEvent
<1>4. /\ UNCHANGED <<completed, shut, crash, child, made, core, server, gate, to>>
      /\ pc' \in [Calls -> {"idle", "done", "shut", "connect"}]
      /\ \A d \in Calls : d # c => pc'[d] = pc[d] /\ await'[d] = await[d]
      /\ pc'[c] \in {"shut", "connect"}
  BY <1>1, <1>2 DEF boot, restartCore, Go, Quiet, TypeOK, TypeCalls, Calls
<1>5. One(frames') /\ Earlier'
  BY <1>4 DEF Session, One, Earlier
<1>6. ~Quiet' /\ (\A d \in Calls : d # c => pc'[d] \in {"idle", "done"})
  BY <1>2, <1>4 DEF Quiet
<1>7. CASE boot /\ c = Boot
  <2>1. UNCHANGED <<dart, await, killed, inv>> /\ pc'[Boot] = "connect" /\ pc[Boot] = "idle"
    BY <1>7 DEF boot, Go, TypeOK, TypeCalls, Calls
  <2>2. status = "connecting" /\ process = 0
    BY <2>1 DEF Session, Asleep
  <2>3. Down
    BY <1>2, <1>3, <2>2 DEF Up, Lost, Quiet
  <2>4. Down'
    BY <1>4, <1>6, <1>7, <2>1, <2>2, <2>3 DEF Down
  <2>5. Waits' /\ Holds' /\ Asleep' /\ Gates' /\ Opens'
    <3>2. Waits' /\ Holds'
      BY <1>6, <1>7, <2>1, <2>2 DEF Waits, Holds
    <3>3. Asleep'
      BY <2>1 DEF Asleep
    <3>4. Gates' /\ Opens'
      BY <1>4, <2>1 DEF Session, Gates, Opens
    <3>. QED
      BY <3>2, <3>3, <3>4
  <2>. QED
    BY <1>5, <2>4, <2>5 DEF Session, Phase
<1>8. CASE c \in Restarts /\ restartCore(c)
  <2>1. /\ shutdown /\ status' = "disconnected" /\ pc[Boot] # "idle"
        /\ IF status = "disconnected" THEN pc'[c] = "connect"
                                      ELSE pc'[c] = "shut" /\ await'[c] = shutter'
        /\ \A i \in Invokes : ~(inv[i] = "gate" /\ gate[i] \in completed)
    BY <1>8 DEF restartCore, Go, Pending, TypeOK, TypeCalls, Calls
  <2>2. /\ ~Known' /\ process' = 0 /\ shutter' \notin shut'
        /\ process # 0 => killed' = killed \cup {process}
        /\ \A i \in Invokes : inv'[i] # "open" /\ (inv'[i] = "gate" => inv[i] = "gate")
    BY <1>4, <2>1, ShutdownFresh
  <2>3. Waits' /\ Holds'
    BY <1>4, <1>6, <2>1, <2>2 DEF Waits, Holds
  <2>4. Asleep'
    BY <1>4, <2>1, <1>6 DEF Asleep, Calls
  <2>5. Gates' /\ Opens'
    BY <1>4, <2>1, <2>2 DEF Gates, Opens
  <2>6. CASE Down
    <3>1. status = "disconnected"
      BY <1>2, <2>1, <2>6 DEF Down, TypeOK, TypeDart
    <3>2. Down'
      BY <1>4, <1>6, <2>1, <2>2, <2>6, <3>1 DEF Down
    <3>. QED
      BY <1>5, <2>3, <2>4, <2>5, <3>2 DEF Session, Phase
  <2>7. CASE Up \/ Lost
    <3>1. status = "connected" /\ process = made /\ made # 0
      BY <1>2, <2>7 DEF Up, Lost, Quiet, Procs
    <3>2. made \in killed' /\ pc'[c] = "shut"
      BY <2>1, <2>2, <3>1
    <3>3. Ordered'
      BY <1>2, <1>4, <2>1, <2>2, <3>2
    <3>4. Up => Stopping'
      BY <1>4, <3>3 DEF Up, Stopping
    <3>5. Lost => Stopped'
      BY <1>4, <3>3 DEF Lost, Stopped
    <3>. QED
      BY <1>5, <2>3, <2>4, <2>5, <2>7, <3>4, <3>5 DEF Session, Phase
  <2>. QED
    BY <1>3, <2>6, <2>7
<1>. QED
  BY <1>1, <1>7, <1>8

(* A step of a call moves the connection to the next phase.                *)
LEMMA CallStepSession ==
  ASSUME excused' = {}, TypeOK, Turns, Session, NEW c \in Calls, CallStep(c)
  PROVE  Session'
<1>. USE DEF Known, Gone, Owned, Within, Begun, Settled, Ordered
<1>1. /\ UNCHANGED <<completed, shut, crash, server, gate, to>>
      /\ \A d \in Calls : d # c => pc'[d] = pc[d] /\ await'[d] = await[d] /\ child'[d] = child[d]
  BY DEF CallStep, ShutdownDone, connectCore, Spawn, SpawnFails, Spawned, StartDone, Connected,
         Excuse, Go, TypeOK, TypeCalls
<1>2. Active(c)
  BY DEF CallStep, ShutdownDone, connectCore, Spawn, SpawnFails, Spawned, StartDone, Connected,
         Active
<1>3. \A d \in Calls : d # c => pc[d] \in {"idle", "done"} /\ pc'[d] \in {"idle", "done"}
  BY <1>1, <1>2 DEF Turns, Alone, Active
<1>4. ~Quiet /\ ~Settled
  BY <1>2, PhaseOfCall
<1>5. pc[Boot] # "idle" /\ (pc'[c] # "idle" => pc'[Boot] # "idle")
  BY <1>1, <1>2 DEF Turns, BootFirst, Calls, Active
<1>6. One(frames')
  BY <1>1 DEF Session
<1>7. CASE ShutdownDone(c)
  <2>1. /\ UNCHANGED <<dart, await, child, cores, server, invs>>
        /\ pc[c] = "shut" /\ await[c] \in shut /\ pc'[c] = "connect"
    BY <1>7 DEF ShutdownDone, Go, TypeOK, TypeCalls
  <2>2. Down
    BY <1>2, <2>1, PhaseOfCall
  <2>3. Down'
    BY <1>3, <1>4, <2>1, <2>2 DEF Down, Quiet
  <2>4. Waits' /\ Holds'
    BY <1>3, <2>1 DEF Session, Waits, Holds
  <2>5. Asleep' /\ Earlier' /\ Gates' /\ Opens'
    BY <1>5, <2>1 DEF Session, Asleep, Earlier, Gates, Opens
  <2>. QED
    BY <1>6, <2>3, <2>4, <2>5 DEF Session, Phase
<1>8. CASE connectCore(c)
  <2>1. process = 0
    BY <1>8 DEF connectCore, Session, Holds
  <2>2. /\ UNCHANGED <<process, completer, shutter, completed, shut, crash, await, child, cores,
                       server, invs>>
        /\ pc[c] = "connect" /\ pc'[c] = "spawn" /\ status' = "connecting"
    BY <1>8, <2>1 DEF connectCore, Go, TypeOK, TypeCalls
  <2>3. Down
    BY <1>2, <2>2, PhaseOfCall
  <2>4. Down'
    BY <1>3, <2>2, <2>3 DEF Down, Quiet
  <2>5. Waits' /\ Holds'
    BY <1>3, <2>2 DEF Waits, Holds
  <2>6. Asleep' /\ Earlier' /\ Gates'
    BY <1>5, <2>2 DEF Session, Asleep, Earlier, Gates
  <2>7. Opens'
    BY <1>4, <2>2, <2>3 DEF Session, Opens, Down
  <2>. QED
    BY <1>6, <2>4, <2>5, <2>6, <2>7 DEF Session, Phase
<1>9. CASE Spawn(c)
  <2>1. /\ UNCHANGED <<dart, await, killed, server, invs>>
        /\ pc[c] = "spawn" /\ pc'[c] = "spawned" /\ child'[c] = made'
        /\ made < MaxProc /\ made' = made + 1 /\ core' = [core EXCEPT ![made'] = "started"]
    BY <1>9 DEF Spawn, Go, TypeOK, TypeCalls
  <2>2. Down /\ status = "connecting"
    BY <1>2, <2>1, PhaseOfCall DEF Session, Waits
  <2>3. made' \in Procs /\ made' \notin killed' /\ made \in Nat
    BY <2>1 DEF TypeOK, TypeCores, Procs
  <2>4. core'[made'] = "started"
    BY <2>1, <2>3 DEF TypeOK, TypeCores
  <2>5. Starting'
    BY <2>1, <2>2, <2>3, <2>4 DEF Down, Starting
  <2>6. Waits' /\ Holds'
    BY <1>3, <2>1 DEF Waits, Holds
  <2>7. Asleep' /\ Gates' /\ Opens'
    BY <1>5, <2>1 DEF Session, Asleep, Gates, Opens
  <2>8. Earlier'
    BY <2>1, <2>2, <2>3 DEF Session, Earlier, Down, TypeOK, TypeCores, Procs
  <2>. QED
    BY <1>6, <2>5, <2>6, <2>7, <2>8 DEF Session, Phase
<1>10. CASE Spawned(c)
  <2>1. /\ UNCHANGED <<status, completer, completed, shutter, shut, crash, cores, server, invs>>
        /\ pc[c] = "spawned" /\ pc'[c] = "await" /\ await'[c] = completer /\ process' = child[c]
    BY <1>10 DEF Spawned, Go, TypeOK, TypeCalls
  <2>2. Starting \/ Queued \/ Greeted \/ Up
    BY <1>2, <2>1, PhaseOfCall
  <2>3. process' = made
    BY <2>1 DEF Session, Holds
  <2>4. Starting' \/ Queued' \/ Greeted' \/ Up'
    <3>1. Within({"spawned", "await"})' /\ Within({"spawned", "await", "delay"})'
      BY <2>1
    <3>2. Begun => Begun'
      BY <2>1, <3>1
    <3>3. Up => Up'
      BY <1>4, <2>1, <3>1 DEF Up
    <3>. QED
      BY <2>1, <2>2, <3>2, <3>3 DEF Starting, Queued, Greeted
  <2>5. Waits' /\ Holds'
    BY <1>3, <2>1, <2>3 DEF Waits, Holds
  <2>6. Asleep' /\ Earlier' /\ Gates' /\ Opens'
    BY <1>5, <2>1 DEF Session, Asleep, Earlier, Gates, Opens
  <2>. QED
    BY <1>6, <2>4, <2>5, <2>6 DEF Session, Phase
<1>11. CASE StartDone(c)
  <2>1. /\ UNCHANGED <<dart, await, child, cores, server, invs>>
        /\ pc[c] = "await" /\ pc'[c] = "delay" /\ await[c] \in completed
    BY <1>11 DEF StartDone, Go, TypeOK, TypeCalls
  <2>2. Known
    BY <2>1 DEF Session, Waits
  <2>3. Up
    BY <1>4, <2>2, PhaseOfEvent DEF Lost
  <2>4. Up'
    BY <1>4, <2>1, <2>3 DEF Up
  <2>5. Waits' /\ Holds'
    BY <1>3, <2>1, <2>2 DEF Session, Waits, Holds
  <2>6. Asleep' /\ Earlier' /\ Gates' /\ Opens'
    BY <1>5, <2>1 DEF Session, Asleep, Earlier, Gates, Opens
  <2>. QED
    BY <1>6, <2>4, <2>5, <2>6 DEF Session, Phase
<1>12. CASE Connected(c)
  <2>1. /\ UNCHANGED <<process, completer, completed, shutter, shut, crash, await, child, cores,
                       server, invs>>
        /\ pc[c] = "delay" /\ pc'[c] = "done" /\ status' = "connected"
    BY <1>12 DEF Connected, Go, TypeOK, TypeCalls
  <2>2. Up /\ process = made
    BY <1>2, <2>1, PhaseOfCall DEF Session, Holds
  <2>3. Quiet'
    BY <1>3, <2>1 DEF Quiet
  <2>4. Up'
    BY <2>1, <2>2, <2>3 DEF Up
  <2>5. Waits' /\ Holds'
    BY <1>3, <2>1 DEF Waits, Holds
  <2>6. Asleep' /\ Earlier' /\ Gates' /\ Opens'
    BY <1>5, <2>1, <2>2 DEF Session, Asleep, Earlier, Gates, Opens, Up
  <2>. QED
    BY <1>6, <2>4, <2>5, <2>6 DEF Session, Phase
<1>. QED
  BY <1>7, <1>8, <1>9, <1>10, <1>11, <1>12 DEF CallStep, SpawnFails, Excuse

(* Nothing is connected at first.                                          *)
LEMMA SessionInit == Init => Session
<1>. SUFFICES ASSUME Init PROVE Session
  OBVIOUS
<1>1. frames = <<>> /\ Len(frames) = 0
  BY DEF Init
<1>2. One(frames) /\ Calm(frames)
  BY <1>1 DEF One, Calm
<1>3. Down
  BY <1>2 DEF Init, Down, Known, Gone, Calls
<1>4. Waits /\ Holds /\ Asleep /\ Earlier
  BY DEF Init, Waits, Holds, Asleep, Earlier, Calls, Procs
<1>5. Gates /\ Opens
  BY DEF Init, Gates, Opens
<1>. QED
  BY <1>2, <1>3, <1>4, <1>5 DEF Session, Phase

(* Every step keeps the session.                                           *)
LEMMA SessionNext ==
  ASSUME excused' = {}, TypeOK, Turns, Session, [Next]_vars
  PROVE  Session'
<1>1. CASE UNCHANGED vars
  <2>1. UNCHANGED <<frames, inv, gate>> /\ UNCHANGED <<dart, calls, cores, backlog, serving>>
    BY <1>1 DEF vars
  <2>2. One(frames') /\ Phase' /\ Waits' /\ Holds' /\ Asleep' /\ Earlier'
    BY <2>1, QuietFrames DEF Session
  <2>3. Gates' /\ Opens'
    BY <2>1 DEF Session, Gates, Opens, Known
  <2>. QED
    BY <2>2, <2>3 DEF Session
<1>2. CASE boot \/ \E c \in Restarts : restartCore(c)
  BY <1>2, CallSession
<1>3. CASE \E c \in Calls : CallStep(c)
  BY <1>3, CallStepSession
<1>4. CASE \E p \in Procs : dial(p) \/ Dies(p)
  BY <1>4, CoreSession
<1>5. CASE Accept \/ HangUp
  BY <1>5, ServerSession
<1>6. CASE OnConnected \/ OnDisconnected
  BY <1>6, NewsSession
<1>7. CASE onCrash
  BY <1>7, CrashSession
<1>8. CASE \E i \in Invokes : InvokeStep(i) \/ handleResult(i)
  BY <1>8, InvokeSession
<1>. QED
  BY <1>1, <1>2, <1>3, <1>4, <1>5, <1>6, <1>7, <1>8 DEF Next, Dart

(* In every phase the status is true.                                      *)
LEMMA SessionTruthful ==
  ASSUME TypeOK, Session, status = "connected"
  PROVE  Ending \/ (serving # 0 /\ serving = process)
<1>1. Down \/ Up \/ Lost
  BY DEF Session, Phase, Starting, Queued, Greeted, Stopping, Stopped, Begun, Ordered
<1>2. CASE Down
  BY <1>2 DEF Down, Ending
<1>3. CASE Up
  <2>1. process = made /\ serving = made /\ made # 0
    BY <1>3 DEF Up, Settled, Owned, Procs
  <2>. QED
    BY <2>1
<1>4. CASE Lost
  BY <1>4 DEF Lost, In, Ending
<1>. QED
  BY <1>1, <1>2, <1>3, <1>4

(* Before the first excuse the calls take turns, the session holds, no     *)
(* status is blind and no crash event is dropped with an invoke open.      *)
Orderly == excused = {} => Turns /\ Session /\ blind = FALSE /\ missed = {}

(* Every step keeps that.                                                  *)
LEMMA OrderlyNext ==
  ASSUME TypeOK, Orderly, [Next]_vars
  PROVE  Orderly'
<1>. SUFFICES ASSUME excused' = {}
              PROVE  Turns' /\ Session' /\ blind' = FALSE /\ missed' = {}
  BY DEF Orderly
<1>1. Turns /\ Session /\ blind = FALSE /\ missed = {}
  BY HistoryNext DEF Orderly
<1>2. Turns' /\ Session'
  BY <1>1, TurnsNext, SessionNext
<1>3. CASE onCrash
  <2>1. CASE status = "connected"
    BY <1>1, <1>2, <1>3, <2>1 DEF onCrash, Sees
  <2>2. CASE status # "connected"
    <3>1. ~Known
      BY <1>1, <1>3, PhaseOfEvent DEF onCrash, Down, Starting, Queued, Greeted, Begun
    <3>2. \A i \in Invokes : inv[i] # "open"
      BY <1>1, <2>2, <3>1 DEF Session, Opens
    <3>. QED
      BY <1>1, <1>2, <1>3, <2>2, <3>2 DEF onCrash
  <2>. QED
    BY <1>2, <2>1, <2>2
<1>4. ASSUME NEW c \in Calls, Connected(c) PROVE blind' = FALSE /\ missed' = {}
  <2>1. Active(c) /\ pc[c] = "delay"
    BY <1>4 DEF Connected, Active
  <2>2. Known
    BY <1>1, <2>1, PhaseOfCall DEF Up
  <2>. QED
    BY <1>1, <1>4, <2>2 DEF Connected, Known
<1>5. CASE boot \/ OnConnected \/ OnDisconnected \/ Accept \/ HangUp \/ UNCHANGED vars
  BY <1>1, <1>2, <1>5 DEF boot, OnConnected, OnDisconnected, Accept, HangUp, vars
<1>6. ASSUME NEW c \in Restarts, restartCore(c) PROVE blind' = FALSE /\ missed' = {}
  BY <1>1, <1>6 DEF restartCore, Sees
<1>7. ASSUME NEW c \in Calls, connectCore(c) PROVE blind' = FALSE /\ missed' = {}
  BY <1>1, <1>7 DEF connectCore, Sees
<1>8. ASSUME NEW c \in Calls, ShutdownDone(c) \/ Spawn(c) \/ SpawnFails(c) \/ Spawned(c)
                                \/ StartDone(c)
      PROVE  blind' = FALSE /\ missed' = {}
  BY <1>1, <1>8 DEF ShutdownDone, Spawn, SpawnFails, Spawned, StartDone
<1>9. ASSUME NEW p \in Procs, dial(p) \/ Dies(p) PROVE blind' = FALSE /\ missed' = {}
  BY <1>1, <1>9 DEF dial, Dies
<1>10. ASSUME NEW i \in Invokes, InvokeStep(i) \/ handleResult(i)
       PROVE  blind' = FALSE /\ missed' = {}
  BY <1>1, <1>10 DEF InvokeStep, _invoke, GateTimeout, invoke, InvokeTimeout, CoreAnswers,
                     handleResult
<1>. QED
  BY <1>2, <1>3, <1>4, <1>5, <1>6, <1>7, <1>8, <1>9, <1>10 DEF Next, Dart, CallStep

(* It holds from the start.                                                *)
LEMMA OrderlyInit == Init => Orderly
BY TurnsInit, SessionInit DEF Init, Orderly

-----------------------------------------------------------------------------
(* What holds in every behaviour.  A frame that tells of a connection is   *)
(* about the one being served, or one whose end is told behind it.  A      *)
(* completed transport completer means a served core, or a frame that      *)
(* tells of its end.  An invoke passes the gate before anything else       *)
(* happens.  The status sees, unless it is blind.                          *)
Ended(f, n) == \E m \in 1 .. Len(f) : m > n /\ f[m] = "disconnected"
Heard   == \A n \in 1 .. Len(frames) :
             frames[n] = "connected" => serving # 0 \/ Ended(frames, n)
Wired   == Known => serving # 0 \/ In("disconnected", frames)
Through == \A i \in Invokes : inv[i] = "gate" /\ gate[i] \in completed =>
             /\ Known /\ crash = 0
             /\ \A c \in Calls : /\ pc[c] # "connect"
                                 /\ ~(pc[c] = "shut" /\ await[c] \in shut)
Sighted == status = "connected" /\ ~blind => Known \/ crash > 0
Wire    == Heard /\ Wired /\ Through /\ Sighted

(* The news behind a frame, when one is added and when one is handled.     *)
LEMMA EndedAppend ==
  ASSUME NEW S, NEW f \in Seq(S), NEW e \in S
  PROVE  /\ \A n \in 1 .. Len(f) :
              /\ Append(f, e)[n] = f[n]
              /\ Ended(f, n) \/ e = "disconnected" => Ended(Append(f, e), n)
         /\ \A n \in 1 .. Len(Append(f, e)) :
              n \in 1 .. Len(f) \/ (n = Len(f) + 1 /\ Append(f, e)[n] = e)
<1>. DEFINE g == Append(f, e)
<1>1. /\ Len(f) \in Nat /\ Len(g) = Len(f) + 1 /\ g[Len(f) + 1] = e
      /\ \A n \in 1 .. Len(f) : g[n] = f[n]
  BY AppendProperties
<1>. HIDE DEF g
<1>2. \A n \in 1 .. Len(f) : Ended(f, n) \/ e = "disconnected" => Ended(g, n)
  BY <1>1 DEF Ended
<1>3. \A n \in 1 .. Len(g) : n \in 1 .. Len(f) \/ (n = Len(f) + 1 /\ g[n] = e)
  BY <1>1
<1>. QED
  BY <1>1, <1>2, <1>3 DEF g

LEMMA EndedTail ==
  ASSUME NEW S, NEW f \in Seq(S), f # <<>>
  PROVE  /\ \A n \in 1 .. Len(Tail(f)) :
              /\ n + 1 \in 1 .. Len(f) /\ Tail(f)[n] = f[n + 1]
              /\ Ended(f, n + 1) => Ended(Tail(f), n)
         /\ 1 \in 1 .. Len(f) /\ f[1] = Head(f)
         /\ Ended(f, 1) => In("disconnected", Tail(f))
<1>. DEFINE g == Tail(f)
<1>1. /\ Len(f) \in Nat \ {0} /\ Len(g) = Len(f) - 1 /\ Head(f) = f[1]
      /\ \A n \in 1 .. Len(g) : g[n] = f[n + 1]
  BY HeadTailProperties, EmptySeq
<1>. HIDE DEF g
<1>2. \A m \in 1 .. Len(f) : m > 1 => m - 1 \in 1 .. Len(g) /\ g[m - 1] = f[m]
  BY <1>1
<1>3. ASSUME NEW n \in 1 .. Len(g), Ended(f, n + 1) PROVE Ended(g, n)
  <2>1. PICK m \in 1 .. Len(f) : m > n + 1 /\ f[m] = "disconnected"
    BY <1>3 DEF Ended
  <2>2. m - 1 \in 1 .. Len(g) /\ m - 1 > n /\ g[m - 1] = "disconnected"
    BY <1>1, <1>2, <2>1
  <2>. QED
    BY <2>2 DEF Ended
<1>4. Ended(f, 1) => In("disconnected", g)
  BY <1>2 DEF Ended, In
<1>. QED
  BY <1>1, <1>3, <1>4 DEF g

(* Every step keeps what is heard.                                         *)
LEMMA HeardNext ==
  ASSUME TypeOK, Heard, [Next]_vars
  PROVE  Heard'
<1>1. frames \in Seq(News \cup Invokes) /\ (\A i \in Invokes : i \notin News)
  BY DEF TypeOK, TypeServer, News
<1>2. CASE UNCHANGED <<frames, serving>>
  BY <1>2 DEF Heard, Ended
<1>3. CASE Accept
  BY <1>3 DEF Heard, Accept, TypeOK, TypeServer, Procs
<1>4. CASE HangUp
  <2>1. frames' = Append(frames, "disconnected")
    BY <1>4 DEF HangUp
  <2>. QED
    BY <1>1, <2>1, EndedAppend DEF Heard, News
<1>5. ASSUME frames # <<>>, frames' = Tail(frames), serving' = serving PROVE Heard'
  BY <1>1, <1>5, EndedTail DEF Heard
<1>6. CASE OnConnected \/ OnDisconnected \/ \E i \in Invokes : handleResult(i)
  BY <1>5, <1>6 DEF OnConnected, OnDisconnected, handleResult
<1>7. ASSUME NEW i \in Invokes, CoreAnswers(i) PROVE Heard'
  <2>1. frames' = Append(frames, i) /\ serving' = serving
    BY <1>7 DEF CoreAnswers
  <2>. QED
    BY <1>1, <2>1, EndedAppend DEF Heard, News
<1>8. CASE boot \/ onCrash \/ UNCHANGED vars
  BY <1>2, <1>8 DEF boot, onCrash, vars
<1>9. CASE \E c \in Restarts : restartCore(c)
  BY <1>2, <1>9 DEF restartCore
<1>10. CASE \E c \in Calls : CallStep(c)
  BY <1>2, <1>10 DEF CallStep, ShutdownDone, connectCore, Spawn, SpawnFails, Spawned, StartDone,
                     Connected
<1>11. CASE \E p \in Procs : dial(p) \/ Dies(p)
  BY <1>2, <1>11 DEF dial, Dies
<1>12. CASE \E i \in Invokes : _invoke(i) \/ GateTimeout(i) \/ invoke(i) \/ InvokeTimeout(i)
  BY <1>2, <1>12 DEF _invoke, GateTimeout, invoke, InvokeTimeout
<1>. QED
  BY <1>3, <1>4, <1>6, <1>7, <1>8, <1>9, <1>10, <1>11, <1>12 DEF Next, Dart, InvokeStep

(* And what is wired, the gates and the sight of the status.               *)
LEMMA WireNext ==
  ASSUME TypeOK, Wire, [Next]_vars
  PROVE  Wire'
<1>1. frames \in Seq(News \cup Invokes) /\ (\A i \in Invokes : i \notin News) /\ crash \in Nat
  BY DEF TypeOK, TypeServer, TypeDart, News
<1>2. Heard'
  BY HeardNext DEF Wire
<1>. SUFFICES Wired' /\ Through' /\ Sighted'
  BY <1>2 DEF Wire
<1>. USE DEF Wire
<1>3. CASE Accept
  <2>1. frames' = Append(frames, "connected") /\ serving' # 0
    BY <1>3 DEF Accept, TypeOK, TypeServer, Procs
  <2>. QED
    BY <1>3, <2>1 DEF Accept, Wired, Through, Sighted, Known
<1>4. CASE HangUp
  <2>1. frames' = Append(frames, "disconnected")
    BY <1>4 DEF HangUp
  <2>2. In("disconnected", frames')
    BY <1>1, <2>1, InAppend DEF News
  <2>. QED
    BY <1>4, <2>2 DEF HangUp, Wired, Through, Sighted, Known
<1>5. CASE OnConnected
  <2>1. /\ frames # <<>> /\ frames' = Tail(frames) /\ Head(frames) = "connected" /\ ~Pending
        /\ UNCHANGED <<status, completer, crash, shut, pc, await, serving, inv, gate, blind>>
        /\ completed' = completed \cup {completer}
    BY <1>5 DEF OnConnected
  <2>2. serving # 0 \/ In("disconnected", frames')
    BY <1>1, <2>1, EndedTail DEF Heard
  <2>3. Wired' /\ Sighted'
    BY <2>1, <2>2 DEF Wired, Sighted, Known
  <2>4. Through'
    BY <1>1, <2>1 DEF Through, Known, Pending
  <2>. QED
    BY <2>3, <2>4
<1>6. CASE OnDisconnected
  <2>1. /\ ~Pending /\ completer' = completer + 1 /\ crash' = crash + 1
        /\ UNCHANGED <<completed, inv, gate>>
    BY <1>6 DEF OnDisconnected
  <2>2. ~Known'
    BY <2>1 DEF Known, TypeOK, TypeDart
  <2>. QED
    BY <1>1, <2>1, <2>2 DEF Wired, Through, Sighted, Pending
<1>7. ASSUME shutdown, UNCHANGED completed, status' # "connected",
             \A i \in Invokes : ~(inv[i] = "gate" /\ gate[i] \in completed), gate' = gate
      PROVE  Wired' /\ Through' /\ Sighted'
  <2>1. ~Known' /\ (\A i \in Invokes : inv'[i] = "gate" => inv[i] = "gate")
    BY <1>7 DEF shutdown, _clearCompleter, Known, TypeOK, TypeDart
  <2>. QED
    BY <1>7, <2>1 DEF Wired, Through, Sighted
<1>8. CASE onCrash
  <2>1. \A i \in Invokes : ~(inv[i] = "gate" /\ gate[i] \in completed)
    BY <1>8 DEF onCrash, Through
  <2>2. CASE status = "connected"
    BY <1>7, <1>8, <2>1, <2>2 DEF onCrash
  <2>3. CASE status # "connected"
    BY <1>8, <2>1, <2>3 DEF onCrash, Wired, Through, Sighted, Known
  <2>. QED
    BY <2>2, <2>3
<1>9. CASE boot
  <2>1. UNCHANGED <<dart, serving, frames, inv, gate, blind>> /\ ~Pending
    BY <1>9 DEF boot
  <2>. QED
    BY <2>1 DEF Wired, Through, Sighted, Known, Pending
<1>10. ASSUME NEW c \in Restarts, restartCore(c) PROVE Wired' /\ Through' /\ Sighted'
  BY <1>7, <1>10 DEF restartCore, Pending
<1>11. ASSUME NEW c \in Calls, connectCore(c) PROVE Wired' /\ Through' /\ Sighted'
  <2>1. \A i \in Invokes : ~(inv[i] = "gate" /\ gate[i] \in completed)
    BY <1>11 DEF connectCore, Through
  <2>2. CASE process # 0
    BY <1>7, <1>11, <2>1, <2>2 DEF connectCore
  <2>3. CASE process = 0
    BY <1>11, <2>1, <2>3 DEF connectCore, Wired, Through, Sighted, Known
  <2>. QED
    BY <2>2, <2>3
<1>12. ASSUME NEW c \in Calls, ShutdownDone(c) PROVE Wired' /\ Through' /\ Sighted'
  <2>1. UNCHANGED <<dart, serving, frames, inv, gate, blind>> /\ pc[c] = "shut" /\ await[c] \in shut
    BY <1>12 DEF ShutdownDone
  <2>. QED
    BY <2>1 DEF Wired, Through, Sighted, Known
<1>13. ASSUME NEW c \in Calls, Spawn(c) \/ StartDone(c) PROVE Wired' /\ Through' /\ Sighted'
  <2>1. /\ UNCHANGED <<dart, serving, frames, inv, gate, blind, await>>
        /\ pc' \in {[pc EXCEPT ![c] = "spawned"], [pc EXCEPT ![c] = "delay"]}
    BY <1>13 DEF Spawn, StartDone, Go
  <2>2. \A d \in Calls : pc'[d] = pc[d] \/ pc'[d] \in {"spawned", "delay"}
    BY <2>1 DEF TypeOK, TypeCalls
  <2>. QED
    BY <2>1, <2>2 DEF Wired, Through, Sighted, Known
<1>14. ASSUME NEW c \in Calls, SpawnFails(c) \/ Spawned(c) PROVE Wired' /\ Through' /\ Sighted'
  <2>1. /\ UNCHANGED <<status, completer, completed, serving, frames, inv, gate, blind>>
        /\ ~Pending /\ crash' \in {crash, crash + 1}
    BY <1>14 DEF SpawnFails, Spawned
  <2>. QED
    BY <1>1, <2>1 DEF Wired, Through, Sighted, Known, Pending
<1>15. ASSUME NEW c \in Calls, Connected(c) PROVE Wired' /\ Through' /\ Sighted'
  <2>1. /\ UNCHANGED <<completer, completed, serving, frames, inv, gate>>
        /\ ~Pending /\ blind' = ~Known
    BY <1>15 DEF Connected, Known
  <2>. QED
    BY <2>1 DEF Wired, Through, Sighted, Known, Pending
<1>16. ASSUME NEW p \in Procs, dial(p) \/ Dies(p) PROVE Wired' /\ Through' /\ Sighted'
  BY <1>16 DEF dial, Dies, Wired, Through, Sighted, Known
<1>17. ASSUME NEW i \in Invokes, _invoke(i) PROVE Wired' /\ Through' /\ Sighted'
  <2>1. /\ UNCHANGED <<dart, pc, await, serving, frames, blind>> /\ ~Pending
        /\ \A k \in Invokes : inv'[k] = "gate" =>
             \/ inv[k] = "gate" /\ gate'[k] = gate[k]
             \/ gate'[k] = completer
    BY <1>17 DEF _invoke, TypeOK, TypeInvokes
  <2>. QED
    BY <1>1, <2>1 DEF Wired, Through, Sighted, Known, Pending
<1>18. ASSUME NEW i \in Invokes, GateTimeout(i) \/ invoke(i) \/ InvokeTimeout(i)
       PROVE  Wired' /\ Through' /\ Sighted'
  <2>1. /\ UNCHANGED <<dart, pc, await, serving, frames, blind, gate>>
        /\ \A k \in Invokes : inv'[k] = "gate" => inv[k] = "gate"
    BY <1>18 DEF GateTimeout, invoke, InvokeTimeout, TypeOK, TypeInvokes
  <2>. QED
    BY <2>1 DEF Wired, Through, Sighted, Known
<1>19. ASSUME NEW i \in Invokes, handleResult(i) \/ CoreAnswers(i)
       PROVE  Wired' /\ Through' /\ Sighted'
  <2>1. /\ UNCHANGED <<dart, pc, await, serving, blind, gate>>
        /\ \A k \in Invokes : inv'[k] = "gate" => inv[k] = "gate"
    BY <1>19 DEF handleResult, CoreAnswers, TypeOK, TypeInvokes
  <2>2. In("disconnected", frames) => In("disconnected", frames')
    <3>1. CASE handleResult(i)
      <4>1. frames # <<>> /\ frames' = Tail(frames) /\ Head(frames) = i
        BY <3>1 DEF handleResult
      <4>. QED
        BY <1>1, <4>1, InTail DEF News
    <3>2. CASE CoreAnswers(i)
      <4>1. frames' = Append(frames, i)
        BY <3>2 DEF CoreAnswers
      <4>. QED
        BY <1>1, <4>1, InAppend
    <3>. QED
      BY <1>19, <3>1, <3>2
  <2>. QED
    BY <2>1, <2>2 DEF Wired, Through, Sighted, Known
<1>20. CASE UNCHANGED vars
  BY <1>20 DEF vars, Wired, Through, Sighted, Known
<1>. QED
  BY <1>3, <1>4, <1>5, <1>6, <1>8, <1>9, <1>10, <1>11, <1>12, <1>13, <1>14, <1>15, <1>16, <1>17,
     <1>18, <1>19, <1>20
  DEF Next, Dart, CallStep, InvokeStep

(* Nothing is connected at first.                                          *)
LEMMA WireInit == Init => Wire
<1>. SUFFICES ASSUME Init PROVE Wire
  OBVIOUS
<1>1. frames = <<>> /\ Len(frames) = 0 /\ 1 .. Len(frames) = {}
  BY DEF Init
<1>. QED
  BY <1>1 DEF Init, Wire, Heard, Wired, Through, Sighted, Known

(* However restarts overlap and whatever fails, coreStatusProvider says    *)
(* connected only while the IPC server serves a core, or a disconnect      *)
(* frame or crash event is on its way, unless connectCore said so while    *)
(* the transport completer of that moment was not completed.  Until a      *)
(* restart overlaps a call, a spawn fails, or a core that had dialed dies  *)
(* unasked before the status says connected, connectCore never does, and   *)
(* the served core is CoreService._process.                                *)
THEOREM StatusTruthfulAlways == Spec => []StatusTruthful
<1>1. TypeOK /\ Orderly /\ [Next]_vars => Orderly'
  BY OrderlyNext
<1>2. TypeOK /\ Wire /\ [Next]_vars => Wire'
  BY WireNext
<1>3. TypeOK /\ Orderly /\ Wire => StatusTruthful
  <2>. SUFFICES ASSUME TypeOK, Orderly, Wire, status = "connected", ~Ending
                PROVE  \/ serving # 0 /\ (excused = {} => serving = process)
                       \/ blind /\ excused # {}
    BY DEF StatusTruthful
  <2>1. CASE excused = {}
    BY <2>1, SessionTruthful DEF Orderly
  <2>2. CASE excused # {} /\ ~blind
    BY <2>2 DEF Wire, Wired, Sighted, Ending, In
  <2>. QED
    BY <2>1, <2>2
<1>. QED
  BY <1>1, <1>2, <1>3, OrderlyInit, WireInit, TypeCorrect, PTL DEF Spec

(* Who will complete an open invoke: the served core that has it, its      *)
(* answer, or the end of the connection, unless that end was dropped.      *)
Owed == \A i \in Invokes : inv[i] = "open" =>
          \/ to[i] # 0 /\ serving = to[i]
          \/ In(i, frames) \/ In("disconnected", frames) \/ crash > 0
          \/ i \in missed

(* Every step keeps that.                                                  *)
LEMMA OwedNext ==
  ASSUME TypeOK, Wire, Owed, [Next]_vars
  PROVE  Owed'
<1>1. frames \in Seq(News \cup Invokes) /\ (\A i \in Invokes : i \notin News) /\ crash \in Nat
  BY DEF TypeOK, TypeServer, TypeDart, News
<1>2. _clearCompleter => \A i \in Invokes : inv'[i] = "open" => inv[i] = "open"
  BY DEF _clearCompleter
<1>3. CASE boot \/ UNCHANGED vars
  BY <1>3 DEF Owed, boot, vars
<1>4. CASE \E c \in Restarts : restartCore(c)
  BY <1>2, <1>4 DEF Owed, restartCore, shutdown, Sees
<1>5. CASE \E c \in Calls : connectCore(c)
  BY <1>2, <1>5 DEF Owed, connectCore, shutdown, Sees
<1>6. CASE \E c \in Calls : \/ ShutdownDone(c) \/ Spawn(c) \/ SpawnFails(c) \/ Spawned(c)
                            \/ StartDone(c) \/ Connected(c)
  <2>1. UNCHANGED <<serving, frames, inv, to, missed>> /\ crash' \in {crash, crash + 1}
    BY <1>6 DEF ShutdownDone, Spawn, SpawnFails, Spawned, StartDone, Connected
  <2>. QED
    BY <1>1, <2>1 DEF Owed
<1>7. CASE \E p \in Procs : dial(p) \/ Dies(p)
  BY <1>7 DEF Owed, dial, Dies
<1>8. CASE Accept
  <2>1. frames' = Append(frames, "connected")
    BY <1>8 DEF Accept
  <2>2. \A x : In(x, frames) => In(x, frames')
    BY <1>1, <2>1, InAppend DEF News
  <2>. QED
    BY <1>8, <2>2 DEF Owed, Accept
<1>9. CASE HangUp
  <2>1. frames' = Append(frames, "disconnected")
    BY <1>9 DEF HangUp
  <2>2. In("disconnected", frames')
    BY <1>1, <2>1, InAppend DEF News
  <2>. QED
    BY <2>2 DEF Owed
<1>10. CASE OnConnected
  <2>1. frames # <<>> /\ frames' = Tail(frames) /\ Head(frames) = "connected"
    BY <1>10 DEF OnConnected
  <2>2. \A x : In(x, frames) => In(x, frames') \/ x = "connected"
    BY <1>1, <2>1, InTail
  <2>. QED
    BY <1>1, <1>10, <2>2 DEF Owed, OnConnected, News
<1>11. CASE OnDisconnected
  BY <1>1, <1>11 DEF Owed, OnDisconnected
<1>12. CASE onCrash
  <2>1. CASE status = "connected"
    <3>1. \A i \in Invokes : inv'[i] # "open"
      BY <1>12, <2>1 DEF onCrash, shutdown, _clearCompleter
    <3>. QED
      BY <3>1 DEF Owed
  <2>2. CASE status # "connected"
    BY <1>12, <2>2 DEF onCrash, Owed
  <2>. QED
    BY <2>1, <2>2
<1>13. ASSUME NEW i \in Invokes, handleResult(i) PROVE Owed'
  <2>1. frames # <<>> /\ frames' = Tail(frames) /\ Head(frames) = i
    BY <1>13 DEF handleResult
  <2>2. \A x : In(x, frames) => In(x, frames') \/ x = i
    BY <1>1, <2>1, InTail
  <2>3. \A k \in Invokes : inv'[k] = "open" => inv[k] = "open" /\ k # i
    BY <1>13 DEF handleResult, TypeOK, TypeInvokes
  <2>. QED
    BY <1>1, <1>13, <2>2, <2>3 DEF Owed, handleResult, News
<1>14. ASSUME NEW i \in Invokes, CoreAnswers(i) PROVE Owed'
  <2>1. frames' = Append(frames, i)
    BY <1>14 DEF CoreAnswers
  <2>2. \A x : In(x, frames') <=> In(x, frames) \/ x = i
    BY <1>1, <2>1, InAppend
  <2>. QED
    BY <1>14, <2>2 DEF Owed, CoreAnswers, TypeOK, TypeInvokes
<1>15. ASSUME NEW i \in Invokes, invoke(i) PROVE Owed'
  <2>1. serving # 0 \/ In("disconnected", frames)
    BY <1>15 DEF invoke, Wire, Wired, Through
  <2>2. to'[i] = serving /\ UNCHANGED <<serving, frames, crash, missed>>
    BY <1>15 DEF invoke, TypeOK, TypeInvokes
  <2>3. \A k \in Invokes : k # i => inv'[k] = inv[k] /\ to'[k] = to[k]
    BY <1>15 DEF invoke, TypeOK, TypeInvokes
  <2>. QED
    BY <2>1, <2>2, <2>3 DEF Owed
<1>16. ASSUME NEW i \in Invokes, _invoke(i) \/ GateTimeout(i) \/ InvokeTimeout(i) PROVE Owed'
  BY <1>16 DEF Owed, _invoke, GateTimeout, InvokeTimeout, TypeOK, TypeInvokes
<1>. QED
  BY <1>3, <1>4, <1>5, <1>6, <1>7, <1>8, <1>9, <1>10, <1>11, <1>12, <1>13, <1>14, <1>15, <1>16
  DEF Next, Dart, CallStep, InvokeStep

(* However restarts overlap and whatever fails, an invoke that has passed  *)
(* the gate of _invoke is not forgotten: the core it was sent to is served *)
(* and has it, its answer is on its way, or the end of the connection is,  *)
(* and _clearCompleter will complete it.  The exception are the invokes    *)
(* open when onCrash drops the event as the status does not say connected, *)
(* and none is before a restart overlaps a call, a spawn fails, or a core  *)
(* that had dialed dies unasked while the status does not say connected.   *)
THEOREM NoInvokeLeftAlways == Spec => []NoInvokeLeft
<1>1. TypeOK /\ Orderly /\ [Next]_vars => Orderly'
  BY OrderlyNext
<1>2. TypeOK /\ Wire /\ [Next]_vars => Wire'
  BY WireNext
<1>3. Init => Owed
  BY DEF Init, Owed
<1>4. TypeOK /\ Wire /\ Owed /\ [Next]_vars => Owed'
  BY OwedNext
<1>5. Orderly /\ Owed => NoInvokeLeft
  BY DEF Orderly, Owed, NoInvokeLeft, Ending, In
<1>. QED
  BY <1>1, <1>2, <1>3, <1>4, <1>5, OrderlyInit, WireInit, TypeCorrect, PTL DEF Spec
=============================================================================
