--------------------------- MODULE TunHandlerProofs ---------------------------
(***************************************************************************)
(* Proofs about TunHandler for every set of callers, dialers and requests, *)
(* every weight of the semaphore and every number of starts.  The argument *)
(* for CallbackLive is ownership: whoever works on the current handler     *)
(* holds tunLock, so no two callers do; a caller that changes a handler    *)
(* holds its whole semaphore, so no hook is inside it; and a handler that  *)
(* is being started still has its callback.                                *)
(***************************************************************************)
EXTENDS TunHandler, TLAPS

USE TunAssumption

(* A process that joins or leaves a handler's semaphore leaves a queue.    *)
LEMMA QueueType ==
  ASSUME NEW q \in [Handlers -> Seq(Procs)], NEW h \in Handlers, NEW p \in Procs
  PROVE  /\ [q EXCEPT ![h] = Append(@, p)] \in [Handlers -> Seq(Procs)]
         /\ q[h] # <<>> => [q EXCEPT ![h] = Tail(@)] \in [Handlers -> Seq(Procs)]
<1>1. Append(q[h], p) \in Seq(Procs)
  OBVIOUS
<1>2. q[h] # <<>> => Tail(q[h]) \in Seq(Procs)
  OBVIOUS
<1>. QED
  BY <1>1, <1>2

(* Every step keeps the variables well typed.                              *)
LEMMA TypeNext == TypeOK /\ [Next]_vars => TypeOK'
<1>. SUFFICES ASSUME TypeOK, [Next]_vars PROVE TypeOK'
  OBVIOUS
<1>. USE DEF TypeOK, Procs, Hooked, Handlers
<1>1. ASSUME NEW c \in Callers, startTUN(c) PROVE TypeOK'
  BY <1>1 DEF startTUN, Go
<1>2. ASSUME NEW c \in Callers, stopTun(c) PROVE TypeOK'
  BY <1>2 DEF stopTun, Go
<1>3. ASSUME NEW c \in Callers, StopLock(c) PROVE TypeOK'
  <2>1. queue' \in [Handlers -> Seq(Procs)]
    <3>1. CASE tunHandler = 0
      BY <1>3, <3>1 DEF StopLock, Go, Enqueue
    <3>2. CASE tunHandler # 0
      <4>1. tunHandler \in Handlers
        BY <3>2
      <4>2. Enqueue(c, tunHandler)
        BY <1>3, <3>2 DEF StopLock
      <4>. QED
        BY <4>1, <4>2, QueueType DEF Enqueue
    <3>. QED
      BY <3>1, <3>2
  <2>. QED
    BY <1>3, <2>1 DEF StopLock, Go, Enqueue
<1>4. ASSUME NEW c \in Callers, CloseAcquire(c) PROVE TypeOK'
  <2>1. queue' \in [Handlers -> Seq(Procs)]
    BY <1>4, QueueType DEF CloseAcquire, Go, Dequeue, RoomForAll, Exclusive, Shared
  <2>. QED
    BY <1>4, <2>1 DEF CloseAcquire, Go, Dequeue, RoomForAll, Exclusive, Shared
<1>5. ASSUME NEW c \in Callers, CloseClear(c) PROVE TypeOK'
  BY <1>5 DEF CloseClear, Go, clear
<1>6. ASSUME NEW c \in Callers, StopUnlock(c) PROVE TypeOK'
  BY <1>6 DEF StopUnlock, Go
<1>7. ASSUME NEW c \in Callers, StartLock(c) PROVE TypeOK'
  BY <1>7 DEF StartLock, Go
<1>8. ASSUME NEW c \in Callers, StartLockNoFd(c) PROVE TypeOK'
  BY <1>8 DEF StartLockNoFd, Go
<1>9. ASSUME NEW c \in Callers, StartRunLock(c) PROVE TypeOK'
  <2>1. queue' \in [Handlers -> Seq(Procs)]
    BY <1>9, QueueType DEF StartRunLock, Go, Enqueue
  <2>. QED
    BY <1>9, <2>1 DEF StartRunLock, Go, Enqueue
<1>10. ASSUME NEW c \in Callers, StartAcquire(c) PROVE TypeOK'
  <2>1. queue' \in [Handlers -> Seq(Procs)]
    BY <1>10, QueueType DEF StartAcquire, Go, Dequeue, RoomForAll, Exclusive, Shared
  <2>. QED
    BY <1>10, <2>1 DEF StartAcquire, Go, Dequeue, RoomForAll, Exclusive, Shared
<1>11. ASSUME NEW c \in Callers, initHook(c) PROVE TypeOK'
  BY <1>11 DEF initHook, Go
<1>12. ASSUME NEW c \in Callers, TunStarts(c) PROVE TypeOK'
  BY <1>12 DEF TunStarts, Go
<1>13. ASSUME NEW c \in Callers, TunStartFails(c) PROVE TypeOK'
  BY <1>13 DEF TunStartFails, Go, clear
<1>14. ASSUME NEW c \in Callers, StartUnlock(c) PROVE TypeOK'
  BY <1>14 DEF StartUnlock, Go
<1>15. ASSUME NEW c \in Callers, After(c) PROVE TypeOK'
  BY <1>15 DEF After, Go
<1>16. ASSUME NEW c \in Callers, AfterLocked(c) PROVE TypeOK'
  BY <1>16 DEF AfterLocked, Go
<1>17. ASSUME NEW p \in Hooked, Dial(p) PROVE TypeOK'
  BY <1>17 DEF Dial, Go, Rest
<1>18. ASSUME NEW p \in Hooked, HookCalls(p) PROVE TypeOK'
  <2>1. queue' \in [Handlers -> Seq(Procs)]
    BY <1>18, QueueType DEF HookCalls, Go, Enqueue
  <2>. QED
    BY <1>18, <2>1 DEF HookCalls, Go, Enqueue
<1>19. ASSUME NEW p \in Hooked, AcquireOne(p) PROVE TypeOK'
  <2>1. queue' \in [Handlers -> Seq(Procs)]
    BY <1>19, QueueType DEF AcquireOne, Go, Dequeue, RoomForOne, Exclusive, Shared
  <2>. QED
    BY <1>19, <2>1 DEF AcquireOne, Go, Dequeue, RoomForOne, Exclusive, Shared
<1>20. ASSUME NEW p \in Hooked, HandleProtect(p) PROVE TypeOK'
  BY <1>20 DEF HandleProtect, Go, Rest
<1>21. ASSUME NEW p \in Hooked, Protect(p) PROVE TypeOK'
  BY <1>21 DEF Protect, Go, Rest
<1>22. ASSUME NEW r \in Requests, RequestLock(r) PROVE TypeOK'
  BY <1>22 DEF RequestLock, Go
<1>23. ASSUME NEW r \in Requests, RequestUnlock(r) PROVE TypeOK'
  BY <1>23 DEF RequestUnlock, Go
<1>24. CASE UNCHANGED vars
  BY <1>24 DEF vars
<1>. HIDE DEF Procs, Hooked, Handlers, TypeOK
<1>25. ASSUME NEW c \in Callers, startTUN(c) \/ stopTun(c) \/ CallerStep(c)
       PROVE TypeOK'
  BY <1>25, <1>1, <1>2, <1>3, <1>4, <1>5, <1>6, <1>7, <1>8, <1>9, <1>10,
     <1>11, <1>12, <1>13, <1>14, <1>15, <1>16
  DEF CallerStep, LockStep
<1>26. ASSUME NEW p \in Hooked, Dial(p) \/ HookStep(p) PROVE TypeOK'
  BY <1>26, <1>17, <1>18, <1>19, <1>20, <1>21 DEF HookStep
<1>. QED
  BY <1>25, <1>26, <1>22, <1>23, <1>24 DEF Next

(* Every reachable state of the handler is well typed.                     *)
THEOREM TypeCorrect == Spec => []TypeOK
<1>1. Init => TypeOK
  <2>. SUFFICES ASSUME Init PROVE TypeOK
    OBVIOUS
  <2>. USE DEF Init, Procs, Hooked, Handlers
  <2>1. queue \in [Handlers -> Seq(Procs)]
    OBVIOUS
  <2>2. callback \in [Handlers -> {"none", "held", "released"}]
        /\ listener \in [Handlers -> {"nil", "open"}]
    OBVIOUS
  <2>3. made \in 0 .. MaxStart /\ tunHandler \in 0 .. made
    OBVIOUS
  <2>. QED
    BY <2>1, <2>2, <2>3 DEF TypeOK
<1>. QED
  BY <1>1, TypeNext, PTL DEF Spec

-----------------------------------------------------------------------------
(* A caller inside handleStopTun or handleStartTun.                        *)
Locked == {"closeAcq", "clear", "stopUnlock", "startRun", "startAcq",
           "initHook", "tunStart", "startUnlock"}
(* A caller inside close() or start(), and one inside start().             *)
Working == {"closeAcq", "clear", "startRun", "startAcq", "initHook", "tunStart"}
InStart == {"startRun", "startAcq", "initHook", "tunStart"}

LockHeld   == \A c \in Callers : pc[c] \in Locked => tunLock = c
OnCurrent  == \A c \in Callers :
                 pc[c] \in Working => th[c] = tunHandler /\ tunHandler # 0
StartHolds == \A c \in Callers :
                 pc[c] \in InStart => callback[th[c]] = "held"
HookNeeds  == /\ hook => tunHandler # 0
              /\ \A p \in Hooked : pc[p] = "hooked" => tunHandler # 0
              /\ \A p \in Hooked : pc[p] \in {"acq1", "in", "use"} => th[p] # 0
Apart      == \A p \in Hooked, c \in Callers :
                 pc[p] \in {"in", "use"} /\ pc[c] \in {"clear", "initHook", "tunStart"}
                   => th[p] # th[c]
OpenHeld   == \A h \in Handlers : listener[h] = "open" => callback[h] = "held"

Ownership == /\ LockHeld /\ OnCurrent /\ StartHolds
             /\ HookNeeds /\ Apart /\ OpenHeld /\ CallbackLive

(* Every step keeps the ownership of handlers.                             *)
LEMMA OwnershipNext == TypeOK /\ Ownership /\ [Next]_vars => Ownership'
<1>. SUFFICES ASSUME TypeOK, Ownership, [Next]_vars PROVE Ownership'
  OBVIOUS
<1>. USE DEF TypeOK, Procs, Hooked, Handlers, Locked, Working, InStart, Ownership,
             LockHeld, OnCurrent, StartHolds, HookNeeds, Apart, OpenHeld,
             CallbackLive
<1>1. ASSUME NEW c \in Callers, startTUN(c) PROVE Ownership'
  BY <1>1 DEF startTUN, Go
<1>2. ASSUME NEW c \in Callers, stopTun(c) PROVE Ownership'
  BY <1>2 DEF stopTun, Go
<1>3. ASSUME NEW c \in Callers, StopLock(c) PROVE Ownership'
  BY <1>3 DEF StopLock, Go, Enqueue
<1>4. ASSUME NEW c \in Callers, CloseAcquire(c) PROVE Ownership'
  BY <1>4 DEF CloseAcquire, Go, Dequeue, RoomForAll, Exclusive, Shared
<1>5. ASSUME NEW c \in Callers, CloseClear(c) PROVE Ownership'
  <2>1. LockHeld'
    BY <1>5 DEF CloseClear, Go, clear
  <2>2. OnCurrent'
    BY <1>5 DEF CloseClear, Go, clear
  <2>3. StartHolds'
    BY <1>5 DEF CloseClear, Go, clear
  <2>4. HookNeeds'
    BY <1>5 DEF CloseClear, Go, clear
  <2>5. Apart'
    BY <1>5 DEF CloseClear, Go, clear
  <2>6. OpenHeld'
    BY <1>5 DEF CloseClear, Go, clear
  <2>7. CallbackLive'
    BY <1>5 DEF CloseClear, Go, clear
  <2>. QED
    BY <2>1, <2>2, <2>3, <2>4, <2>5, <2>6, <2>7
<1>6. ASSUME NEW c \in Callers, StopUnlock(c) PROVE Ownership'
  BY <1>6 DEF StopUnlock, Go
<1>7. ASSUME NEW c \in Callers, StartLock(c) PROVE Ownership'
  BY <1>7 DEF StartLock, Go
<1>8. ASSUME NEW c \in Callers, StartLockNoFd(c) PROVE Ownership'
  BY <1>8 DEF StartLockNoFd, Go
<1>9. ASSUME NEW c \in Callers, StartRunLock(c) PROVE Ownership'
  BY <1>9 DEF StartRunLock, Go, Enqueue
<1>10. ASSUME NEW c \in Callers, StartAcquire(c) PROVE Ownership'
  BY <1>10 DEF StartAcquire, Go, Dequeue, RoomForAll, Exclusive, Shared
<1>11. ASSUME NEW c \in Callers, initHook(c) PROVE Ownership'
  BY <1>11 DEF initHook, Go
<1>12. ASSUME NEW c \in Callers, TunStarts(c) PROVE Ownership'
  BY <1>12 DEF TunStarts, Go
<1>13. ASSUME NEW c \in Callers, TunStartFails(c) PROVE Ownership'
  BY <1>13 DEF TunStartFails, Go, clear
<1>14. ASSUME NEW c \in Callers, StartUnlock(c) PROVE Ownership'
  BY <1>14 DEF StartUnlock, Go
<1>15. ASSUME NEW c \in Callers, After(c) PROVE Ownership'
  BY <1>15 DEF After, Go
<1>16. ASSUME NEW c \in Callers, AfterLocked(c) PROVE Ownership'
  BY <1>16 DEF AfterLocked, Go
<1>17. ASSUME NEW p \in Hooked, Dial(p) PROVE Ownership'
  BY <1>17 DEF Dial, Go, Rest
<1>18. ASSUME NEW p \in Hooked, HookCalls(p) PROVE Ownership'
  BY <1>18 DEF HookCalls, Go, Enqueue
<1>19. ASSUME NEW p \in Hooked, AcquireOne(p) PROVE Ownership'
  BY <1>19 DEF AcquireOne, Go, Dequeue, RoomForOne, Exclusive, Shared
<1>20. ASSUME NEW p \in Hooked, HandleProtect(p) PROVE Ownership'
  BY <1>20 DEF HandleProtect, Go, Rest
<1>21. ASSUME NEW p \in Hooked, Protect(p) PROVE Ownership'
  BY <1>21 DEF Protect, Go, Rest
<1>22. ASSUME NEW r \in Requests, RequestLock(r) PROVE Ownership'
  BY <1>22 DEF RequestLock, Go
<1>23. ASSUME NEW r \in Requests, RequestUnlock(r) PROVE Ownership'
  BY <1>23 DEF RequestUnlock, Go
<1>24. CASE UNCHANGED vars
  BY <1>24 DEF vars
<1>. HIDE DEF Procs, Hooked, Handlers, TypeOK, Ownership, LockHeld, OnCurrent, StartHolds, HookNeeds,
             Apart, OpenHeld, CallbackLive
<1>25. ASSUME NEW c \in Callers, startTUN(c) \/ stopTun(c) \/ CallerStep(c)
       PROVE Ownership'
  BY <1>25, <1>1, <1>2, <1>3, <1>4, <1>5, <1>6, <1>7, <1>8, <1>9, <1>10,
     <1>11, <1>12, <1>13, <1>14, <1>15, <1>16
  DEF CallerStep, LockStep
<1>26. ASSUME NEW p \in Hooked, Dial(p) \/ HookStep(p) PROVE Ownership'
  BY <1>26, <1>17, <1>18, <1>19, <1>20, <1>21 DEF HookStep
<1>. QED
  BY <1>25, <1>26, <1>22, <1>23, <1>24 DEF Next

(* The ownership of handlers holds in every reachable state.               *)
THEOREM OwnershipAlways == Spec => []Ownership
<1>1. Init => Ownership
  <2>. SUFFICES ASSUME Init PROVE Ownership
    OBVIOUS
  <2>. USE DEF Init, Procs, Hooked, Handlers, Locked, Working, InStart
  <2>1. LockHeld /\ OnCurrent /\ StartHolds
    BY DEF LockHeld, OnCurrent, StartHolds
  <2>2. HookNeeds /\ Apart
    BY DEF HookNeeds, Apart
  <2>3. OpenHeld /\ CallbackLive
    BY DEF OpenHeld, CallbackLive
  <2>. QED
    BY <2>1, <2>2, <2>3 DEF Ownership
<1>. QED
  BY <1>1, OwnershipNext, TypeCorrect, PTL DEF Spec

(* The hook only calls Java with a callback that has not been released, on *)
(* a handler whose listener is open.                                       *)
THEOREM CallbackLiveAlways == Spec => []CallbackLive
<1>1. Ownership => CallbackLive
  BY DEF Ownership
<1>. QED
  BY <1>1, OwnershipAlways, PTL
-----------------------------------------------------------------------------
(* With one calling thread, no callback is held once the old handler is    *)
(* closed, and none beyond the handlers made so far.                      *)
Unmade    == \A h \in Handlers : h > made => callback[h] = "none"
Between   == \A c \in Callers :
                pc[c] \in {"stopUnlock", "startLock"} =>
                    \A h \in Handlers : callback[h] # "held"
SoleOwner == Unmade /\ Between /\ OnlyCurrentHandler

(* Every step of a single calling thread keeps that.                       *)
LEMMA SoleOwnerNext ==
  ASSUME \A c, d \in Callers : c = d, TypeOK, Ownership, SoleOwner, [Next]_vars
  PROVE  SoleOwner'
<1>. USE DEF TypeOK, Procs, Hooked, Handlers, Working, Ownership, OnCurrent,
             OpenHeld, StartHolds, InStart, SoleOwner, Unmade, Between,
             OnlyCurrentHandler
<1>1. ASSUME NEW c \in Callers, startTUN(c) PROVE SoleOwner'
  BY <1>1 DEF startTUN, Go
<1>2. ASSUME NEW c \in Callers, stopTun(c) PROVE SoleOwner'
  BY <1>2 DEF stopTun, Go
<1>3. ASSUME NEW c \in Callers, StopLock(c) PROVE SoleOwner'
  BY <1>3 DEF StopLock, Go, Enqueue
<1>4. ASSUME NEW c \in Callers, CloseAcquire(c) PROVE SoleOwner'
  BY <1>4 DEF CloseAcquire, Go, Dequeue, RoomForAll, Exclusive, Shared
<1>5. ASSUME NEW c \in Callers, CloseClear(c) PROVE SoleOwner'
  <2>1. Unmade'
    BY <1>5 DEF CloseClear, Go, clear
  <2>2. Between'
    BY <1>5 DEF CloseClear, Go, clear
  <2>3. OnlyCurrentHandler'
    BY <1>5 DEF CloseClear, Go, clear
  <2>. QED
    BY <2>1, <2>2, <2>3
<1>6. ASSUME NEW c \in Callers, StopUnlock(c) PROVE SoleOwner'
  BY <1>6 DEF StopUnlock, Go
<1>7. ASSUME NEW c \in Callers, StartLock(c) PROVE SoleOwner'
  <2>1. Unmade'
    BY <1>7 DEF StartLock, Go
  <2>2. Between'
    BY <1>7 DEF StartLock, Go
  <2>3. OnlyCurrentHandler'
    BY <1>7 DEF StartLock, Go
  <2>. QED
    BY <2>1, <2>2, <2>3
<1>8. ASSUME NEW c \in Callers, StartLockNoFd(c) PROVE SoleOwner'
  BY <1>8 DEF StartLockNoFd, Go
<1>9. ASSUME NEW c \in Callers, StartRunLock(c) PROVE SoleOwner'
  BY <1>9 DEF StartRunLock, Go, Enqueue
<1>10. ASSUME NEW c \in Callers, StartAcquire(c) PROVE SoleOwner'
  BY <1>10 DEF StartAcquire, Go, Dequeue, RoomForAll, Exclusive, Shared
<1>11. ASSUME NEW c \in Callers, initHook(c) PROVE SoleOwner'
  BY <1>11 DEF initHook, Go
<1>12. ASSUME NEW c \in Callers, TunStarts(c) PROVE SoleOwner'
  BY <1>12 DEF TunStarts, Go
<1>13. ASSUME NEW c \in Callers, TunStartFails(c) PROVE SoleOwner'
  BY <1>13 DEF TunStartFails, Go, clear
<1>14. ASSUME NEW c \in Callers, StartUnlock(c) PROVE SoleOwner'
  BY <1>14 DEF StartUnlock, Go
<1>15. ASSUME NEW c \in Callers, After(c) PROVE SoleOwner'
  BY <1>15 DEF After, Go
<1>16. ASSUME NEW c \in Callers, AfterLocked(c) PROVE SoleOwner'
  BY <1>16 DEF AfterLocked, Go
<1>17. ASSUME NEW p \in Hooked, Dial(p) PROVE SoleOwner'
  BY <1>17 DEF Dial, Go, Rest
<1>18. ASSUME NEW p \in Hooked, HookCalls(p) PROVE SoleOwner'
  BY <1>18 DEF HookCalls, Go, Enqueue
<1>19. ASSUME NEW p \in Hooked, AcquireOne(p) PROVE SoleOwner'
  BY <1>19 DEF AcquireOne, Go, Dequeue, RoomForOne, Exclusive, Shared
<1>20. ASSUME NEW p \in Hooked, HandleProtect(p) PROVE SoleOwner'
  BY <1>20 DEF HandleProtect, Go, Rest
<1>21. ASSUME NEW p \in Hooked, Protect(p) PROVE SoleOwner'
  BY <1>21 DEF Protect, Go, Rest
<1>22. ASSUME NEW r \in Requests, RequestLock(r) PROVE SoleOwner'
  BY <1>22 DEF RequestLock, Go
<1>23. ASSUME NEW r \in Requests, RequestUnlock(r) PROVE SoleOwner'
  BY <1>23 DEF RequestUnlock, Go
<1>24. CASE UNCHANGED vars
  BY <1>24 DEF vars
<1>. HIDE DEF Procs, Hooked, Handlers, TypeOK, Ownership, OnCurrent, OpenHeld,
             StartHolds, SoleOwner, Unmade, Between, OnlyCurrentHandler
<1>25. ASSUME NEW c \in Callers, startTUN(c) \/ stopTun(c) \/ CallerStep(c)
       PROVE SoleOwner'
  BY <1>25, <1>1, <1>2, <1>3, <1>4, <1>5, <1>6, <1>7, <1>8, <1>9, <1>10,
     <1>11, <1>12, <1>13, <1>14, <1>15, <1>16
  DEF CallerStep, LockStep
<1>26. ASSUME NEW p \in Hooked, Dial(p) \/ HookStep(p) PROVE SoleOwner'
  BY <1>26, <1>17, <1>18, <1>19, <1>20, <1>21 DEF HookStep
<1>. QED
  BY <1>25, <1>26, <1>22, <1>23, <1>24 DEF Next

(* With one thread at a time in startTUN and stopTun, only the current     *)
(* handler holds a callback, and an open listener has its callback.        *)
THEOREM OnlyCurrentAlways ==
  ASSUME \A c, d \in Callers : c = d
  PROVE  Spec => []OnlyCurrentHandler
<1>1. Init => SoleOwner
  BY DEF Init, SoleOwner, Unmade, Between, OnlyCurrentHandler, Handlers
<1>2. TypeOK /\ Ownership /\ SoleOwner /\ [Next]_vars => SoleOwner'
  BY SoleOwnerNext
<1>3. SoleOwner => OnlyCurrentHandler
  BY DEF SoleOwner
<1>. QED
  BY <1>1, <1>2, <1>3, OwnershipAlways, TypeCorrect, PTL DEF Spec
-----------------------------------------------------------------------------
(* With one calling thread, nothing of a handler is left once close() has   *)
(* returned, until a start makes a new one; only a start is ever at the     *)
(* steps of a start.                                                        *)
Released == (\A h \in Handlers : callback[h] # "held") /\ ~hook
Closed   == {"stopUnlock", "after", "unlisten", "idle"}
OfStart  == {"startLock", "startRun", "startAcq", "initHook", "tunStart",
             "startUnlock", "listen", "reset"}
StartOnly == \A c \in Callers : pc[c] \in OfStart => op[c] = "start"
AllClosed == \A c \in Callers : op[c] = "stop" /\ pc[c] \in Closed
Stopped   == StartOnly /\ (AllClosed => Released)

(* Every step of a single calling thread keeps that.                        *)
LEMMA StoppedNext ==
  ASSUME \A c, d \in Callers : c = d, TypeOK, Ownership, SoleOwner, Stopped, [Next]_vars
  PROVE  Stopped'
<1>. USE DEF TypeOK, Procs, Hooked, Stopped, Released, Closed, OfStart, StartOnly,
             AllClosed, Go
<1>1. ASSUME NEW c \in Callers, startTUN(c) \/ stopTun(c) PROVE Stopped'
  <2>1. pc' = [pc EXCEPT ![c] = "stopLock"] /\ c \in Procs
    BY <1>1 DEF startTUN, stopTun
  <2>2. \A d \in Callers : pc'[d] = "stopLock"
    BY <2>1
  <2>. QED
    BY <2>2
<1>2. ASSUME NEW c \in Callers, StopLock(c) PROVE Stopped'
  <2>1. CASE tunHandler # 0
    <3>1. pc' = [pc EXCEPT ![c] = "closeAcq"] /\ c \in Procs
      BY <1>2, <2>1 DEF StopLock
    <3>2. \A d \in Callers : pc'[d] = "closeAcq"
      BY <3>1
    <3>. QED
      BY <3>2
  <2>2. CASE tunHandler = 0
    <3>1. Released
      BY <2>2 DEF Ownership, HookNeeds, SoleOwner, Unmade, OnlyCurrentHandler, Handlers
    <3>. QED
      BY <1>2, <2>2, <3>1 DEF StopLock
  <2>. QED
    BY <2>1, <2>2
<1>3. ASSUME NEW c \in Callers, CloseAcquire(c) PROVE Stopped'
  BY <1>3 DEF CloseAcquire
<1>4. ASSUME NEW c \in Callers, CloseClear(c) PROVE Stopped'
  <2>1. th[c] = tunHandler /\ tunHandler \in Handlers
    BY <1>4 DEF CloseClear, Ownership, OnCurrent, Working, Handlers
  <2>2. \A h \in Handlers : callback[h] = "held" => h = tunHandler
    BY DEF SoleOwner, Unmade, OnlyCurrentHandler, Handlers
  <2>3. Released'
    BY <1>4, <2>1, <2>2 DEF CloseClear, clear
  <2>. QED
    BY <1>4, <2>3 DEF CloseClear
<1>5. ASSUME NEW c \in Callers, StopUnlock(c) \/ After(c) \/ AfterLocked(c) PROVE Stopped'
  <2>1. UNCHANGED <<callback, hook, op>> /\ pc[c] \in Closed \cup OfStart
    BY <1>5 DEF StopUnlock, After, AfterLocked
  <2>2. op[c] = "start" \/ (op[c] = "stop" /\ pc[c] \in Closed /\ pc'[c] \in Closed)
    BY <1>5 DEF StopUnlock, After, AfterLocked
  <2>3. \A d \in Callers : d = c
    OBVIOUS
  <2>. QED
    BY <2>1, <2>2, <2>3
<1>6. ASSUME NEW c \in Callers,
             \/ StartLock(c) \/ StartLockNoFd(c) \/ StartRunLock(c) \/ StartAcquire(c)
             \/ initHook(c) \/ TunStarts(c) \/ TunStartFails(c) \/ StartUnlock(c)
      PROVE  Stopped'
  <2>1. op[c] = "start" /\ op' = op
    BY <1>6 DEF StartLock, StartLockNoFd, StartRunLock, StartAcquire, initHook,
                TunStarts, TunStartFails, StartUnlock
  <2>2. \A d \in Callers : op'[d] = "start"
    BY <2>1
  <2>. QED
    BY <2>2
<1>7. ASSUME NEW p \in Hooked, Dial(p) \/ HookStep(p) PROVE Stopped'
  <2>1. UNCHANGED <<callback, hook, op>> /\ \A c \in Callers : pc'[c] = pc[c]
    BY <1>7 DEF Dial, HookStep, HookCalls, AcquireOne, HandleProtect, Protect
  <2>. QED
    BY <2>1
<1>8. ASSUME NEW r \in Requests, RequestLock(r) \/ RequestUnlock(r) PROVE Stopped'
  <2>1. UNCHANGED <<callback, hook, op>> /\ \A c \in Callers : pc'[c] = pc[c]
    BY <1>8 DEF RequestLock, RequestUnlock
  <2>. QED
    BY <2>1
<1>9. CASE UNCHANGED vars
  BY <1>9 DEF vars
<1>. QED
  BY <1>1, <1>2, <1>3, <1>4, <1>5, <1>6, <1>7, <1>8, <1>9 DEF Next, CallerStep, LockStep

(* With one thread at a time in startTUN and stopTun, a stop that is not    *)
(* followed by a start leaves no callback, no listener and no hook.         *)
THEOREM StopReleasesAlways ==
  ASSUME \A c, d \in Callers : c = d
  PROVE  Spec => []StopReleases
<1>1. Init => SoleOwner /\ Stopped
  BY DEF Init, SoleOwner, Unmade, Between, OnlyCurrentHandler, Handlers, Stopped,
         StartOnly, AllClosed, Released, OfStart, Procs
<1>2. TypeOK /\ Ownership /\ SoleOwner /\ [Next]_vars => SoleOwner'
  BY SoleOwnerNext
<1>3. TypeOK /\ Ownership /\ SoleOwner /\ Stopped /\ [Next]_vars => Stopped'
  BY StoppedNext
<1>4. TypeOK /\ Ownership /\ Stopped => StopReleases
  BY DEF TypeOK, Ownership, OpenHeld, Stopped, AllClosed, Released, Closed, StopReleases
<1>. QED
  BY <1>1, <1>2, <1>3, <1>4, OwnershipAlways, TypeCorrect, PTL DEF Spec
=============================================================================
