----------------------------- MODULE TunHandler -----------------------------
(***************************************************************************)
(* The TUN handler of the Go core on Android, core/lib.go: startTUN and    *)
(* stopTun (called through JNI), the dialer hook that calls back into Java *)
(* (handleProtect, handleResolveProcess), and the locks they share:        *)
(* tunLock, runLock and the weighted semaphore `limit` of each handler.    *)
(*                                                                         *)
(* A handler is numbered by the call that created it; its number also      *)
(* stands for the JNI callback object it owns.  Core requests that hold    *)
(* runLock and dial while they do (a setup that loads providers) are       *)
(* processes of their own.                                                 *)
(***************************************************************************)
EXTENDS Naturals, Sequences, FiniteSets

CONSTANTS
    Callers,    \* threads that call startTUN and stopTun
    Dialers,    \* goroutines of the engine that open connections
    Requests,   \* request goroutines that dial while they hold runLock
    MaxStart,   \* bound: TunHandler objects created
    Limit,      \* weight of the semaphore, 4 in the code
    None

Procs    == Callers \cup Dialers \cup Requests
Hooked   == Dialers \cup Requests       \* processes that run the hook
Handlers == 1 .. MaxStart

ASSUME TunAssumption ==
    /\ MaxStart \in Nat /\ Limit \in Nat \ {0}
    /\ Callers \cap Hooked = {} /\ Dialers \cap Requests = {}
    /\ None \notin Procs
    /\ IsFiniteSet(Procs)

VARIABLES
    tunLock, runLock,     \* who holds the two mutexes
    tunHandler, made,     \* current handler (0 is nil), handlers made so far
    callback, listener,   \* per handler
    hook,                 \* DefaultSocketHook is installed
    isRunning,
    queue,                \* per handler: who waits for its semaphore, in order
    pc, th,               \* per process: next step, the handler it works on
    op                    \* per caller: "start" or "stop"

vars == <<tunLock, runLock, tunHandler, made, callback, listener, hook,
          isRunning, queue, pc, th, op>>

TypeOK ==
    /\ tunLock \in Callers \cup {None}
    /\ runLock \in Callers \cup Requests \cup {None}
    /\ made \in 0 .. MaxStart /\ tunHandler \in 0 .. made
    /\ callback \in [Handlers -> {"none", "held", "released"}]
    /\ listener \in [Handlers -> {"nil", "open"}]
    /\ hook \in BOOLEAN /\ isRunning \in BOOLEAN
    /\ queue \in [Handlers -> Seq(Procs)]
    /\ pc \in [Procs -> {"idle", "stopLock", "closeAcq", "clear", "stopUnlock",
                         "startLock", "startRun", "startAcq", "initHook",
                         "tunStart", "startUnlock", "after", "listen", "reset",
                         "unlisten", "req", "hooked", "acq1", "in", "use"}]
    /\ th \in [Procs -> 0 .. made]
    /\ op \in [Callers -> {"start", "stop"}]

Init ==
    /\ tunLock = None /\ runLock = None
    /\ tunHandler = 0 /\ made = 0
    /\ callback = [h \in Handlers |-> "none"]
    /\ listener = [h \in Handlers |-> "nil"]
    /\ hook = FALSE /\ isRunning \in BOOLEAN
    /\ queue = [h \in Handlers |-> <<>>]
    /\ pc = [p \in Procs |-> "idle"] /\ th = [p \in Procs |-> 0]
    /\ op = [c \in Callers |-> "stop"]

-----------------------------------------------------------------------------
Go(p, step) == pc' = [pc EXCEPT ![p] = step]

(* semaphore.Weighted: waiters are served in order; a unit of weight 1 or  *)
(* the whole weight is granted to the first one when there is room.        *)
Exclusive(c, h) == pc[c] \in {"clear", "initHook", "tunStart"} /\ th[c] = h
Shared(p, h)    == pc[p] \in {"in", "use"} /\ th[p] = h
Enqueue(p, h)   == queue' = [queue EXCEPT ![h] = Append(@, p)]
Dequeue(p, h)   == /\ queue[h] # <<>> /\ Head(queue[h]) = p
                   /\ queue' = [queue EXCEPT ![h] = Tail(@)]
RoomForAll(h)   == /\ \A c \in Callers : ~Exclusive(c, h)
                   /\ \A p \in Hooked : ~Shared(p, h)
RoomForOne(h)   == /\ \A c \in Callers : ~Exclusive(c, h)
                   /\ Cardinality({p \in Hooked : Shared(p, h)}) < Limit

-----------------------------------------------------------------------------
(* startTUN and stopTun; both begin with handleStopTun.                    *)
(* a start that has not made its handler yet *)
Starting == {c \in Callers : op[c] = "start" /\
               pc[c] \in {"stopLock", "closeAcq", "clear", "stopUnlock", "startLock"}}

(* mutant: handleStartTun without handleStopTun *)
startTUN_NoStop(c) ==
    /\ pc[c] = "idle" /\ made + Cardinality(Starting) < MaxStart
    /\ op' = [op EXCEPT ![c] = "start"]
    /\ Go(c, "startLock")
    /\ UNCHANGED <<tunLock, runLock, tunHandler, made, callback, listener, hook,
                   isRunning, queue, th>>

startTUN(c) ==
    /\ pc[c] = "idle" /\ made + Cardinality(Starting) < MaxStart
    /\ op' = [op EXCEPT ![c] = "start"]
    /\ Go(c, "stopLock")
    /\ UNCHANGED <<tunLock, runLock, tunHandler, made, callback, listener, hook,
                   isRunning, queue, th>>

stopTun(c) ==
    /\ pc[c] = "idle"
    /\ op' = [op EXCEPT ![c] = "stop"]
    /\ Go(c, "stopLock")
    /\ UNCHANGED <<tunLock, runLock, tunHandler, made, callback, listener, hook,
                   isRunning, queue, th>>

(* handleStopTun takes tunLock; close() asks for the whole semaphore *)
StopLock(c) ==
    /\ pc[c] = "stopLock" /\ tunLock = None
    /\ tunLock' = c
    /\ th' = [th EXCEPT ![c] = tunHandler]
    /\ IF tunHandler # 0 THEN Enqueue(c, tunHandler) /\ Go(c, "closeAcq")
                         ELSE Go(c, "stopUnlock") /\ UNCHANGED queue
    /\ UNCHANGED <<runLock, tunHandler, made, callback, listener, hook, isRunning, op>>

(* mutant: close() asks for one unit only *)
CloseAcquire_One(c) ==
    /\ pc[c] = "closeAcq"
    /\ Dequeue(c, th[c]) /\ RoomForOne(th[c])
    /\ Go(c, "clear")
    /\ UNCHANGED <<tunLock, runLock, tunHandler, made, callback, listener, hook,
                   isRunning, th, op>>

CloseAcquire(c) ==
    /\ pc[c] = "closeAcq"
    /\ Dequeue(c, th[c]) /\ RoomForAll(th[c])
    /\ Go(c, "clear")
    /\ UNCHANGED <<tunLock, runLock, tunHandler, made, callback, listener, hook,
                   isRunning, th, op>>

(* mutant: the callback is not released *)
clear_KeepsCallback(h) ==
    /\ hook' = FALSE /\ UNCHANGED callback
    /\ listener' = [listener EXCEPT ![h] = "nil"]

(* TunHandler.clear: the hook, the listener and the callback go *)
clear(h) ==
    /\ hook' = FALSE
    /\ listener' = [listener EXCEPT ![h] = "nil"]
    /\ callback' = [callback EXCEPT ![h] = IF @ = "held" THEN "released" ELSE @]

CloseClear(c) ==
    /\ pc[c] = "clear"
    /\ clear(th[c])
    /\ Go(c, "stopUnlock")
    /\ UNCHANGED <<tunLock, runLock, tunHandler, made, isRunning, queue, th, op>>

StopUnlock(c) ==
    /\ pc[c] = "stopUnlock"
    /\ tunLock' = None
    /\ Go(c, IF op[c] = "start" THEN "startLock" ELSE "after")
    /\ UNCHANGED <<runLock, tunHandler, made, callback, listener, hook,
                   isRunning, queue, th, op>>

(* mutant: the counter of handlers stays *)
StartLock_NotCounted(c) ==
    /\ pc[c] = "startLock" /\ tunLock = None /\ made < MaxStart
    /\ tunLock' = c /\ tunHandler' = made + 1
    /\ Go(c, "startRun")
    /\ UNCHANGED <<runLock, made, callback, listener, hook, isRunning, queue, th, op>>

(* handleStartTun takes tunLock again and makes the new handler *)
StartLock(c) ==
    /\ pc[c] = "startLock" /\ tunLock = None /\ made < MaxStart
    /\ tunLock' = c
    /\ made' = made + 1 /\ tunHandler' = made + 1
    /\ callback' = [callback EXCEPT ![made + 1] = "held"]
    /\ th' = [th EXCEPT ![c] = made + 1]
    /\ Go(c, "startRun")
    /\ UNCHANGED <<runLock, listener, hook, isRunning, queue, op>>

(* fd = 0: no handler is made *)
StartLockNoFd(c) ==
    /\ pc[c] = "startLock" /\ tunLock = None
    /\ tunLock' = c
    /\ Go(c, "startUnlock")
    /\ UNCHANGED <<runLock, tunHandler, made, callback, listener, hook,
                   isRunning, queue, th, op>>

(* TunHandler.start: runLock first, then the whole semaphore *)
StartRunLock(c) ==
    /\ pc[c] = "startRun" /\ runLock = None
    /\ runLock' = c
    /\ Enqueue(c, th[c])
    /\ Go(c, "startAcq")
    /\ UNCHANGED <<tunLock, tunHandler, made, callback, listener, hook,
                   isRunning, th, op>>

StartAcquire(c) ==
    /\ pc[c] = "startAcq"
    /\ Dequeue(c, th[c]) /\ RoomForAll(th[c])
    /\ Go(c, "initHook")
    /\ UNCHANGED <<tunLock, runLock, tunHandler, made, callback, listener, hook,
                   isRunning, th, op>>

initHook(c) ==
    /\ pc[c] = "initHook"
    /\ hook' = TRUE
    /\ Go(c, "tunStart")
    /\ UNCHANGED <<tunLock, runLock, tunHandler, made, callback, listener,
                   isRunning, queue, th, op>>

(* t.Start; the semaphore and runLock are released on return *)
TunStarts(c) ==
    /\ pc[c] = "tunStart"
    /\ listener' = [listener EXCEPT ![th[c]] = "open"]
    /\ runLock' = None
    /\ Go(c, "startUnlock")
    /\ UNCHANGED <<tunLock, tunHandler, made, callback, hook, isRunning, queue, th, op>>

TunStartFails(c) ==
    /\ pc[c] = "tunStart"
    /\ clear(th[c])
    /\ runLock' = None
    /\ Go(c, "startUnlock")
    /\ UNCHANGED <<tunLock, tunHandler, made, isRunning, queue, th, op>>

StartUnlock(c) ==
    /\ pc[c] = "startUnlock"
    /\ tunLock' = None
    /\ Go(c, "after")
    /\ UNCHANGED <<runLock, tunHandler, made, callback, listener, hook,
                   isRunning, queue, th, op>>

(* isRunning is read without runLock to choose the call that follows *)
After(c) ==
    /\ pc[c] = "after"
    /\ Go(c, IF op[c] = "start" THEN IF isRunning THEN "reset" ELSE "listen"
                                ELSE IF isRunning THEN "unlisten" ELSE "idle")
    /\ UNCHANGED <<tunLock, runLock, tunHandler, made, callback, listener, hook,
                   isRunning, queue, th, op>>

(* handleStartListener, handleResetConnections, handleStopListener *)
AfterLocked(c) ==
    /\ pc[c] \in {"listen", "reset", "unlisten"} /\ runLock = None
    /\ isRunning' = CASE pc[c] = "listen" -> TRUE [] pc[c] = "unlisten" -> FALSE
                      [] OTHER -> isRunning
    /\ Go(c, "idle")
    /\ UNCHANGED <<tunLock, runLock, tunHandler, made, callback, listener, hook,
                   queue, th, op>>

-----------------------------------------------------------------------------
(* A dial: the engine reads the hook, the hook reads tunHandler.           *)
Rest(p) == IF p \in Requests THEN "req" ELSE "idle"

Dial(p) ==
    /\ pc[p] = Rest(p) /\ hook
    /\ Go(p, "hooked")
    /\ UNCHANGED <<tunLock, runLock, tunHandler, made, callback, listener, hook,
                   isRunning, queue, th, op>>

HookCalls(p) ==
    /\ pc[p] = "hooked"
    /\ th' = [th EXCEPT ![p] = tunHandler]
    /\ Enqueue(p, tunHandler)
    /\ Go(p, "acq1")
    /\ UNCHANGED <<tunLock, runLock, tunHandler, made, callback, listener, hook,
                   isRunning, op>>

AcquireOne(p) ==
    /\ pc[p] = "acq1"
    /\ Dequeue(p, th[p]) /\ RoomForOne(th[p])
    /\ Go(p, "in")
    /\ UNCHANGED <<tunLock, runLock, tunHandler, made, callback, listener, hook,
                   isRunning, th, op>>

(* mutant: the early return keeps its unit *)
HandleProtect_NoRelease(p) ==
    /\ pc[p] = "in" /\ listener[th[p]] # "nil"
    /\ Go(p, "use")
    /\ UNCHANGED <<tunLock, runLock, tunHandler, made, callback, listener, hook,
                   isRunning, queue, th, op>>

(* handleProtect, handleResolveProcess: nothing to do without a listener *)
HandleProtect(p) ==
    /\ pc[p] = "in"
    /\ Go(p, IF listener[th[p]] = "nil" THEN Rest(p) ELSE "use")
    /\ UNCHANGED <<tunLock, runLock, tunHandler, made, callback, listener, hook,
                   isRunning, queue, th, op>>

(* the call into Java with th.callback, then Release(1) *)
Protect(p) ==
    /\ pc[p] = "use"
    /\ Go(p, Rest(p))
    /\ UNCHANGED <<tunLock, runLock, tunHandler, made, callback, listener, hook,
                   isRunning, queue, th, op>>

(* A core request: takes runLock, may dial and change isRunning, releases. *)
RequestLock(r) ==
    /\ pc[r] = "idle" /\ runLock = None
    /\ runLock' = r
    /\ isRunning' \in BOOLEAN
    /\ Go(r, "req")
    /\ UNCHANGED <<tunLock, tunHandler, made, callback, listener, hook, queue, th, op>>

RequestUnlock(r) ==
    /\ pc[r] = "req"
    /\ runLock' = None
    /\ Go(r, "idle")
    /\ UNCHANGED <<tunLock, tunHandler, made, callback, listener, hook,
                   isRunning, queue, th, op>>

-----------------------------------------------------------------------------
LockStep(c)   == StopLock(c) \/ StartLock(c) \/ StartLockNoFd(c)
                   \/ StartRunLock(c) \/ AfterLocked(c)
CallerStep(c) ==
    \/ LockStep(c) \/ CloseAcquire(c) \/ CloseClear(c) \/ StopUnlock(c)
    \/ StartAcquire(c) \/ initHook(c) \/ TunStarts(c) \/ TunStartFails(c)
    \/ StartUnlock(c) \/ After(c)
HookStep(p)   == HookCalls(p) \/ AcquireOne(p) \/ HandleProtect(p) \/ Protect(p)

Next ==
    \/ \E c \in Callers : startTUN(c) \/ stopTun(c) \/ CallerStep(c)
    \/ \E p \in Hooked : Dial(p) \/ HookStep(p)
    \/ \E r \in Requests : RequestLock(r) \/ RequestUnlock(r)

Spec == Init /\ [][Next]_vars

(* Goroutines and threads keep running.  A blocked Lock is granted in the  *)
(* end: sync.Mutex hands the lock to the oldest waiter once it starves.    *)
(* A request dials finitely often, so it reaches its Unlock (SF).          *)
Fairness ==
    /\ \A c \in Callers : WF_vars(CallerStep(c)) /\ SF_vars(LockStep(c))
    /\ \A p \in Hooked : WF_vars(HookStep(p))
    /\ \A r \in Requests : SF_vars(RequestUnlock(r))
FairSpec == Spec /\ Fairness

-----------------------------------------------------------------------------
(* protect and resolveProcess are only called with a callback that has not *)
(* been released, on a handler whose listener is open (a call with a       *)
(* released JNI reference is undefined).                                   *)
CallbackLive ==
    \A p \in Hooked :
        pc[p] = "use" => callback[th[p]] = "held" /\ listener[th[p]] = "open"

(* An open listener always has its callback, and only the current handler  *)
(* has one while nobody is inside handleStartTun or handleStopTun, as long *)
(* as one thread at a time calls startTUN and stopTun.                     *)
OnlyCurrentHandler ==
    \A h \in 1 .. made :
        /\ listener[h] = "open" => callback[h] = "held"
        /\ callback[h] = "held" => h = tunHandler

(* Once stopTun has returned and no start follows, nothing of the handler  *)
(* is left: no callback, no listener, no hook.                             *)
StopReleases ==
    (\A c \in Callers : pc[c] = "idle" /\ op[c] = "stop") =>
        /\ \A h \in Handlers : callback[h] # "held" /\ listener[h] = "nil"
        /\ ~hook

(* startTUN and stopTun return, although start holds runLock while it      *)
(* waits for the semaphore and requests that hold runLock dial.            *)
CallReturns == \A c \in Callers : pc[c] = "stopLock" ~> pc[c] = "idle"
=============================================================================
