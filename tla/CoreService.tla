----------------------------- MODULE CoreService -----------------------------
(***************************************************************************)
(* The life of the core process on Linux and macOS, as the Dart side runs  *)
(* it: CoreAction.connectCore and restartCore (lib/providers/action.dart), *)
(* CoreService.start, shutdown and invoke (lib/core/service.dart), the     *)
(* frames and the completers of IPCCoreTransport (lib/core/transport.dart) *)
(* and CoreManager.onCrash (lib/manager/core_manager.dart).                *)
(*                                                                         *)
(* Dart runs one event at a time and drains its microtasks before the next *)
(* event: an action is the code between two awaits that may really wait,   *)
(* and an event needs ~Pending.  A completer is a number; a new one is one *)
(* more than the last.                                                     *)
(***************************************************************************)
EXTENDS Naturals, Sequences, FiniteSets

CONSTANTS
    Restarts,   \* calls of restartCore
    Boot,       \* the call of connectCore in GlobalState._initApp
    Invokes,    \* calls of CoreHandlerInterface._invoke
    MaxProc,    \* bound: core processes started
    Overlap,    \* a restart may be asked for while a call is under way
    Faults      \* what may go wrong: a subset of AllFaults

Calls     == Restarts \cup {Boot}
Procs     == 1 .. MaxProc
AllFaults == {"spawn",   \* Process.start throws
              "dial",    \* the core cannot reach the socket and panics
              "early",   \* a core dies before the status says connected
              "late"}    \* a core dies while the status says connected

ASSUME CoreAssumption ==
    /\ MaxProc \in Nat /\ Boot \notin Restarts
    /\ Invokes \cap {"connected", "disconnected"} = {}
    /\ Overlap \in BOOLEAN /\ Faults \subseteq AllFaults

VARIABLES
    status,       \* coreStatusProvider
    process,      \* CoreService._process, 0 is null
    completer, completed,     \* transport completer: the last one, those done
    shutter, shut,            \* _shutdownCompleter: the last one, those done
    crash,        \* crash events on their way to onCrash
    pc, await,    \* per call: next step, the completer it awaits
    child,        \* per call: the process it is starting, 0 for none
    made, core,   \* processes started so far, the state of each
    killed,       \* processes that were sent a signal
    backlog, serving, frames, \* the IPC server: waiting, served, to Dart
    inv,          \* per invoke: at the gate, open in _callbackCompleterMap,
                  \*   or completed with data or null
    gate,         \* per invoke: the completer it awaits first
    to,           \* per invoke: the core that has it to answer, 0 for none
    excused,      \* history: what has happened that the code does not expect
    blind,        \* history: connectCore said connected with no connection
    missed        \* history: invokes open when a crash event was dropped

dart   == <<status, process, completer, completed, shutter, shut, crash>>
calls  == <<pc, await, child>>
cores  == <<made, core, killed>>
server == <<backlog, serving, frames>>
invs   == <<inv, gate, to>>
history == <<excused, blind, missed>>
vars   == <<dart, calls, cores, server, invs, history>>

TypeDart ==
    /\ status \in {"connecting", "connected", "disconnected"}
    /\ process \in 0 .. made /\ crash \in Nat
    /\ completer \in Nat /\ completed \subseteq 0 .. completer
    /\ shutter \in Nat /\ shut \subseteq 0 .. shutter
TypeCalls ==
    /\ pc \in [Calls -> {"idle", "shut", "connect", "spawn", "spawned", "await",
                         "delay", "done"}]
    /\ await \in [Calls -> Nat] /\ child \in [Calls -> 0 .. made]
TypeCores ==
    /\ made \in 0 .. MaxProc /\ killed \subseteq 1 .. made
    /\ core \in [Procs -> {"none", "started", "dialed", "dead"}]
TypeServer ==
    /\ backlog \in Seq(Procs) /\ serving \in 0 .. MaxProc
    /\ frames \in Seq({"connected", "disconnected"} \cup Invokes)
TypeInvokes ==
    /\ inv \in [Invokes -> {"idle", "gate", "open", "data", "null"}]
    /\ gate \in [Invokes -> 0 .. completer]
    /\ to \in [Invokes -> 0 .. MaxProc]
TypeHistory ==
    /\ excused \subseteq {"overlap", "double", "spawn", "early"}
    /\ blind \in BOOLEAN /\ missed \subseteq Invokes
TypeOK == TypeDart /\ TypeCalls /\ TypeCores /\ TypeServer /\ TypeInvokes /\ TypeHistory

Init ==
    /\ status = "connecting" /\ process = 0
    /\ completer = 0 /\ completed = {} /\ shutter = 0 /\ shut = {} /\ crash = 0
    /\ pc = [c \in Calls |-> "idle"] /\ await = [c \in Calls |-> 0]
    /\ child = [c \in Calls |-> 0]
    /\ made = 0 /\ core = [p \in Procs |-> "none"] /\ killed = {}
    /\ backlog = <<>> /\ serving = 0 /\ frames = <<>>
    /\ inv = [i \in Invokes |-> "idle"] /\ gate = [i \in Invokes |-> 0]
    /\ to = [i \in Invokes |-> 0]
    /\ excused = {} /\ blind = FALSE /\ missed = {}

Live(p)   == core[p] \in {"started", "dialed"}
Go(c, s)  == pc' = [pc EXCEPT ![c] = s]

(* Microtasks that are ready: they run before the next event.              *)
Pending == \/ crash > 0
           \/ \E c \in Calls : \/ pc[c] = "shut" /\ await[c] \in shut
                               \/ pc[c] = "await" /\ await[c] \in completed
                               \/ pc[c] = "connect"
           \/ \E i \in Invokes : inv[i] = "gate" /\ gate[i] \in completed

-----------------------------------------------------------------------------
(* CoreService._clearCompleter                                             *)
_clearCompleter == inv' = [i \in Invokes |-> IF inv[i] = "open" THEN "null" ELSE inv[i]]

(* mutants: the process is forgotten, not killed; the open invokes stay *)
shutdown_NoKill ==
    /\ shutter' = shutter + 1 /\ completer' = completer + 1
    /\ process' = 0 /\ UNCHANGED killed
    /\ _clearCompleter
shutdown_NoClear ==
    /\ shutter' = shutter + 1 /\ completer' = completer + 1
    /\ killed' = IF process = 0 THEN killed ELSE killed \cup {process}
    /\ process' = 0 /\ UNCHANGED inv

(* CoreService.shutdown: a new shutdown completer, a new transport         *)
(* completer, the process is killed and forgotten, and every open invoke   *)
(* completes with null.                                                    *)
shutdown ==
    /\ shutter' = shutter + 1 /\ completer' = completer + 1
    /\ killed' = IF process = 0 THEN killed ELSE killed \cup {process}
    /\ process' = 0
    /\ _clearCompleter

Quiet == \A c \in Calls : pc[c] \in {"idle", "done"}

(* From connectCore's look at _process to the assignment of a new one.     *)
Starts(c) == pc[c] \in {"spawn", "spawned"}

(* History: a start that finds another one under way, and a status other   *)
(* than connected, which is never blind.                                   *)
Excuse(what, when) == excused' = IF when THEN excused \cup {what} ELSE excused
Sees == blind' = FALSE /\ UNCHANGED missed

(* GlobalState._initApp calls connectCore first.                           *)
boot ==
    /\ pc[Boot] = "idle" /\ ~Pending
    /\ Go(Boot, "connect")
    /\ UNCHANGED <<dart, await, child, cores, server, invs, history>>

(* mutant: restartCore never waits for the disconnection *)
restartCore_NoWait(c) ==
    /\ pc[c] = "idle" /\ pc[Boot] # "idle" /\ ~Pending
    /\ Overlap \/ Quiet
    /\ status' = "disconnected"
    /\ shutdown
    /\ Go(c, "connect")
    /\ Excuse("overlap", ~Quiet) /\ Sees
    /\ UNCHANGED <<completed, shut, crash, await, child, made, core, server, gate, to>>

(* restartCore: whether it waits for the disconnection depends on the      *)
(* status it found.                                                        *)
restartCore(c) ==
    /\ pc[c] = "idle" /\ pc[Boot] # "idle" /\ ~Pending
    /\ Overlap \/ Quiet
    /\ status' = "disconnected"
    /\ shutdown
    /\ IF status = "disconnected"
         THEN Go(c, "connect") /\ UNCHANGED await
         ELSE Go(c, "shut") /\ await' = [await EXCEPT ![c] = shutter']
    /\ Excuse("overlap", ~Quiet) /\ Sees
    /\ UNCHANGED <<completed, shut, crash, child, made, core, server, gate, to>>

ShutdownDone(c) ==
    /\ pc[c] = "shut" /\ await[c] \in shut
    /\ Go(c, "connect")
    /\ UNCHANGED <<dart, await, child, cores, server, invs, history>>

(* connectCore, then start up to Process.start: shut down what is there.   *)
connectCore(c) ==
    /\ pc[c] = "connect"
    /\ status' = "connecting"
    /\ IF process # 0 THEN shutdown
         ELSE UNCHANGED <<shutter, completer, killed, process, inv>>
    /\ Go(c, "spawn")
    /\ Excuse("double", \E d \in Calls : Starts(d)) /\ Sees
    /\ UNCHANGED <<completed, shut, crash, await, child, made, core, server, gate, to>>

(* mutant: the counter of processes stays *)
Spawn_NotCounted(c) ==
    /\ pc[c] = "spawn" /\ made < MaxProc
    /\ core' = [core EXCEPT ![made + 1] = "started"]
    /\ child' = [child EXCEPT ![c] = made + 1]
    /\ Go(c, "spawned")
    /\ UNCHANGED <<dart, await, made, killed, server, invs, history>>

(* Process.start: the process runs before the future completes.            *)
Spawn(c) ==
    /\ pc[c] = "spawn" /\ made < MaxProc
    /\ made' = made + 1
    /\ core' = [core EXCEPT ![made + 1] = "started"]
    /\ child' = [child EXCEPT ![c] = made + 1]
    /\ Go(c, "spawned")
    /\ UNCHANGED <<dart, await, killed, server, invs, history>>

SpawnFails(c) ==
    /\ pc[c] = "spawn" /\ "spawn" \in Faults /\ ~Pending
    /\ crash' = crash + 1
    /\ Go(c, "delay")
    /\ Excuse("spawn", TRUE)
    /\ UNCHANGED <<status, process, completer, completed, shutter, shut, await,
                   child, cores, server, invs, blind, missed>>

(* The rest of start: it awaits the completer that is current now.         *)
Spawned(c) ==
    /\ pc[c] = "spawned" /\ ~Pending
    /\ process' = child[c]
    /\ child' = [child EXCEPT ![c] = 0]
    /\ await' = [await EXCEPT ![c] = completer]
    /\ Go(c, "await")
    /\ UNCHANGED <<status, completer, completed, shutter, shut, crash, cores, server,
                   invs, history>>

StartDone(c) ==
    /\ pc[c] = "await" /\ await[c] \in completed
    /\ Go(c, "delay")
    /\ UNCHANGED <<dart, await, child, cores, server, invs, history>>

(* preload has returned and 300 ms have passed.  connectCore does not look *)
(* whether the connection of now is made: it is blind when it is not.      *)
Connected(c) ==
    /\ pc[c] = "delay" /\ ~Pending
    /\ status' = "connected"
    /\ Go(c, "done")
    /\ blind' = (completer \notin completed)
    /\ UNCHANGED <<process, completer, completed, shutter, shut, crash, await,
                   child, cores, server, invs, excused, missed>>

-----------------------------------------------------------------------------
(* Frames of the IPC server.                                               *)
OnConnected ==
    /\ frames # <<>> /\ Head(frames) = "connected" /\ ~Pending
    /\ frames' = Tail(frames)
    /\ completed' = completed \cup {completer}
    /\ UNCHANGED <<status, process, completer, shutter, shut, crash, calls, cores,
                   backlog, serving, invs, history>>

(* mutant: onDisconnect sends no crash event *)
OnDisconnected_NoCrash ==
    /\ frames # <<>> /\ Head(frames) = "disconnected" /\ ~Pending
    /\ frames' = Tail(frames)
    /\ completer' = completer + 1
    /\ shut' = shut \cup {shutter}
    /\ UNCHANGED <<status, process, completed, shutter, crash, calls, cores, backlog,
                   serving, invs, history>>

OnDisconnected ==
    /\ frames # <<>> /\ Head(frames) = "disconnected" /\ ~Pending
    /\ frames' = Tail(frames)
    /\ completer' = completer + 1
    /\ crash' = crash + 1
    /\ shut' = shut \cup {shutter}
    /\ UNCHANGED <<status, process, completed, shutter, calls, cores, backlog, serving,
                   invs, history>>

(* CoreManager.onCrash: only when the status says connected.               *)
onCrash ==
    /\ crash > 0
    /\ crash' = crash - 1
    /\ IF status = "connected"
         THEN status' = "disconnected" /\ shutdown /\ Sees
         ELSE /\ missed' = missed \cup {i \in Invokes : inv[i] = "open"}
              /\ UNCHANGED <<status, shutter, completer, killed, process, inv, blind>>
    /\ UNCHANGED <<completed, shut, calls, made, core, server, gate, to, excused>>

-----------------------------------------------------------------------------
(* _invoke awaits the connection for ten seconds; invoke then registers a  *)
(* completer and sends, to whatever core is served at that moment.         *)
_invoke(i) ==
    /\ inv[i] = "idle" /\ ~Pending
    /\ inv' = [inv EXCEPT ![i] = "gate"]
    /\ gate' = [gate EXCEPT ![i] = completer]
    /\ UNCHANGED <<dart, calls, cores, server, to, history>>

GateTimeout(i) ==
    /\ inv[i] = "gate" /\ ~Pending
    /\ inv' = [inv EXCEPT ![i] = "null"]
    /\ UNCHANGED <<dart, calls, cores, server, gate, to, history>>

invoke(i) ==
    /\ inv[i] = "gate" /\ gate[i] \in completed
    /\ inv' = [inv EXCEPT ![i] = "open"]
    /\ to' = [to EXCEPT ![i] = serving]
    /\ UNCHANGED <<dart, calls, cores, server, gate, history>>

(* withTimeout: three minutes *)
InvokeTimeout(i) ==
    /\ inv[i] = "open" /\ ~Pending
    /\ inv' = [inv EXCEPT ![i] = "null"]
    /\ UNCHANGED <<dart, calls, cores, server, gate, to, history>>

(* mutant: handleResult does not look whether the invoke has completed *)
handleResult_NoCheck(i) ==
    /\ frames # <<>> /\ Head(frames) = i /\ ~Pending
    /\ frames' = Tail(frames)
    /\ inv' = [inv EXCEPT ![i] = "data"]
    /\ UNCHANGED <<dart, calls, cores, backlog, serving, gate, to, history>>

(* handleResult: an answer to an invoke that has completed is dropped.     *)
handleResult(i) ==
    /\ frames # <<>> /\ Head(frames) = i /\ ~Pending
    /\ frames' = Tail(frames)
    /\ inv' = [inv EXCEPT ![i] = IF @ = "open" THEN "data" ELSE @]
    /\ UNCHANGED <<dart, calls, cores, backlog, serving, gate, to, history>>

CoreAnswers(i) ==
    /\ to[i] # 0 /\ serving = to[i] /\ Live(to[i])
    /\ to' = [to EXCEPT ![i] = 0]
    /\ frames' = Append(frames, i)
    /\ UNCHANGED <<dart, calls, cores, backlog, serving, inv, gate, history>>

-----------------------------------------------------------------------------
(* The core: it dials once, serves until it dies, and stops when killed.   *)
dial(p) ==
    /\ core[p] = "started"
    /\ core' = [core EXCEPT ![p] = "dialed"]
    /\ backlog' = Append(backlog, p)
    /\ UNCHANGED <<dart, calls, made, killed, serving, frames, invs, history>>

Dies(p) ==
    /\ Live(p)
    /\ \/ p \in killed
       \/ "dial"  \in Faults /\ core[p] = "started"
       \/ "early" \in Faults /\ status # "connected"
       \/ "late"  \in Faults /\ status = "connected"
    /\ core' = [core EXCEPT ![p] = "dead"]
    /\ Excuse("early", p \notin killed /\ core[p] = "dialed" /\ status # "connected")
    /\ UNCHANGED <<dart, calls, made, killed, server, invs, blind, missed>>

(* The IPC server serves one connection at a time.                         *)
Accept ==
    /\ serving = 0 /\ backlog # <<>>
    /\ serving' = Head(backlog) /\ backlog' = Tail(backlog)
    /\ frames' = Append(frames, "connected")
    /\ UNCHANGED <<dart, calls, cores, invs, history>>

HangUp ==
    /\ serving # 0 /\ core[serving] = "dead"
    /\ serving' = 0
    /\ frames' = Append(frames, "disconnected")
    /\ UNCHANGED <<dart, calls, cores, backlog, invs, history>>

-----------------------------------------------------------------------------
CallStep(c) == ShutdownDone(c) \/ connectCore(c) \/ Spawn(c) \/ SpawnFails(c)
                 \/ Spawned(c) \/ StartDone(c) \/ Connected(c)
InvokeStep(i) == \/ _invoke(i) \/ GateTimeout(i) \/ invoke(i)
                 \/ InvokeTimeout(i) \/ CoreAnswers(i)
Dart == OnConnected \/ OnDisconnected \/ onCrash \/ \E i \in Invokes : handleResult(i)

Next ==
    \/ boot \/ Dart \/ Accept \/ HangUp
    \/ \E c \in Restarts : restartCore(c)
    \/ \E c \in Calls : CallStep(c)
    \/ \E p \in Procs : dial(p) \/ Dies(p)
    \/ \E i \in Invokes : InvokeStep(i)

Spec == Init /\ [][Next]_vars

(* Dart runs every event that is due; a core that is not killed dials, a   *)
(* killed one dies, and the io thread accepts and notices the end.         *)
Fairness ==
    /\ WF_vars(Dart) /\ WF_vars(Accept) /\ WF_vars(HangUp)
    /\ \A c \in Calls : WF_vars(CallStep(c))
    /\ \A i \in Invokes : WF_vars(invoke(i))
    /\ \A p \in Procs : WF_vars(dial(p)) /\ WF_vars(p \in killed /\ Dies(p))
FairSpec == Spec /\ Fairness

-----------------------------------------------------------------------------
(* No core is left running without an owner: a live core that was not sent *)
(* a signal is _process, or the one a call is starting right now.  It      *)
(* holds however restarts overlap and whatever fails, until two calls are  *)
(* between connectCore's look at _process and the assignment of the new    *)
(* one in start at once: then the second assignment drops a core.          *)
NoOrphan ==
    "double" \notin excused =>
        \A p \in 1 .. made :
            Live(p) /\ p \notin killed => p = process \/ \E c \in Calls : child[c] = p

(* An invoke completes once: an answer that comes after a timeout or a     *)
(* shutdown changes nothing.                                               *)
AnswerOnce ==
    [][\A i \in Invokes : inv[i] \in {"data", "null"} => inv'[i] = inv[i]]_vars

(* No invoke is left waiting for a core that is gone: it will be answered  *)
(* by the served core, or the end of that core is on its way.  It holds    *)
(* however restarts overlap and whatever fails, except for the invokes     *)
(* that were open when onCrash dropped the event, as the status did not    *)
(* say connected; and no event finds an open invoke and is dropped before  *)
(* a restart overlaps a call, a spawn fails, or a core that had dialed     *)
(* dies unasked while the status does not say connected.                   *)
Ending == "disconnected" \in {frames[n] : n \in 1 .. Len(frames)} \/ crash > 0
NoInvokeLeft ==
    \A i \in Invokes : inv[i] = "open" =>
        \/ to[i] # 0 /\ serving = to[i]
        \/ i \in {frames[n] : n \in 1 .. Len(frames)}
        \/ Ending
        \/ i \in missed /\ excused # {}

(* The status says connected only when a core is served, or its end is on  *)
(* its way.  It holds however restarts overlap and whatever fails, unless  *)
(* connectCore said so while the connection of that moment was not made;   *)
(* and until a restart overlaps a call, a spawn fails, or a core that had  *)
(* dialed dies unasked before the status says connected, connectCore does  *)
(* not, and the served core is _process.                                   *)
StatusTruthful ==
    status = "connected" =>
        \/ Ending
        \/ serving # 0 /\ (excused = {} => serving = process)
        \/ blind /\ excused # {}

(* connectCore and restartCore return (with MaxProc at least the number of *)
(* calls, the bound stops none).                                           *)
CallReturns == \A c \in Calls : pc[c] # "idle" ~> pc[c] = "done"

(* The death of a connected core is noticed.                               *)
CrashNoticed ==
    (status = "connected" /\ process # 0 /\ core[process] = "dead")
        ~> status # "connected"
=============================================================================
