------------------------------ MODULE IpcServer ------------------------------
(***************************************************************************)
(* The desktop IPC server, plugins/rust_api/rust/src/api/ipc.rs: the       *)
(* process-wide statics, the control calls (restart_ipc_server,            *)
(* stop_ipc_server), send_ipc_message, one io_loop thread per generation   *)
(* and one writer thread per accepted client.  The client is the core      *)
(* process.  Every step is what one thread does between two points where   *)
(* another thread may run; only adjacent stores to statics that no other   *)
(* thread reads together are one step.                                     *)
(*                                                                         *)
(* Control calls come from one thread: lib/core/transport.dart awaits each *)
(* of them.  Sends come from another one.  Frame contents, the name of the *)
(* socket and the payloads are abstracted away.                            *)
(***************************************************************************)
EXTENDS Naturals, FiniteSets

CONSTANTS
    MaxGen,        \* bound: calls of restart_ipc_server
    MaxConn,       \* bound: clients that connect
    MaxSends,      \* bound: calls of send_ipc_message
    Unix,          \* cfg(unix): SHUTDOWN_FD and the socket file exist
    StopAllowed,   \* whether stop_ipc_server is called (transport.close)
    SinkMayClose   \* whether Dart drops its stream (exit, hot restart)

ASSUME IpcAssumption ==
    /\ MaxGen \in Nat \ {0} /\ MaxConn \in Nat /\ MaxSends \in Nat
    /\ Unix \in BOOLEAN /\ StopAllowed \in BOOLEAN /\ SinkMayClose \in BOOLEAN

Gens  == 1 .. MaxGen
Conns == 1 .. MaxConn
None  == 0                   \* no generation, no connection

VARIABLES
    RUNNING, CONNECTED,      \* the two AtomicBool
    LAST_ERROR,              \* a writer error waits for the next send
    GENERATION,              \* number of restarts so far
    SHUTDOWN_FD,             \* connection whose descriptor is saved
    tx, handle,              \* ServerState: sender's connection, io thread
    lock,                    \* STATE is held across a step (by stop only)
    ctl, joinee,             \* control thread: next step, thread it joins
    io, sess,                \* io_loop per generation: next step, its client
    sink, told,              \* Dart's stream: open?, last state frame sent
    sockFile,                \* generation that bound the socket path
    peer, at,                \* the client's end, the generation it dialled
    shut, fdOpen,            \* shutdown(2) done, server descriptor open
    wr, writer, writeErr,    \* `running` flag, writer thread, its error
    queue,                   \* messages waiting in the channel
    snd, sends               \* sending thread: next step, calls so far

statics == <<RUNNING, CONNECTED, LAST_ERROR, GENERATION, SHUTDOWN_FD>>
state   == <<tx, handle, lock>>
control == <<ctl, joinee>>
stream  == <<sink, told>>
conn    == <<peer, at, shut, fdOpen>>
writers == <<wr, writer, writeErr, queue>>
sender  == <<snd, sends>>
vars == <<statics, state, control, io, sess, stream, sockFile, conn, writers, sender>>

IoSteps == {"unborn", "start", "berr", "bstop", "loop", "accept", "fd", "tx",
            "flag", "hello", "read", "rend", "gen1", "untx", "join", "werr",
            "gen2", "bye", "exit", "stop1", "drop", "sock", "done"}
CtlSteps == {"idle", "r_fd", "r_flags", "r_take", "r_join", "r_spawn",
             "r_store", "s_fd", "s_flags", "s_lock", "s_join"}
TypeStatics ==
    /\ RUNNING \in BOOLEAN /\ CONNECTED \in BOOLEAN /\ LAST_ERROR \in BOOLEAN
    /\ GENERATION \in 0 .. MaxGen
    /\ SHUTDOWN_FD \in Conns \cup {None}
TypeControl ==
    /\ tx \in Conns \cup {None} /\ handle \in Gens \cup {None}
    /\ lock \in BOOLEAN
    /\ ctl \in CtlSteps /\ joinee \in Gens \cup {None}
TypeIo ==
    /\ io \in [Gens -> IoSteps] /\ sess \in [Gens -> Conns \cup {None}]
    /\ sink \in [Gens -> BOOLEAN]
    /\ told \in [Gens -> {"nothing", "ready", "connected", "disconnected"}]
    /\ sockFile \in Gens \cup {None}
TypeConn ==
    /\ peer \in [Conns -> {"none", "pending", "open", "closed"}]
    /\ at \in [Conns -> Gens \cup {None}]
    /\ shut \in [Conns -> BOOLEAN] /\ fdOpen \in [Conns -> BOOLEAN]
TypeWriters ==
    /\ wr \in [Conns -> BOOLEAN]
    /\ writer \in [Conns -> {"none", "top", "recv", "end"}]
    /\ writeErr \in [Conns -> BOOLEAN]
    /\ queue \in [Conns -> Nat]
TypeSender == snd \in {"idle", "err", "tx"} /\ sends \in 0 .. MaxSends
(* The statics, the thread steps, the connections and the channels hold    *)
(* values of their types.                                                  *)
TypeOK == TypeStatics /\ TypeControl /\ TypeIo /\ TypeConn /\ TypeWriters /\ TypeSender

Init ==
    /\ RUNNING = FALSE /\ CONNECTED = FALSE /\ LAST_ERROR = FALSE
    /\ GENERATION = 0 /\ SHUTDOWN_FD = None
    /\ tx = None /\ handle = None /\ lock = FALSE
    /\ ctl = "idle" /\ joinee = None
    /\ io = [g \in Gens |-> "unborn"] /\ sess = [g \in Gens |-> None]
    /\ sink = [g \in Gens |-> TRUE] /\ told = [g \in Gens |-> "nothing"]
    /\ sockFile = None
    /\ peer = [c \in Conns |-> "none"] /\ at = [c \in Conns |-> None]
    /\ shut = [c \in Conns |-> FALSE] /\ fdOpen = [c \in Conns |-> FALSE]
    /\ wr = [c \in Conns |-> FALSE] /\ writer = [c \in Conns |-> "none"]
    /\ writeErr = [c \in Conns |-> FALSE] /\ queue = [c \in Conns |-> 0]
    /\ snd = "idle" /\ sends = 0

is_current_gen(g) == GENERATION = g
Go(g, step) == io' = [io EXCEPT ![g] = step]

(* clients that dialled g's listener and are not accepted yet; they are    *)
(* reset when the listener is dropped                                      *)
Backlog(g, c)   == peer[c] = "pending" /\ at[c] = g
ResetBacklog(g) == [c \in Conns |-> IF Backlog(g, c) THEN "closed" ELSE peer[c]]

-----------------------------------------------------------------------------
(* shutdown_old_fd: take the saved descriptor and shut its socket down.    *)
shutdown_old_fd ==
    /\ SHUTDOWN_FD' = IF Unix THEN None ELSE SHUTDOWN_FD
    /\ shut' = IF Unix /\ SHUTDOWN_FD # None
                 THEN [shut EXCEPT ![SHUTDOWN_FD] = TRUE] ELSE shut

(* restart_ipc_server, one action per step. *)
RestartCall ==
    /\ ctl = "idle" /\ GENERATION < MaxGen
    /\ GENERATION' = GENERATION + 1
    /\ ctl' = "r_fd"
    /\ UNCHANGED <<RUNNING, CONNECTED, LAST_ERROR, SHUTDOWN_FD, state, joinee,
                   io, sess, stream, sockFile, conn, writers, sender>>

RestartFd ==
    /\ ctl = "r_fd"
    /\ shutdown_old_fd
    /\ ctl' = "r_flags"
    /\ UNCHANGED <<RUNNING, CONNECTED, LAST_ERROR, GENERATION, state, joinee,
                   io, sess, stream, sockFile, peer, at, fdOpen, writers, sender>>

RestartFlags ==
    /\ ctl = "r_flags"
    /\ RUNNING' = FALSE /\ CONNECTED' = FALSE
    /\ ctl' = "r_take"
    /\ UNCHANGED <<LAST_ERROR, GENERATION, SHUTDOWN_FD, state, joinee,
                   io, sess, stream, sockFile, conn, writers, sender>>

RestartTake ==
    /\ ctl = "r_take" /\ ~lock
    /\ tx' = None /\ handle' = None /\ joinee' = handle
    /\ ctl' = "r_join"
    /\ UNCHANGED <<statics, lock, io, sess, stream, sockFile, conn, writers, sender>>

(* mutant: the old io thread is not joined *)
RestartJoin_NoJoin ==
    /\ ctl = "r_join"
    /\ sockFile' = None /\ RUNNING' = TRUE /\ joinee' = None
    /\ ctl' = "r_spawn"
    /\ UNCHANGED <<CONNECTED, LAST_ERROR, GENERATION, SHUTDOWN_FD, state,
                   io, sess, stream, conn, writers, sender>>

(* join, then cleanup_socket and RUNNING = true before the spawn *)
RestartJoin ==
    /\ ctl = "r_join"
    /\ joinee # None => io[joinee] = "done"
    /\ sockFile' = IF Unix THEN None ELSE sockFile
    /\ RUNNING' = TRUE
    /\ joinee' = None
    /\ ctl' = "r_spawn"
    /\ UNCHANGED <<CONNECTED, LAST_ERROR, GENERATION, SHUTDOWN_FD, state,
                   io, sess, stream, conn, writers, sender>>

RestartSpawn ==
    /\ ctl = "r_spawn"
    /\ Go(GENERATION, "start")
    /\ ctl' = "r_store"
    /\ UNCHANGED <<statics, state, joinee, sess, stream, sockFile, conn, writers, sender>>

RestartSpawnFails ==
    /\ ctl = "r_spawn"
    /\ RUNNING' = FALSE
    /\ ctl' = "idle"
    /\ UNCHANGED <<CONNECTED, LAST_ERROR, GENERATION, SHUTDOWN_FD, state, joinee,
                   io, sess, stream, sockFile, conn, writers, sender>>

(* mutant: tx is reset when the handle is stored, after the spawn *)
RestartStore_ResetsTx ==
    /\ ctl = "r_store" /\ ~lock
    /\ tx' = None /\ handle' = GENERATION
    /\ ctl' = "idle"
    /\ UNCHANGED <<statics, lock, joinee, io, sess, stream, sockFile, conn, writers, sender>>

RestartStore ==
    /\ ctl = "r_store" /\ ~lock
    /\ handle' = GENERATION
    /\ ctl' = "idle"
    /\ UNCHANGED <<statics, tx, lock, joinee, io, sess, stream, sockFile, conn, writers, sender>>

-----------------------------------------------------------------------------
(* stop_ipc_server.  It does not touch GENERATION, and it joins the io     *)
(* thread while it holds the STATE lock.                                   *)
StopCall ==
    /\ StopAllowed
    /\ ctl = "idle" /\ RUNNING        \* else Err "not running", no change
    /\ ctl' = "s_fd"
    /\ UNCHANGED <<statics, state, joinee, io, sess, stream, sockFile, conn, writers, sender>>

StopFd ==
    /\ ctl = "s_fd"
    /\ shutdown_old_fd
    /\ ctl' = "s_flags"
    /\ UNCHANGED <<RUNNING, CONNECTED, LAST_ERROR, GENERATION, state, joinee,
                   io, sess, stream, sockFile, peer, at, fdOpen, writers, sender>>

StopFlags ==
    /\ ctl = "s_flags"
    /\ RUNNING' = FALSE /\ CONNECTED' = FALSE
    /\ ctl' = "s_lock"
    /\ UNCHANGED <<LAST_ERROR, GENERATION, SHUTDOWN_FD, state, joinee,
                   io, sess, stream, sockFile, conn, writers, sender>>

StopLock ==
    /\ ctl = "s_lock" /\ ~lock
    /\ lock' = TRUE
    /\ tx' = None /\ handle' = None /\ joinee' = handle
    /\ ctl' = "s_join"
    /\ UNCHANGED <<statics, io, sess, stream, sockFile, conn, writers, sender>>

(* mutant: the io thread is detached instead of joined *)
StopJoin_Detach ==
    /\ ctl = "s_join"
    /\ lock' = FALSE /\ joinee' = None
    /\ ctl' = "idle"
    /\ UNCHANGED <<statics, tx, handle, io, sess, stream, sockFile, conn, writers, sender>>

StopJoin ==
    /\ ctl = "s_join"
    /\ joinee # None => io[joinee] = "done"
    /\ lock' = FALSE /\ joinee' = None
    /\ ctl' = "idle"
    /\ UNCHANGED <<statics, tx, handle, io, sess, stream, sockFile, conn, writers, sender>>

-----------------------------------------------------------------------------
(* io_loop(gen): bind the listener.                                        *)
(* An existing socket file makes the bind fail; other errors may, too.     *)
IoBind(g) ==
    /\ io[g] = "start"
    /\ sockFile = None \/ ~Unix
    /\ sockFile' = g
    /\ told' = [told EXCEPT ![g] = IF sink[g] THEN "ready" ELSE @]
    /\ Go(g, "loop")
    /\ UNCHANGED <<statics, state, control, sess, sink, conn, writers, sender>>

IoBindFails(g) ==
    /\ io[g] = "start"
    /\ Go(g, "berr")
    /\ UNCHANGED <<statics, state, control, sess, stream, sockFile, conn, writers, sender>>

IoBindError(g) ==
    /\ io[g] = "berr"
    /\ Go(g, IF is_current_gen(g) THEN "bstop" ELSE "done")
    /\ UNCHANGED <<statics, state, control, sess, stream, sockFile, conn, writers, sender>>

IoBindStop(g) ==
    /\ io[g] = "bstop"
    /\ RUNNING' = FALSE
    /\ Go(g, "done")
    /\ UNCHANGED <<CONNECTED, LAST_ERROR, GENERATION, SHUTDOWN_FD, state, control,
                   sess, stream, sockFile, conn, writers, sender>>

(* the accept loop *)
IoLoop(g) ==
    /\ io[g] = "loop"
    /\ Go(g, IF RUNNING THEN "accept" ELSE "exit")
    /\ UNCHANGED <<statics, state, control, sess, stream, sockFile, conn, writers, sender>>

IoWouldBlock(g) ==
    /\ io[g] = "accept"
    /\ \A c \in Conns : ~Backlog(g, c)
    /\ Go(g, "loop")
    /\ UNCHANGED <<statics, state, control, sess, stream, sockFile, conn, writers, sender>>

IoAcceptError(g) ==
    /\ io[g] = "accept"
    /\ Go(g, "exit")
    /\ UNCHANGED <<statics, state, control, sess, stream, sockFile, conn, writers, sender>>

IoAccept(g) ==
    /\ io[g] = "accept"
    /\ \E c \in Conns :
          /\ Backlog(g, c)
          /\ peer' = [peer EXCEPT ![c] = "open"]
          /\ fdOpen' = [fdOpen EXCEPT ![c] = TRUE]
          /\ sess' = [sess EXCEPT ![g] = c]
    /\ Go(g, "fd")
    /\ UNCHANGED <<statics, state, control, stream, sockFile, at, shut, writers, sender>>

(* set_nonblocking(false) fails: the stream is dropped *)
IoAcceptDrops(g) ==
    /\ io[g] = "accept"
    /\ \E c \in Conns :
          /\ Backlog(g, c)
          /\ peer' = [peer EXCEPT ![c] = "closed"]
    /\ Go(g, "loop")
    /\ UNCHANGED <<statics, state, control, sess, stream, sockFile, at, shut, fdOpen, writers, sender>>

(* a client has been accepted *)
save_shutdown_fd(g) ==
    /\ io[g] = "fd"
    /\ SHUTDOWN_FD' = IF Unix THEN sess[g] ELSE SHUTDOWN_FD
    /\ Go(g, "tx")
    /\ UNCHANGED <<RUNNING, CONNECTED, LAST_ERROR, GENERATION, state, control,
                   sess, stream, sockFile, conn, writers, sender>>

IoSetTx(g) ==
    /\ io[g] = "tx" /\ ~lock
    /\ tx' = sess[g]
    /\ Go(g, "flag")
    /\ UNCHANGED <<statics, handle, lock, control, sess, stream, sockFile, conn, writers, sender>>

IoSetConnected(g) ==
    /\ io[g] = "flag"
    /\ CONNECTED' = TRUE
    /\ Go(g, "hello")
    /\ UNCHANGED <<RUNNING, LAST_ERROR, GENERATION, SHUTDOWN_FD, state, control,
                   sess, stream, sockFile, conn, writers, sender>>

(* TYPE_CONNECTED, then split the stream and spawn the writer *)
IoHello(g) ==
    LET c == sess[g] IN
    /\ io[g] = "hello" /\ sink[g]
    /\ told' = [told EXCEPT ![g] = "connected"]
    /\ wr' = [wr EXCEPT ![c] = TRUE]
    /\ writer' = [writer EXCEPT ![c] = "top"]
    /\ Go(g, "read")
    /\ UNCHANGED <<statics, state, control, sess, sink, sockFile, conn,
                   writeErr, queue, sender>>

(* the sink is closed: leave the loop; the stream is dropped *)
IoHelloFails(g) ==
    LET c == sess[g] IN
    /\ io[g] = "hello" /\ ~sink[g]
    /\ CONNECTED' = FALSE
    /\ fdOpen' = [fdOpen EXCEPT ![c] = FALSE]
    /\ sess' = [sess EXCEPT ![g] = None]
    /\ Go(g, "exit")
    /\ UNCHANGED <<RUNNING, LAST_ERROR, GENERATION, SHUTDOWN_FD, state, control,
                   stream, sockFile, peer, at, shut, writers, sender>>

(* the reader ends on EOF, on an error, or when DATA finds the sink closed *)
IoReadEnds(g) ==
    LET c == sess[g] IN
    /\ io[g] = "read"
    /\ peer[c] = "closed" \/ shut[c] \/ ~sink[g]
    /\ Go(g, "rend")
    /\ UNCHANGED <<statics, state, control, sess, stream, sockFile, conn, writers, sender>>

(* mutant: the saved descriptor is forgotten *)
clear_shutdown_fd_Forgotten(g) ==
    /\ io[g] = "rend"
    /\ wr' = [wr EXCEPT ![sess[g]] = FALSE]
    /\ Go(g, "gen1")
    /\ UNCHANGED <<statics, state, control, sess, stream, sockFile, conn,
                   writer, writeErr, queue, sender>>

(* running = false, clear_shutdown_fd *)
clear_shutdown_fd(g) ==
    LET c == sess[g] IN
    /\ io[g] = "rend"
    /\ wr' = [wr EXCEPT ![c] = FALSE]
    /\ SHUTDOWN_FD' = IF Unix THEN None ELSE SHUTDOWN_FD
    /\ Go(g, "gen1")
    /\ UNCHANGED <<RUNNING, CONNECTED, LAST_ERROR, GENERATION, state, control,
                   sess, stream, sockFile, conn, writer, writeErr, queue, sender>>

(* mutant: tx is cleared only at the end of io_loop *)
IoCheckGen_KeepsTx(g) ==
    /\ io[g] = "gen1"
    /\ Go(g, "join")
    /\ UNCHANGED <<statics, state, control, sess, stream, sockFile, conn, writers, sender>>

IoCheckGen(g) ==
    /\ io[g] = "gen1"
    /\ Go(g, IF is_current_gen(g) THEN "untx" ELSE "join")
    /\ UNCHANGED <<statics, state, control, sess, stream, sockFile, conn, writers, sender>>

IoClearTx(g) ==
    /\ io[g] = "untx" /\ ~lock
    /\ tx' = None
    /\ Go(g, "join")
    /\ UNCHANGED <<statics, handle, lock, control, sess, stream, sockFile, conn, writers, sender>>

IoJoinWriter(g) ==
    /\ io[g] = "join" /\ writer[sess[g]] = "end"
    /\ Go(g, "werr")
    /\ UNCHANGED <<statics, state, control, sess, stream, sockFile, conn, writers, sender>>

IoWriterError(g) ==
    /\ io[g] = "werr"
    /\ LAST_ERROR' = (LAST_ERROR \/ (writeErr[sess[g]] /\ is_current_gen(g)))
    /\ Go(g, "gen2")
    /\ UNCHANGED <<RUNNING, CONNECTED, GENERATION, SHUTDOWN_FD, state, control,
                   sess, stream, sockFile, conn, writers, sender>>

IoUnsetConnected(g) ==
    /\ io[g] = "gen2"
    /\ CONNECTED' = (CONNECTED /\ ~is_current_gen(g))
    /\ Go(g, "bye")
    /\ UNCHANGED <<RUNNING, LAST_ERROR, GENERATION, SHUTDOWN_FD, state, control,
                   sess, stream, sockFile, conn, writers, sender>>

(* TYPE_DISCONNECTED; the stream's last half is dropped with the iteration *)
IoBye(g) ==
    LET c == sess[g] IN
    /\ io[g] = "bye"
    /\ told' = [told EXCEPT ![g] = IF sink[g] THEN "disconnected" ELSE @]
    /\ fdOpen' = [fdOpen EXCEPT ![c] = FALSE]
    /\ sess' = [sess EXCEPT ![g] = None]
    /\ Go(g, IF sink[g] THEN "loop" ELSE "exit")
    /\ UNCHANGED <<statics, state, control, sink, sockFile, peer, at, shut, writers, sender>>

(* the end of io_loop: only the current generation cleans up *)
IoExit(g) ==
    /\ io[g] = "exit"
    /\ Go(g, IF is_current_gen(g) THEN "stop1" ELSE "done")
    /\ peer' = IF is_current_gen(g) THEN peer ELSE ResetBacklog(g)
    /\ UNCHANGED <<statics, state, control, sess, stream, sockFile, at, shut, fdOpen, writers, sender>>

IoStop(g) ==
    /\ io[g] = "stop1"
    /\ RUNNING' = FALSE
    /\ Go(g, "drop")
    /\ UNCHANGED <<CONNECTED, LAST_ERROR, GENERATION, SHUTDOWN_FD, state, control,
                   sess, stream, sockFile, conn, writers, sender>>

IoDropState(g) ==
    /\ io[g] = "drop" /\ ~lock
    /\ tx' = None /\ handle' = None
    /\ Go(g, "sock")
    /\ UNCHANGED <<statics, lock, control, sess, stream, sockFile, conn, writers, sender>>

(* cleanup_socket, and the listener is dropped with its backlog *)
IoCleanup(g) ==
    /\ io[g] = "sock"
    /\ sockFile' = IF Unix THEN None ELSE sockFile
    /\ peer' = ResetBacklog(g)
    /\ Go(g, "done")
    /\ UNCHANGED <<statics, state, control, sess, stream, at, shut, fdOpen, writers, sender>>

-----------------------------------------------------------------------------
(* The writer thread of client c: look at `running`, then block in recv.   *)
WriterTop(c) ==
    /\ writer[c] = "top"
    /\ writer' = [writer EXCEPT ![c] = IF wr[c] THEN "recv" ELSE "end"]
    /\ queue' = IF wr[c] THEN queue ELSE [queue EXCEPT ![c] = 0]
    /\ UNCHANGED <<statics, state, control, io, sess, stream, sockFile, conn, wr, writeErr, sender>>

(* mutant: a write without a message *)
WriterWrites_Empty(c) ==
    /\ writer[c] = "recv" /\ ~shut[c]
    /\ writer' = [writer EXCEPT ![c] = "top"]
    /\ queue' = [queue EXCEPT ![c] = @ - 1]
    /\ UNCHANGED <<statics, state, control, io, sess, stream, sockFile, conn, wr, writeErr, sender>>

WriterWrites(c) ==
    /\ writer[c] = "recv" /\ queue[c] > 0
    /\ ~shut[c]
    /\ writer' = [writer EXCEPT ![c] = "top"]
    /\ queue' = [queue EXCEPT ![c] = @ - 1]
    /\ UNCHANGED <<statics, state, control, io, sess, stream, sockFile, conn, wr, writeErr, sender>>

WriterFails(c) ==
    /\ writer[c] = "recv" /\ queue[c] > 0
    /\ peer[c] = "closed" \/ shut[c]
    /\ writer' = [writer EXCEPT ![c] = "end"]
    /\ writeErr' = [writeErr EXCEPT ![c] = TRUE]
    /\ wr' = [wr EXCEPT ![c] = FALSE]
    /\ queue' = [queue EXCEPT ![c] = 0]
    /\ UNCHANGED <<statics, state, control, io, sess, stream, sockFile, conn, sender>>

(* recv fails once the channel is empty and its only sender is dropped *)
WriterHangup(c) ==
    /\ writer[c] = "recv" /\ queue[c] = 0 /\ tx # c
    /\ writer' = [writer EXCEPT ![c] = "end"]
    /\ wr' = [wr EXCEPT ![c] = FALSE]
    /\ UNCHANGED <<statics, state, control, io, sess, stream, sockFile, conn, writeErr, queue, sender>>

-----------------------------------------------------------------------------
(* send_ipc_message *)
SendCall ==
    /\ snd = "idle" /\ sends < MaxSends
    /\ sends' = sends + 1
    /\ snd' = IF CONNECTED THEN "err" ELSE "idle"     \* Err "not connected"
    /\ UNCHANGED <<statics, state, control, io, sess, stream, sockFile, conn, writers>>

SendLastError ==
    /\ snd = "err"
    /\ snd' = IF LAST_ERROR THEN "idle" ELSE "tx"     \* Err, the cached error
    /\ LAST_ERROR' = FALSE
    /\ UNCHANGED <<RUNNING, CONNECTED, GENERATION, SHUTDOWN_FD, state, control,
                   io, sess, stream, sockFile, conn, writers, sends>>

(* the receiver lives until the writer, or the io thread, drops it *)
Receiving(c) ==
    \/ writer[c] \in {"top", "recv"}
    \/ \E g \in Gens : sess[g] = c /\ io[g] \in {"flag", "hello"}

SendTx ==
    /\ snd = "tx" /\ ~lock
    /\ queue' = IF tx # None /\ Receiving(tx)
                  THEN [queue EXCEPT ![tx] = @ + 1] ELSE queue
    /\ snd' = "idle"
    /\ UNCHANGED <<statics, state, control, io, sess, stream, sockFile, conn,
                   wr, writer, writeErr, sends>>

-----------------------------------------------------------------------------
(* The environment: the core process dials and closes; Dart drops its      *)
(* stream before it stops the server, or when a hot restart replaces it.   *)
Listening(g) == io[g] \notin {"unborn", "start", "berr", "bstop", "done"}

PeerConnects(c) ==
    /\ peer[c] = "none"
    /\ \A d \in Conns : d < c => peer[d] # "none"
    /\ \E g \in Gens : /\ Listening(g) /\ sockFile = g
                       /\ at' = [at EXCEPT ![c] = g]
    /\ peer' = [peer EXCEPT ![c] = "pending"]
    /\ UNCHANGED <<statics, state, control, io, sess, stream, sockFile, shut, fdOpen, writers, sender>>

PeerCloses(c) ==
    /\ peer[c] = "open"
    /\ peer' = [peer EXCEPT ![c] = "closed"]
    /\ UNCHANGED <<statics, state, control, io, sess, stream, sockFile, at, shut, fdOpen, writers, sender>>

SinkCloses(g) ==
    /\ SinkMayClose
    /\ sink[g] /\ io[g] # "unborn"
    /\ sink' = [sink EXCEPT ![g] = FALSE]
    /\ UNCHANGED <<statics, state, control, io, sess, told, sockFile, conn, writers, sender>>

-----------------------------------------------------------------------------
RestartStep == \/ RestartFd \/ RestartFlags \/ RestartTake \/ RestartJoin
               \/ RestartSpawn \/ RestartSpawnFails \/ RestartStore
StopStep == StopFd \/ StopFlags \/ StopLock \/ StopJoin
IoStep(g) ==
    \/ IoBind(g) \/ IoBindFails(g) \/ IoBindError(g) \/ IoBindStop(g)
    \/ IoLoop(g) \/ IoWouldBlock(g) \/ IoAcceptError(g) \/ IoAccept(g) \/ IoAcceptDrops(g)
    \/ save_shutdown_fd(g) \/ IoSetTx(g) \/ IoSetConnected(g)
    \/ IoHello(g) \/ IoHelloFails(g) \/ IoReadEnds(g)
    \/ clear_shutdown_fd(g) \/ IoCheckGen(g) \/ IoClearTx(g)
    \/ IoJoinWriter(g) \/ IoWriterError(g) \/ IoUnsetConnected(g) \/ IoBye(g)
    \/ IoExit(g) \/ IoStop(g) \/ IoDropState(g) \/ IoCleanup(g)
WriterStep(c) == WriterTop(c) \/ WriterWrites(c) \/ WriterFails(c) \/ WriterHangup(c)
SendStep == SendLastError \/ SendTx

Next ==
    \/ RestartCall \/ RestartStep \/ StopCall \/ StopStep
    \/ \E g \in Gens : IoStep(g) \/ SinkCloses(g)
    \/ \E c \in Conns : WriterStep(c) \/ PeerConnects(c) \/ PeerCloses(c)
    \/ SendCall \/ SendStep

Spec == Init /\ [][Next]_vars

(* Every started thread keeps running; nobody has to call, dial or close.  *)
Fairness ==
    /\ WF_vars(RestartStep) /\ WF_vars(StopStep) /\ WF_vars(SendStep)
    /\ \A g \in Gens : WF_vars(IoStep(g))
    /\ \A c \in Conns : WF_vars(WriterStep(c))
FairSpec == Spec /\ Fairness

-----------------------------------------------------------------------------
(* Steps at which an io thread may still touch the statics or STATE.       *)
Serving(g) == io[g] \notin {"unborn", "sock", "done"}

(* restart_ipc_server joins the previous io thread before it spawns the    *)
(* next one, so two generations never serve at the same time: this is what *)
(* makes the unguarded stores of io_loop to tx and CONNECTED harmless.     *)
OneServing == \A g, h \in Gens : Serving(g) /\ Serving(h) => g = h

(* While the current generation serves a client it announced and no        *)
(* control call is under way, the statics describe that client: a send     *)
(* goes to it, and a later restart or stop can shut its socket down.       *)
SessionVisible ==
    \A g \in Gens :
        ctl = "idle" /\ io[g] = "read" /\ is_current_gen(g) =>
            /\ CONNECTED /\ tx = sess[g]
            /\ Unix => SHUTDOWN_FD = sess[g]

(* Once RUNNING is false and no control call is under way -- after         *)
(* stop_ipc_server, a failed spawn or the thread's own exit -- no thread   *)
(* accepts or serves clients.                                              *)
StoppedIsQuiet ==
    ctl = "idle" /\ ~RUNNING =>
        \A g \in Gens : io[g] \notin {"loop", "accept", "fd", "tx", "flag",
                                      "hello", "read", "rend"}

(* The inductive strengthening of the three invariants above.              *)
(* Owner is the thread that may serve: the one STATE.handle names, or the  *)
(* one a control call has taken out of it or is about to store.            *)
Owner == CASE ctl \in {"r_join", "s_join"} -> joinee
           [] ctl = "r_store"              -> GENERATION
           [] OTHER                        -> handle
Ownership ==
    /\ ctl \in {"r_join", "r_spawn", "r_store", "s_join"} => handle = None
    /\ \A g \in Gens : Serving(g) => g = Owner

(* No control call has touched the statics since the last spawn.           *)
Calm == ctl \in {"idle", "r_store"}
SessionFacts ==
    \A g \in Gens : Calm /\ is_current_gen(g) =>
        /\ Unix /\ io[g] \in {"tx", "flag", "hello", "read", "rend"}
             => SHUTDOWN_FD = sess[g]
        /\ io[g] \in {"flag", "hello", "read", "rend", "gen1", "untx"}
             => tx = sess[g]
        /\ io[g] \in {"hello", "read", "rend", "gen1", "untx", "join", "werr", "gen2"}
             => CONNECTED
QuietFacts ==
    /\ ctl = "r_spawn" => RUNNING
    /\ Calm /\ ~RUNNING => \A g \in Gens : io[g] \in {"unborn", "drop", "sock", "done"}

(* shutdown_old_fd and clear_shutdown_fd agree through the SHUTDOWN_FD     *)
(* lock: as long as Dart keeps its streams, libc::shutdown only ever hits  *)
(* a descriptor that is still open. (A client handler that ends because    *)
(* the stream is closed leaves SHUTDOWN_FD as it is.)                      *)
ShutdownHitsOpenFd ==
    [][\A c \in Conns : ~shut[c] /\ shut'[c] /\ (\A g \in Gens : sink[g]) => fdOpen[c]]_vars

(* A thread that found itself current removes its own socket file only: a  *)
(* file that a newer generation has bound stays ("stale gen, skipping      *)
(* cleanup", the end of io_loop).                                          *)
NewerSocketKept ==
    [][\A g \in Gens :
          io[g] = "sock" /\ io'[g] = "done" /\ Unix => sockFile \in {g, None}]_vars

(* stop_ipc_server returns. *)
StopReturns == ctl = "s_fd" ~> ctl = "idle"

(* A client that goes away is noticed: the io thread clears tx, joins the  *)
(* writer, and tells Dart (or leaves the loop when Dart is gone).          *)
DisconnectNoticed ==
    \A g \in Gens :
        (io[g] = "read" /\ peer[sess[g]] = "closed") ~> io[g] \in {"loop", "exit"}
=============================================================================
