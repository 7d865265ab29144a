------------------------------- MODULE CoreHub -------------------------------
(***************************************************************************)
(* The request handlers of the Go core: handleAction (core/action.go) runs *)
(* every request in a goroutine of its own, the handlers (core/hub.go,     *)
(* core/common.go) share isInit, isRunning, currentConfig and the inbound  *)
(* listeners under runLock, except quickSetup (core/lib.go), which writes  *)
(* isRunning without it. No client sends the shutdown method.              *)
(*                                                                         *)
(* A critical section that writes one variable is one action; those that   *)
(* write several are one action per write, the last of which unlocks.      *)
(***************************************************************************)
EXTENDS Naturals

CONSTANTS
    Reqs,            \* places for requests: how many may be under way
    Methods,         \* the methods they may have
    Files, Bad,      \* readable contents of config.yaml, and an unreadable one
    Default,         \* the configuration used instead of an unreadable file
    Ports, BasePort, \* mixed ports to patch in, and that of every file
    Sels,            \* proxies to select
    Nil

AllMethods == {"init", "setup", "update", "start", "stop", "change", "get",
               "quick"}

ASSUME HubAssumption ==
    /\ Methods \subseteq AllMethods
    /\ Bad \notin Files /\ Default \notin Files \cup {Bad} /\ Nil \notin Reqs
    /\ \A c \in [file : Files \cup {Default}, port : Ports \cup {BasePort},
               lan : BOOLEAN] : c # Nil

VARIABLES
    disk,            \* config.yaml, written by the Dart side
    isInit, isRunning, currentConfig,
    sel,             \* the selected proxy of the group
    listeners,       \* the configuration the inbound listeners serve, or Nil
    runLock,         \* the request that holds it, or Nil
    pc, req, out     \* per request: next step, method and argument, result

state == <<isInit, isRunning, currentConfig, sel, listeners>>
vars  == <<disk, state, runLock, pc, req, out>>

Configs == [file : Files \cup {Default}, port : Ports \cup {BasePort}, lan : BOOLEAN]
(* What updateConfig may patch, of which two fields are modelled.          *)
Patches == [port : Ports, lan : BOOLEAN]

(* The argument of a request: a patch for updateConfig, a selection else.  *)
Arg(m)   == IF m = "update" THEN Patches ELSE Sels
Requests == UNION {[method : {m}, arg : Arg(m)] : m \in Methods}
Critical == {"select", "listen", "close"}

(* Exactly the holder of runLock is inside a critical section.             *)
Holder == \A r \in Reqs : pc[r] \in Critical <=> runLock = r

(* Types, and who may be inside a critical section.                        *)
TypeOK ==
    /\ disk \in Files \cup {Bad}
    /\ isInit \in BOOLEAN /\ isRunning \in BOOLEAN
    /\ currentConfig \in Configs \cup {Nil} /\ listeners \in Configs \cup {Nil}
    /\ sel \in Sels /\ runLock \in Reqs \cup {Nil}
    /\ pc \in [Reqs -> Critical \cup {"idle", "call", "run", "setup", "reply"}]
    /\ req \in [Reqs -> {Nil} \cup Requests]
    /\ \A r \in Reqs :
          /\ pc[r] # "idle" => req[r] \in Requests
          /\ pc[r] \in {"run", "setup", "select"} => req[r].method \in {"setup", "quick"}
    /\ Holder

Init ==
    /\ disk \in Files /\ isInit = FALSE /\ isRunning = FALSE
    /\ currentConfig = Nil /\ sel \in Sels /\ listeners = Nil /\ runLock = Nil
    /\ pc = [r \in Reqs |-> "idle"]
    /\ req = [r \in Reqs |-> Nil] /\ out = [r \in Reqs |-> Nil]

Go(r, step)       == pc' = [pc EXCEPT ![r] = step]
Return(r, result) == Go(r, "reply") /\ out' = [out EXCEPT ![r] = result]
At(r, step, m)    == pc[r] = step /\ req[r].method = m
Ok                == [ok |-> TRUE]
Fail              == [ok |-> FALSE]
Fresh(f)          == [file |-> f, port |-> BasePort, lan |-> FALSE]

-----------------------------------------------------------------------------
(* A request arrives and gets a goroutine of its own.                      *)
Receive(r) ==
    /\ pc[r] = "idle"
    /\ \E q \in Requests : req' = [req EXCEPT ![r] = q]
    /\ Go(r, "call")
    /\ UNCHANGED <<disk, state, runLock, out>>

handleInitClash(r) ==
    /\ At(r, "call", "init") /\ runLock = Nil
    /\ isInit' = TRUE
    /\ Return(r, Ok)
    /\ UNCHANGED <<disk, isRunning, currentConfig, sel, listeners, runLock, req>>

handleStartListener(r) ==
    /\ At(r, "call", "start") /\ runLock = Nil
    /\ runLock' = r /\ isRunning' = TRUE
    /\ Go(r, "listen") /\ out' = [out EXCEPT ![r] = Ok]
    /\ UNCHANGED <<disk, isInit, currentConfig, sel, listeners, req>>

(* mutant: handleStopListener does not take runLock *)
handleStopListener_NoLock(r) ==
    /\ At(r, "call", "stop")
    /\ isRunning' = FALSE
    /\ Go(r, "close") /\ out' = [out EXCEPT ![r] = Ok]
    /\ UNCHANGED <<disk, isInit, currentConfig, sel, listeners, runLock, req>>

handleStopListener(r) ==
    /\ At(r, "call", "stop") /\ runLock = Nil
    /\ runLock' = r /\ isRunning' = FALSE
    /\ Go(r, "close") /\ out' = [out EXCEPT ![r] = Ok]
    /\ UNCHANGED <<disk, isInit, currentConfig, sel, listeners, req>>

(* handleSetupConfig reads isInit before applyConfig takes runLock.        *)
handleSetupConfig(r) ==
    /\ At(r, "call", "setup") \/ At(r, "run", "quick")
    /\ IF isInit THEN Go(r, "setup") /\ UNCHANGED out ELSE Return(r, Fail)
    /\ isRunning' = (isRunning \/ pc[r] = "run")
    /\ UNCHANGED <<disk, isInit, currentConfig, sel, listeners, runLock, req>>

(* A file that does not parse is replaced by the default configuration,    *)
(* and its error is the answer.                                            *)
applyConfig(r) ==
    /\ pc[r] = "setup" /\ runLock = Nil
    /\ runLock' = r
    /\ currentConfig' = Fresh(IF disk = Bad THEN Default ELSE disk)
    /\ Go(r, "select")
    /\ out' = [out EXCEPT ![r] = IF disk = Bad THEN Fail ELSE Ok]
    /\ UNCHANGED <<disk, isInit, isRunning, sel, listeners, req>>

patchSelectGroup(r) ==
    /\ pc[r] = "select"
    /\ sel' = req[r].arg
    /\ Go(r, "listen")
    /\ UNCHANGED <<disk, isInit, isRunning, currentConfig, listeners, runLock, req, out>>

(* mutants: runLock stays locked after a panic; the listeners are not *)
(* updated *)
updateConfig_NoDefer(r) ==
    /\ At(r, "call", "update") /\ runLock = Nil
    /\ runLock' = r
    /\ IF currentConfig = Nil
         THEN Return(r, Fail) /\ UNCHANGED currentConfig
         ELSE /\ currentConfig' = [currentConfig EXCEPT !.port = req[r].arg.port]
              /\ Go(r, "listen") /\ out' = [out EXCEPT ![r] = Ok]
    /\ UNCHANGED <<disk, isInit, isRunning, sel, listeners, req>>
updateConfig_NoListeners(r) ==
    /\ At(r, "call", "update") /\ runLock = Nil
    /\ IF currentConfig = Nil
         THEN Return(r, Fail) /\ UNCHANGED currentConfig
         ELSE /\ currentConfig' = [currentConfig EXCEPT !.port = req[r].arg.port]
              /\ Return(r, Ok)
    /\ UNCHANGED <<disk, isInit, isRunning, sel, listeners, runLock, req>>

(* Without a configuration updateConfig panics: the deferred Unlock runs   *)
(* and handleAction answers with the panic. Of the patch, allow-lan is     *)
(* decoded and never applied.                                              *)
updateConfig(r) ==
    /\ At(r, "call", "update") /\ runLock = Nil
    /\ IF currentConfig = Nil
         THEN Return(r, Fail) /\ UNCHANGED <<runLock, currentConfig>>
         ELSE /\ runLock' = r
              /\ currentConfig' = [currentConfig EXCEPT !.port = req[r].arg.port]
              /\ Go(r, "listen") /\ out' = [out EXCEPT ![r] = Ok]
    /\ UNCHANGED <<disk, isInit, isRunning, sel, listeners, req>>

updateListeners(r) ==
    /\ pc[r] = "listen"
    /\ listeners' = IF isRunning /\ currentConfig # Nil THEN currentConfig ELSE listeners
    /\ runLock' = Nil
    /\ Go(r, "reply")
    /\ UNCHANGED <<disk, isInit, isRunning, currentConfig, sel, req, out>>

stopListeners(r) ==
    /\ pc[r] = "close"
    /\ listeners' = Nil
    /\ runLock' = Nil
    /\ Go(r, "reply")
    /\ UNCHANGED <<disk, isInit, isRunning, currentConfig, sel, req, out>>

(* handleChangeProxy hands runLock to a goroutine, which answers first.    *)
handleChangeProxy(r) ==
    /\ At(r, "call", "change") /\ runLock = Nil
    /\ sel' = IF currentConfig = Nil THEN sel ELSE req[r].arg
    /\ Return(r, IF currentConfig = Nil THEN Fail ELSE Ok)
    /\ UNCHANGED <<disk, isInit, isRunning, currentConfig, listeners, runLock, req>>

(* The groups and proxies of one configuration; which proxy each group has *)
(* selected is read later, while the answer is encoded, and left out.      *)
handleGetProxies(r) ==
    /\ At(r, "call", "get") /\ runLock = Nil
    /\ Return(r, [config |-> currentConfig])
    /\ UNCHANGED <<disk, state, runLock, req>>

(* quickSetup: handleInitClash, then isRunning without the lock, then      *)
(* handleSetupConfig.                                                      *)
quickSetup(r) ==
    /\ At(r, "call", "quick") /\ runLock = Nil
    /\ isInit' = TRUE
    /\ Go(r, "run")
    /\ UNCHANGED <<disk, isRunning, currentConfig, sel, listeners, runLock, req, out>>

(* The answer is sent; the place of the request is free for another one.   *)
Reply(r) ==
    /\ pc[r] = "reply"
    /\ Go(r, "idle")
    /\ req' = [req EXCEPT ![r] = Nil] /\ out' = [out EXCEPT ![r] = Nil]
    /\ UNCHANGED <<disk, state, runLock>>

(* The Dart side rewrites config.yaml.                                     *)
WriteFile ==
    /\ disk' \in Files \cup {Bad}
    /\ UNCHANGED <<state, runLock, pc, req, out>>

-----------------------------------------------------------------------------
(* Steps that wait for runLock, and those that never wait.                 *)
Locks(r) ==
    \/ handleInitClash(r) \/ handleStartListener(r) \/ handleStopListener(r)
    \/ applyConfig(r) \/ updateConfig(r) \/ handleChangeProxy(r)
    \/ handleGetProxies(r) \/ quickSetup(r)
Runs(r) ==
    \/ handleSetupConfig(r) \/ patchSelectGroup(r) \/ updateListeners(r)
    \/ stopListeners(r) \/ Reply(r)

Next == WriteFile \/ \E r \in Reqs : Receive(r) \/ Locks(r) \/ Runs(r)
Spec == Init /\ [][Next]_vars

(* Goroutines run, and sync.Mutex hands the lock to a starving waiter.     *)
Fairness == \A r \in Reqs : SF_vars(Locks(r)) /\ WF_vars(Runs(r))
FairSpec == Spec /\ Fairness

-----------------------------------------------------------------------------
(* What the listeners will serve when the holder of runLock is done, and   *)
(* what will be selected.                                                  *)
servingBar ==
    IF runLock = Nil THEN listeners
    ELSE IF pc[runLock] = "close" THEN Nil
    ELSE IF isRunning /\ currentConfig # Nil THEN currentConfig ELSE listeners
selBar == IF runLock # Nil /\ pc[runLock] = "select" THEN req[runLock].arg ELSE sel
phaseAt(step, q) ==
    CASE step = "idle" -> "none"
      [] step = "run" -> "ready"
      [] step = "setup" /\ q.method = "quick" -> "on"
      [] step = "call" \/ (step = "setup" /\ q.method # "quick") -> "asked"
      [] OTHER -> "done"
phaseBar == [r \in Reqs |-> phaseAt(pc[r], req[r])]

Core == INSTANCE CoreState WITH
            init <- isInit, running <- isRunning, config <- currentConfig,
            sel <- selBar, serving <- servingBar, phase <- phaseBar

(* Every request takes effect at once between its arrival and its answer,  *)
(* although handlers write the state in several steps, read isInit outside *)
(* the lock, and a reader may come at any time; only quickSetup takes      *)
(* effect in three steps.                                                  *)
Linear == Core!Spec

(* When no request is under way the listeners serve the current            *)
(* configuration if the core runs, and nothing if it does not, although    *)
(* quickSetup sets isRunning in the middle of other requests.              *)
Settled ==
    (\A r \in Reqs : pc[r] = "idle") =>
        listeners = IF isRunning THEN currentConfig ELSE Nil

(* Why Settled holds. The listeners of a core that does not run are closed *)
(* or being closed; those of a running one serve the current               *)
(* configuration, or a request that will make them do so holds runLock, or *)
(* is a quickSetup about to apply its configuration.                       *)
Pending == \E r \in Reqs : pc[r] = "setup" /\ req[r].method = "quick"
Closing == runLock # Nil /\ pc[runLock] = "close"
Opening == runLock # Nil /\ pc[runLock] \in {"select", "listen"}
InStep ==
    /\ ~isRunning => listeners = Nil \/ Closing
    /\ isRunning => Pending \/ Opening \/ (listeners = currentConfig /\ ~Closing)
    /\ currentConfig = Nil => listeners = Nil
    /\ \A r \in Reqs : /\ pc[r] = "run" => req[r].method = "quick"
                       /\ pc[r] \in {"run", "setup"} => isInit

(* The configuration of the core follows the patch it was sent, as the     *)
(* settings screen says of allow-lan.                                      *)
PatchInForce == \A r \in Reqs :
    pc[r] = "listen" /\ req[r].method = "update" =>
        currentConfig.port = req[r].arg.port /\ currentConfig.lan = req[r].arg.lan

(* Every request is answered: no panic or early return keeps runLock.      *)
Answered == \A r \in Reqs : pc[r] = "call" ~> pc[r] = "idle"
=============================================================================
