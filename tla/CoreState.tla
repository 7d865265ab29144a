------------------------------ MODULE CoreState ------------------------------
(***************************************************************************)
(* What the core promises to whoever sends it requests: each request takes *)
(* effect at once, at some moment between its arrival and its answer, and  *)
(* its effect on the inbound listeners is part of it.                      *)
(***************************************************************************)
CONSTANTS Reqs, Files, Bad, Default, Ports, BasePort, Sels, Nil

VARIABLES
    disk,       \* config.yaml: a file of Files, or Bad
    init, running,
    config,     \* the configuration in force, Nil before the first
    sel,        \* the selected proxy
    serving,    \* the configuration the listeners serve, or Nil
    phase,      \* per request: "none", "asked", "ready", "on" or "done"
    req, out    \* per request: its method and argument, its result

vars == <<disk, init, running, config, sel, serving, phase, req, out>>

Fresh(f) == [file |-> f, port |-> BasePort, lan |-> FALSE]
Ok   == [ok |-> TRUE]
Fail == [ok |-> FALSE]

(* What is served once the core has looked at its listeners again.         *)
Served(on, cfg) == IF on THEN cfg ELSE Nil

Init ==
    /\ disk \in Files /\ init = FALSE /\ running = FALSE /\ config = Nil
    /\ sel \in Sels /\ serving = Nil
    /\ phase = [r \in Reqs |-> "none"]
    /\ req = [r \in Reqs |-> Nil] /\ out = [r \in Reqs |-> Nil]

Ask(r) ==
    /\ phase[r] = "none"
    /\ phase' = [phase EXCEPT ![r] = "asked"]
    /\ \E m \in {"init", "setup", "update", "start", "stop", "change", "get", "quick"},
          a \in [port : Ports, lan : BOOLEAN] \cup Sels :
              req' = [req EXCEPT ![r] = [method |-> m, arg |-> a]]
    /\ UNCHANGED <<disk, init, running, config, sel, serving, out>>

Done(r, result) ==
    /\ phase' = [phase EXCEPT ![r] = "done"]
    /\ out' = [out EXCEPT ![r] = result]
    /\ UNCHANGED <<disk, req>>

DoInit(r) ==
    /\ init' = TRUE /\ Done(r, Ok)
    /\ UNCHANGED <<running, config, sel, serving>>

(* An unreadable file still changes the configuration: to the default one. *)
DoSetup(r) ==
    IF ~init THEN Done(r, Fail) /\ UNCHANGED <<init, running, config, sel, serving>>
    ELSE /\ config' = Fresh(IF disk = Bad THEN Default ELSE disk)
         /\ sel' = req[r].arg
         /\ serving' = Served(running, config')
         /\ Done(r, IF disk = Bad THEN Fail ELSE Ok)
         /\ UNCHANGED <<init, running>>

(* The port of the patch is taken, its allow-lan is not.                   *)
DoUpdate(r) ==
    IF config = Nil
    THEN Done(r, Fail) /\ UNCHANGED <<init, running, config, sel, serving>>
    ELSE /\ config' = [config EXCEPT !.port = req[r].arg.port]
         /\ serving' = Served(running, config')
         /\ Done(r, Ok)
         /\ UNCHANGED <<init, running, sel>>

DoStart(r) ==
    /\ running' = TRUE /\ serving' = config /\ Done(r, Ok)
    /\ UNCHANGED <<init, config, sel>>

DoStop(r) ==
    /\ running' = FALSE /\ serving' = Nil /\ Done(r, Ok)
    /\ UNCHANGED <<init, config, sel>>

DoChange(r) ==
    IF config = Nil
    THEN Done(r, Fail) /\ UNCHANGED <<init, running, config, sel, serving>>
    ELSE /\ sel' = req[r].arg /\ Done(r, Ok)
         /\ UNCHANGED <<init, running, config, serving>>

DoGet(r) ==
    /\ Done(r, [config |-> config])
    /\ UNCHANGED <<init, running, config, sel, serving>>

Do(r) ==
    /\ phase[r] = "asked"
    /\ \/ req[r].method = "init"   /\ DoInit(r)
       \/ req[r].method = "setup"  /\ DoSetup(r)
       \/ req[r].method = "update" /\ DoUpdate(r)
       \/ req[r].method = "start"  /\ DoStart(r)
       \/ req[r].method = "stop"   /\ DoStop(r)
       \/ req[r].method = "change" /\ DoChange(r)
       \/ req[r].method = "get"    /\ DoGet(r)

(* quickSetup takes effect three times: the core is initialised, then it   *)
(* runs, though its listeners may not serve yet, then it is set up.        *)
QuickInit(r) ==
    /\ phase[r] = "asked" /\ req[r].method = "quick"
    /\ init' = TRUE /\ phase' = [phase EXCEPT ![r] = "ready"]
    /\ UNCHANGED <<disk, running, config, sel, serving, req, out>>

QuickRun(r) ==
    /\ phase[r] = "ready"
    /\ running' = TRUE /\ serving' \in {serving, config}
    /\ phase' = [phase EXCEPT ![r] = "on"]
    /\ UNCHANGED <<disk, init, config, sel, req, out>>

Quick(r) == QuickInit(r) \/ QuickRun(r) \/ (phase[r] = "on" /\ DoSetup(r))

Answer(r) ==
    /\ phase[r] = "done"
    /\ phase' = [phase EXCEPT ![r] = "none"]
    /\ req' = [req EXCEPT ![r] = Nil] /\ out' = [out EXCEPT ![r] = Nil]
    /\ UNCHANGED <<disk, init, running, config, sel, serving>>

Write ==
    /\ disk' \in Files \cup {Bad}
    /\ UNCHANGED <<init, running, config, sel, serving, phase, req, out>>

Next == Write \/ \E r \in Reqs : Ask(r) \/ Do(r) \/ Quick(r) \/ Answer(r)
Spec == Init /\ [][Next]_vars
=============================================================================
