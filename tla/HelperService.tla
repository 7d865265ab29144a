---------------------------- MODULE HelperService ---------------------------
(* The Windows helper (helper/src/service/hub.rs): an HTTP service that starts *)
(* and stops the core as a process of its own.  Requests are handled by the    *)
(* threads of the server; PROCESS is taken for each part of a start.           *)
EXTENDS Naturals

CONSTANTS Handlers,          \* threads that handle a request
          MaxCores           \* bound: processes started

ASSUME HelperAssumption == MaxCores \in Nat

VARIABLES
    child,       \* PROCESS: the process it holds, 0 for None
    cores,       \* processes started so far
    running,     \* those that run
    handler,     \* per thread: "free", "starts", "spawns", "stops"
    overlapped   \* history: two starts were under way at once
helperVars == <<child, cores, running, handler, overlapped>>

HelperInit ==
    /\ child = 0 /\ cores = 0 /\ running = {}
    /\ handler = [h \in Handlers |-> "free"] /\ overlapped = FALSE

(* start has found the hash of the file to be the right one, or stop.          *)
Request(h) ==
    /\ handler[h] = "free"
    /\ \E what \in {"starts", "stops"} : handler' = [handler EXCEPT ![h] = what]
    /\ overlapped' = \/ overlapped
                      \/ /\ handler'[h] = "starts"
                         /\ \E g \in Handlers : handler[g] \in {"starts", "spawns"}
    /\ UNCHANGED <<child, cores, running>>

(* A bug: start does not stop what runs.                                       *)
StopChild_OnlyStop(h) ==
    /\ handler[h] \in {"starts", "stops"}
    /\ handler' = [handler EXCEPT ![h] = IF handler[h] = "starts" THEN "spawns" ELSE "free"]
    /\ IF handler[h] = "stops" THEN child' = 0 /\ running' = running \ {child}
       ELSE UNCHANGED <<child, running>>
    /\ UNCHANGED <<cores, overlapped>>

(* stop, which start calls too: take, kill and wait under the lock.            *)
StopChild(h) ==
    /\ handler[h] \in {"starts", "stops"}
    /\ handler' = [handler EXCEPT ![h] = IF handler[h] = "starts" THEN "spawns" ELSE "free"]
    /\ child' = 0 /\ running' = running \ {child}
    /\ UNCHANGED <<cores, overlapped>>

(* start takes the lock again and stores the new process, whatever is there.   *)
Spawn(h) ==
    /\ handler[h] = "spawns" /\ cores < MaxCores
    /\ cores' = cores + 1 /\ child' = cores' /\ running' = running \cup {cores'}
    /\ handler' = [handler EXCEPT ![h] = "free"]
    /\ UNCHANGED overlapped

SpawnFails(h) ==
    /\ handler[h] = "spawns" /\ handler' = [handler EXCEPT ![h] = "free"]
    /\ UNCHANGED <<child, cores, running, overlapped>>

CoreExits == /\ \E c \in running : running' = running \ {c}
             /\ UNCHANGED <<child, cores, handler, overlapped>>

HelperNext ==
    \/ \E h \in Handlers : Request(h) \/ StopChild(h) \/ Spawn(h) \/ SpawnFails(h)
    \/ CoreExits

HelperSpec == HelperInit /\ [][HelperNext]_helperVars

(* Every core that runs is the one the helper can stop, unless two starts were *)
(* under way at once: then the second may overwrite the process of the first.  *)
OnlyChild == ~overlapped => running \subseteq {child}
=============================================================================
