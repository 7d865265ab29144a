---------------------------- MODULE ChangeProxy ----------------------------
(* The selection of a proxy: ProxiesAction.changeProxyDebounce sends one       *)
(* changeProxy request at a time and keeps the last call that came meanwhile;  *)
(* the tap that calls it also stores the selection in the current profile;     *)
(* a setupConfig brings the stored selections to the core all at once.         *)
(* The core handles requests in goroutines of their own, in any order.         *)
EXTENDS Naturals

CONSTANTS Groups, Proxies,
          Setups,              \* setupConfig requests a behaviour may send
          MaxCalls,            \* bound: calls of changeProxyDebounce
          NoCall               \* null

VARIABLES
    calls,        \* calls of changeProxyDebounce so far
    inFlight,     \* _inFlightChangeProxy: the call its task works for
    stage,        \* its task: "sent", "handled", "refused", "closing"
    requests,     \* calls sent to the core and not handled yet
    pending,      \* _pendingChangeProxy
    applied,      \* the number of the last call the core has handled
    selected,     \* the core: what each group has selected
    selectedMap,  \* the current profile's selectedMap
    setup,        \* per setupConfig: the map it carries, while it is under way
    mayLose       \* history: groups with a selection the code may lose

task == <<inFlight, stage, requests, pending>>
core == <<applied, selected>>
proxyVars == <<calls, task, core, selectedMap, setup, mayLose>>

Call == [n : 1..MaxCalls, g : Groups, p : Proxies]
Selection == [Groups -> Proxies]

ASSUME ProxyAssumption == MaxCalls \in Nat /\ NoCall \notin Call

ProxyTypeOK ==
    /\ calls \in 0..MaxCalls /\ applied \in 0..MaxCalls
    /\ inFlight \in Call \cup {NoCall} /\ pending \in Call \cup {NoCall}
    /\ stage \in {"sent", "handled", "refused", "closing"} /\ requests \subseteq Call
    /\ selected \in Selection /\ selectedMap \in Selection
    /\ setup \in [Setups -> Selection \cup {NoCall}]
    /\ mayLose \subseteq Groups
    /\ applied <= calls /\ (pending # NoCall => inFlight # NoCall)

ProxyInit ==
    /\ calls = 0 /\ applied = 0 /\ inFlight = NoCall /\ pending = NoCall
    /\ stage = "closing" /\ requests = {}
    /\ selected \in Selection /\ selectedMap = selected
    /\ setup = [s \in Setups |-> NoCall]
    /\ mayLose = {}

SetupUnderWay == \E s \in Setups : setup[s] # NoCall

(* changeProxy sends its request before its first await.                       *)
Send(c) == inFlight' = c /\ stage' = "sent" /\ requests' = requests \cup {c}

(* A bug: every call is sent at once.                                          *)
changeProxyDebounce_AtOnce(c) == Send(c) /\ UNCHANGED pending

changeProxyDebounce(c) ==
    IF inFlight # NoCall
    THEN pending' = c /\ UNCHANGED <<inFlight, stage, requests>>
    ELSE Send(c) /\ UNCHANGED pending

(* A tap on a node calls changeProxyDebounce and updateCurrentSelectedMap.     *)
(* It takes the slot of a waiting call, of another group as well.              *)
Tap(g, p) ==
    /\ calls < MaxCalls
    /\ calls' = calls + 1
    /\ changeProxyDebounce([n |-> calls + 1, g |-> g, p |-> p])
    /\ selectedMap' = [selectedMap EXCEPT ![g] = p]
    /\ mayLose' = mayLose
         \cup {h \in Groups \ {g} : pending # NoCall /\ pending.g = h}
         \cup {h \in {g} : SetupUnderWay}
    /\ UNCHANGED <<core, setup>>

(* The core answers, and with that the task that waits for the answer goes on. *)
Answer(c, next) ==
    /\ applied' = c.n /\ requests' = requests \ {c}
    /\ stage' = IF c = inFlight THEN next ELSE stage
    /\ UNCHANGED <<calls, inFlight, pending, selectedMap, setup>>

CoreSelects(c) ==
    /\ c \in requests /\ Answer(c, "handled")
    /\ selected' = [selected EXCEPT ![c.g] = c.p]
    /\ UNCHANGED mayLose

(* It does not know the group or the proxy.                                    *)
CoreRefuses(c) ==
    /\ c \in requests /\ Answer(c, "refused")
    /\ mayLose' = mayLose \cup {c.g}
    /\ UNCHANGED selected

(* After a success the task closes or resets the connections and waits.        *)
CloseConnections ==
    /\ inFlight # NoCall /\ stage = "handled"
    /\ stage' = "closing"
    /\ UNCHANGED <<calls, inFlight, requests, pending, core, selectedMap, setup, mayLose>>

(* A bug: the waiting call is cleared and not sent.                            *)
Completed_Forgets ==
    /\ inFlight # NoCall /\ stage \in {"refused", "closing"}
    /\ inFlight' = NoCall /\ pending' = NoCall
    /\ UNCHANGED <<calls, stage, requests, core, selectedMap, setup, mayLose>>

(* A bug: the finished call is cleared, the waiting one stays.                 *)
Completed_Keeps ==
    /\ inFlight # NoCall /\ stage \in {"refused", "closing"}
    /\ inFlight' = NoCall
    /\ UNCHANGED <<calls, pending, stage, requests, core, selectedMap, setup, mayLose>>

(* whenComplete: the waiting call, if there is one, is sent.                   *)
Completed ==
    /\ inFlight # NoCall /\ stage \in {"refused", "closing"}
    /\ IF pending = NoCall THEN inFlight' = NoCall /\ UNCHANGED <<stage, requests>>
       ELSE Send(pending)
    /\ pending' = NoCall
    /\ UNCHANGED <<calls, core, selectedMap, setup, mayLose>>

(* A bug: the setup carries a map that was read before the last tap.           *)
SendSetup_Stale(s) ==
    /\ setup[s] = NoCall
    /\ \E m \in Selection : setup' = [setup EXCEPT ![s] = m]
    /\ UNCHANGED <<calls, task, core, selectedMap, mayLose>>

(* setupConfig reads the profile's map (_setupParams) as it sends the request. *)
SendSetup(s) ==
    /\ setup[s] = NoCall
    /\ setup' = [setup EXCEPT ![s] = selectedMap]
    /\ UNCHANGED <<calls, task, core, selectedMap, mayLose>>

(* The core handles it: patchSelectGroup selects what the map names.           *)
SetupHandled(s) ==
    /\ setup[s] # NoCall
    /\ selected' = setup[s]
    /\ setup' = [setup EXCEPT ![s] = NoCall]
    /\ UNCHANGED <<calls, task, applied, selectedMap, mayLose>>

ProxyTask ==
    \/ \E c \in requests : CoreSelects(c) \/ CoreRefuses(c)
    \/ CloseConnections \/ Completed

ProxyNext ==
    \/ \E g \in Groups, p \in Proxies : Tap(g, p)
    \/ ProxyTask
    \/ \E s \in Setups : SendSetup(s) \/ SetupHandled(s)

ProxySpec == ProxyInit /\ [][ProxyNext]_proxyVars

(* Requests are answered: utils.handleWatch and the future's timeout see to    *)
(* it that the task goes on.                                                   *)
ProxyFairness == WF_proxyVars(ProxyTask)

-----------------------------------------------------------------------------
(* The selections reach the core in the order of the taps: none takes effect   *)
(* after a later one, although each is a request of its own.                   *)
Latest == INSTANCE LatestCall
LatestWins == Latest!Init /\ [][Latest!Next]_<<calls, applied>>

(* Every call, or a later one, gets to the core.                               *)
LastCallApplied == \A n \in 1..MaxCalls : calls >= n ~> applied >= n

(* When nothing is under way, each group of the core has the proxy that the    *)
(* profile names, except where the code loses a selection: it was refused, it  *)
(* waited when a tap on another group came, or a setupConfig was under way.    *)
SelectionAgrees ==
    inFlight = NoCall /\ ~SetupUnderWay =>
        \A g \in Groups \ mayLose : selected[g] = selectedMap[g]
=============================================================================
