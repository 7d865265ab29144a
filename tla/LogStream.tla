------------------------------ MODULE LogStream -----------------------------
(* The log events of the core (handleStartLog, handleStopLog in core/hub.go,   *)
(* which run in the goroutine of their request) over the observable of the     *)
(* engine: a full subscriber stops the one goroutine that hands events out,    *)
(* and with it whoever logs.                                                   *)
EXTENDS Naturals

CONSTANTS LogCalls,          \* requests, each a startLog or a stopLog
          Buffer             \* capacity of a subscriber: 200 in the code

ASSUME LogAssumption == Buffer \in Nat /\ 0 \notin LogCalls

VARIABLES
    step,           \* per request: "none", "start", "subscribe", "stop", "ended"
    logSubscriber,  \* the request that made it; 0 for nil
    listener,       \* subscribers that get events
    closed,         \* closed ones
    full,           \* per subscriber: events in its buffer
    reader,         \* per request: its goroutine: "none", "new", the subscriber it
                    \* ranges over, or "ended"
    event,          \* who must still get the event at hand: {} for no event
    together        \* history: two requests were under way at once
logVars == <<step, logSubscriber, listener, closed, full, reader, event, together>>

LogInit ==
    /\ step = [c \in LogCalls |-> "none"] /\ logSubscriber = 0
    /\ listener = {} /\ closed = {} /\ full = [c \in LogCalls |-> 0]
    /\ reader = [c \in LogCalls |-> "none"]
    /\ event = {} /\ together = FALSE

LogRequest(c) ==
    /\ step[c] = "none"
    /\ \E what \in {"start", "stop"} : step' = [step EXCEPT ![c] = what]
    /\ together' = (together \/ \E d \in LogCalls : step[d] \notin {"none", "ended"})
    /\ UNCHANGED <<logSubscriber, listener, closed, full, reader, event>>

(* A bug: the variable is cleared, the subscription stays.                     *)
UnSubscribe_Not(c) ==
    /\ step[c] \in {"start", "stop"}
    /\ event = {}
    /\ logSubscriber' = 0
    /\ step' = [step EXCEPT ![c] = IF @ = "start" THEN "subscribe" ELSE "ended"]
    /\ UNCHANGED <<listener, closed, full, reader, event, together>>

(* Both handlers begin with it; the mutex of the observable is held while an   *)
(* event is handed out.                                                        *)
UnSubscribe(c) ==
    /\ step[c] \in {"start", "stop"}
    /\ logSubscriber # 0 => event = {}
    /\ listener' = listener \ {logSubscriber}
    /\ closed' = closed \cup (listener \cap {logSubscriber})
    /\ logSubscriber' = 0
    /\ step' = [step EXCEPT ![c] = IF @ = "start" THEN "subscribe" ELSE "ended"]
    /\ UNCHANGED <<full, reader, event, together>>

Subscribe(c) ==
    /\ step[c] = "subscribe" /\ event = {}
    /\ listener' = listener \cup {c} /\ logSubscriber' = c
    /\ reader' = [reader EXCEPT ![c] = "new"]
    /\ step' = [step EXCEPT ![c] = "ended"]
    /\ UNCHANGED <<closed, full, event, together>>

(* The goroutine reads logSubscriber when it runs; nil holds it for ever.      *)
ReaderBegins(c) ==
    /\ reader[c] = "new"
    /\ reader' = [reader EXCEPT ![c] = IF logSubscriber = 0 THEN "ended" ELSE logSubscriber]
    /\ UNCHANGED <<step, logSubscriber, listener, closed, full, event, together>>

ReaderTakes(c) ==
    /\ reader[c] \in LogCalls
    /\ IF full[reader[c]] > 0
       THEN full' = [full EXCEPT ![reader[c]] = @ - 1] /\ UNCHANGED reader
       ELSE /\ reader[c] \in closed
            /\ reader' = [reader EXCEPT ![c] = "ended"] /\ UNCHANGED full
    /\ UNCHANGED <<step, logSubscriber, listener, closed, event, together>>

(* Something is logged: all subscribers get it before the next event.          *)
Log ==
    /\ event = {} /\ listener # {}
    /\ event' = listener
    /\ UNCHANGED <<step, logSubscriber, listener, closed, full, reader, together>>

Emit ==
    /\ \E c \in event : /\ full[c] < Buffer
                        /\ full' = [full EXCEPT ![c] = @ + 1] /\ event' = event \ {c}
    /\ UNCHANGED <<step, logSubscriber, listener, closed, reader, together>>

LogGoes(c) == UnSubscribe(c) \/ Subscribe(c) \/ ReaderBegins(c) \/ ReaderTakes(c)
LogNext == Log \/ Emit \/ \E c \in LogCalls : LogRequest(c) \/ LogGoes(c)
LogSpec == LogInit /\ [][LogNext]_logVars
LogFairness == WF_logVars(Emit) /\ \A c \in LogCalls : WF_logVars(LogGoes(c))

(* Who logs is not held up for ever: an event gets to all its subscribers,     *)
(* unless two requests were handled at once: a subscriber that is overwritten  *)
(* has no reader, fills up and stops the core.                                 *)
LogFlows == event # {} ~> event = {} \/ together
=============================================================================
