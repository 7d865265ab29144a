----------------------------- MODULE LatestCall -----------------------------
(* What a coalescing sender promises.  Calls are numbered in the order they    *)
(* are made.  A call may be skipped for a later one, but the calls that take   *)
(* effect do so in their order, each at most once.                             *)
EXTENDS Naturals

CONSTANT MaxCalls          \* bound: calls in a behaviour
VARIABLES calls, applied   \* calls made; the number of the last that took effect

Init == calls = 0 /\ applied = 0
Call == calls < MaxCalls /\ calls' = calls + 1 /\ UNCHANGED applied
Apply == /\ \E n \in (applied + 1)..calls : applied' = n
         /\ UNCHANGED calls
Next == Call \/ Apply
Spec == Init /\ [][Next]_<<calls, applied>>
=============================================================================
