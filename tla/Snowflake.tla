----------------------------- MODULE Snowflake -----------------------------
(* The ids of profiles, rules, groups and scripts (common/snowflake.dart): a   *)
(* time in milliseconds and a number within it.  Each isolate, and each run of *)
(* the application, has a generator of its own, all with the same worker id.   *)
EXTENDS Naturals

CONSTANTS Generators,
          SequenceSize,   \* ids of a millisecond: 4096 in the code
          MaxTime         \* bound: milliseconds

ASSUME SnowflakeAssumption == SequenceSize \in Nat \ {0} /\ MaxTime \in Nat

VARIABLES
    now,            \* the clock, which may be set back
    _lastTimestamp, _sequence,   \* per generator
    ids,            \* history: the ids given out, and by whom
    repeated,       \* history: one of them was given out before
    overlapped      \* history: a generator was not ahead of all the others
snowflakeVars == <<now, _lastTimestamp, _sequence, ids, repeated, overlapped>>

SnowflakeInit ==
    /\ now \in 1..MaxTime
    /\ _lastTimestamp = [g \in Generators |-> 0]   \* -1 in the code
    /\ _sequence = [g \in Generators |-> 0]
    /\ ids = {} /\ repeated = FALSE /\ overlapped = FALSE

Clock == /\ now' \in 1..MaxTime
         /\ UNCHANGED <<_lastTimestamp, _sequence, ids, repeated, overlapped>>

GiveOut(g, time, n) ==
    /\ now' = time
    /\ _lastTimestamp' = [_lastTimestamp EXCEPT ![g] = time]
    /\ _sequence' = [_sequence EXCEPT ![g] = n]
    /\ ids' = ids \cup {[time |-> time, n |-> n, by |-> g]}
    /\ repeated' = (repeated \/ \E i \in ids : i.time = time /\ i.n = n)
    /\ overlapped' = (overlapped \/ \E i \in ids : i.by # g /\ i.time >= time)

(* A bug: a clock that was set back is not noticed.                            *)
FirstOfTime_NoCheck(g) == now # _lastTimestamp[g] /\ GiveOut(g, now, 0)

(* With a clock that was set back it throws, and gives out nothing.            *)
FirstOfTime(g) == now > _lastTimestamp[g] /\ GiveOut(g, now, 0)

NextOfTime(g) ==
    /\ now = _lastTimestamp[g] /\ _sequence[g] + 1 < SequenceSize
    /\ GiveOut(g, now, _sequence[g] + 1)

(* The numbers have run out: it waits for a later millisecond.                 *)
_getNextMillis(g) ==
    /\ now = _lastTimestamp[g] /\ _sequence[g] + 1 = SequenceSize
    /\ \E time \in now + 1..MaxTime : GiveOut(g, time, 0)

SnowflakeNext ==
    \/ Clock
    \/ \E g \in Generators : FirstOfTime(g) \/ NextOfTime(g) \/ _getNextMillis(g)
SnowflakeSpec == SnowflakeInit /\ [][SnowflakeNext]_snowflakeVars

(* No id is given out twice, on whatever clock, unless a generator gave one    *)
(* out in a millisecond that another one (an isolate that decodes a backup, or *)
(* the application before its restart) had reached or passed.                  *)
IdsUnique == ~overlapped => ~repeated
=============================================================================
