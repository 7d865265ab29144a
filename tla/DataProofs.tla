----------------------------- MODULE DataProofs -----------------------------
(***************************************************************************)
(* Proofs about the stored data.                                           *)
(*                                                                         *)
(* ProfileStore, for every set of profiles and every bound: the requests   *)
(* that wait for the database isolate are the difference between the table *)
(* and what was asked for, as the last one that writes a row decides it    *)
(* (Leads); a list that was not spoiled is the answer that comes last.     *)
(*                                                                         *)
(* Snowflake, for any number of generators, any size of the sequence and   *)
(* any clock: a generator remembers the last id it gave out, and the ones  *)
(* it gave out before are smaller, by their time or by their number.       *)
(***************************************************************************)
EXTENDS ProfileStore, Snowflake, SequenceTheorems, TLAPS

USE StoreAssumption, SnowflakeAssumption

Rows      == [auto : Nat, label : Nat, file : Nat]
MaybeRow  == Rows \cup {NoProfile}
Table     == [Profiles -> MaybeRow]
Writes    == [op : {"write"}, p : Profiles, row : MaybeRow, snapshot : Table, alone : BOOLEAN]
Requests  == Writes \cup [op : {"query"}]
Replies   == [kind : {"done", "failed", "rows"}, value : Table]

(* Every variable of the store is well typed.                              *)
StoreTypeOK ==
    /\ list \in Table /\ db \in Table /\ wanted \in Table
    /\ download \in Table /\ loop \in Table /\ menu \in Table
    /\ writes \in Nat
    /\ requests \in Seq(Requests) /\ replies \in Seq(Replies)
    /\ current \in Profiles \cup {NoProfile}
    /\ fresh \subseteq Profiles /\ deleting \subseteq Profiles

(* The write to the row of p that the requests q end with is in rs; when there  *)
(* is none, the row itself is.                                                  *)
WritesTo(p, q) == {n \in 1 .. Len(q) : q[n].op = "write" /\ q[n].p = p}
Leads(p, q, table, rs) ==
    \/ \E n \in WritesTo(p, q) : q[n].row \in rs /\ \A m \in WritesTo(p, q) : m <= n
    \/ WritesTo(p, q) = {} /\ table[p] \in rs

LEMMA LeadsAppend ==
  ASSUME NEW q \in Seq(Requests), NEW w \in Requests, NEW p, NEW table, NEW rs
  PROVE  /\ w.op = "write" /\ w.p = p /\ w.row \in rs => Leads(p, Append(q, w), table, rs)
         /\ ~(w.op = "write" /\ w.p = p) /\ Leads(p, q, table, rs)
              => Leads(p, Append(q, w), table, rs)
<1>. DEFINE r == Append(q, w)
<1>1. /\ Len(q) \in Nat /\ Len(r) = Len(q) + 1 /\ r[Len(q) + 1] = w
      /\ \A n \in 1 .. Len(q) : r[n] = q[n]
  BY AppendProperties
<1>. HIDE DEF r
<1>2. CASE w.op = "write" /\ w.p = p
  <2>1. Len(r) \in WritesTo(p, r) /\ \A m \in WritesTo(p, r) : m <= Len(r)
    BY <1>1, <1>2 DEF WritesTo
  <2>. QED
    BY <1>1, <1>2, <2>1 DEF Leads, r
<1>3. CASE ~(w.op = "write" /\ w.p = p)
  <2>1. WritesTo(p, r) = WritesTo(p, q)
    BY <1>1, <1>3 DEF WritesTo
  <2>2. \A n \in WritesTo(p, q) : r[n] = q[n]
    BY <1>1 DEF WritesTo
  <2>. QED
    BY <1>3, <2>1, <2>2 DEF Leads, r
<1>. QED
  BY <1>2, <1>3

LEMMA LeadsTail ==
  ASSUME NEW q \in Seq(Requests), q # <<>>, NEW p, NEW table, NEW after, NEW rs,
         Leads(p, q, table, rs),
         after[p] = IF Head(q).op = "write" /\ Head(q).p = p THEN Head(q).row ELSE table[p]
  PROVE  Leads(p, Tail(q), after, rs)
<1>1. /\ Len(q) \in Nat /\ Len(q) > 0 /\ Len(Tail(q)) = Len(q) - 1 /\ Head(q) = q[1]
      /\ \A n \in 1 .. Len(Tail(q)) : Tail(q)[n] = q[n + 1]
  BY HeadTailProperties, EmptySeq
<1>2. \A n \in Nat : n \in WritesTo(p, Tail(q)) <=> n > 0 /\ n + 1 \in WritesTo(p, q)
  BY <1>1 DEF WritesTo
<1>3. WritesTo(p, q) \subseteq Nat \ {0} /\ WritesTo(p, Tail(q)) \subseteq Nat \ {0}
  BY <1>1 DEF WritesTo
<1>4. 1 \in WritesTo(p, q) <=> Head(q).op = "write" /\ Head(q).p = p
  BY <1>1 DEF WritesTo
<1>5. CASE WritesTo(p, q) = {}
  BY <1>2, <1>3, <1>4, <1>5 DEF Leads
<1>6. ASSUME NEW n \in WritesTo(p, q), q[n].row \in rs, \A m \in WritesTo(p, q) : m <= n
      PROVE  Leads(p, Tail(q), after, rs)
  <2>1. CASE n = 1
    <3>1. WritesTo(p, Tail(q)) = {}
      BY <1>2, <1>3, <1>6, <2>1
    <3>. QED
      BY <1>1, <1>4, <1>6, <2>1, <3>1 DEF Leads
  <2>2. CASE n # 1
    <3>1. n - 1 \in WritesTo(p, Tail(q)) /\ Tail(q)[n - 1] = q[n]
      BY <1>1, <1>2, <1>3, <2>2 DEF WritesTo
    <3>2. \A m \in WritesTo(p, Tail(q)) : m <= n - 1
      BY <1>2, <1>3, <1>6
    <3>. QED
      BY <1>6, <3>1, <3>2 DEF Leads
  <2>. QED
    BY <2>1, <2>2
<1>. QED
  BY <1>5, <1>6 DEF Leads

-----------------------------------------------------------------------------
(* A row with another part is a row.                                           *)
LEMMA RowExcept ==
  ASSUME NEW r \in Rows, NEW n \in Nat
  PROVE  /\ [r EXCEPT !.auto = n] \in Rows /\ [r EXCEPT !.label = n] \in Rows
         /\ [r EXCEPT !.file = n] \in Rows
BY DEF Rows

(* NoProfile is not a row.                                                     *)
LEMMA RowOrNone ==
  NoProfile \notin Rows /\ \A r \in MaybeRow : r # NoProfile => r \in Rows
BY DEF Rows, MaybeRow

LEMMA RollbackStep ==
  ASSUME StoreTypeOK, NEW p \in Profiles, NEW row \in MaybeRow, withRollback(p, row)
  PROVE  /\ writes' \in Nat /\ list' \in Table /\ list' = [list EXCEPT ![p] = row]
         /\ requests' \in Seq(Requests) /\ requests' # <<>>
         /\ \E w \in Writes : /\ requests' = Append(requests, w) /\ w.p = p /\ w.row = row
                              /\ w.snapshot = list /\ w.alone = StoreRest
<1>. DEFINE w == [op |-> "write", p |-> p, row |-> row, snapshot |-> list, alone |-> StoreRest]
<1>1. list' = [list EXCEPT ![p] = row] /\ writes' = writes + 1 /\ requests' = Append(requests, w)
  BY DEF withRollback
<1>2. w \in Writes
  BY DEF Writes, StoreTypeOK, StoreRest
<1>3. w \in Requests /\ requests \in Seq(Requests)
  BY <1>2 DEF Requests, StoreTypeOK
<1>4. list' \in Table /\ writes' \in Nat
  BY <1>1 DEF StoreTypeOK, Table
<1>5. w.p = p /\ w.row = row /\ w.snapshot = list /\ w.alone = StoreRest
  OBVIOUS
<1>. HIDE DEF w
<1>6. requests' \in Seq(Requests) /\ requests' # <<>>
  BY <1>1, <1>3, AppendProperties
<1>. QED
  BY <1>1, <1>2, <1>4, <1>5, <1>6

(* What put does, as the invariants see it: a row is stored, and it is the one *)
(* that is wanted unless another one than the one kept was wanted.             *)
Puts(p, kept, row) ==
    /\ withRollback(p, row) /\ UNCHANGED <<db, replies, current>>
    /\ wanted' \in Table /\ wanted'[p] \in Rows
    /\ \A q \in Profiles \ {p} : wanted'[q] = wanted[q]
    /\ kept = wanted[p] => wanted'[p] = row
    /\ excused' = excused \cup Except(kept # wanted[p], p)
                         \cup Except(wanted[p] = NoProfile /\ current = NoProfile, "null")

LEMMA PutStep ==
  ASSUME StoreTypeOK, NEW p \in Profiles, NEW kept \in Rows, NEW row \in Rows, NEW change,
         wanted[p] # NoProfile => change \in Rows, kept = wanted[p] => change = row,
         put(p, kept, row, change), UNCHANGED <<db, replies, current>>
  PROVE  Puts(p, kept, row)
<1>1. /\ wanted \in Table /\ kept # NoProfile /\ Rows \subseteq MaybeRow
      /\ wanted' = [wanted EXCEPT ![p] = IF wanted[p] = NoProfile THEN row ELSE change]
  BY RowOrNone DEF StoreTypeOK, put, MaybeRow
<1>2. wanted' \in Table /\ wanted'[p] \in Rows
  BY <1>1 DEF Table
<1>3. \A q \in Profiles \ {p} : wanted'[q] = wanted[q]
  BY <1>1 DEF Table
<1>4. kept = wanted[p] => wanted'[p] = row
  BY <1>1 DEF Table
<1>. QED
  BY <1>2, <1>3, <1>4 DEF Puts, put

(* The operations that store a profile they have read earlier.                 *)
LEMMA PutOperation ==
  ASSUME StoreTypeOK, NEW p \in Profiles,
         \/ setProfileAutoUpdate(p) \/ renameProfile(p) \/ RefreshProfile(p)
         \/ AutoUpdateNext(p) \/ Downloaded(p)
  PROVE  \E kept \in Rows, row \in Rows : Puts(p, kept, row)
<1>0. /\ list \in Table /\ menu \in Table /\ loop \in Table /\ download \in Table
      /\ wanted \in Table
      /\ wanted[p] # NoProfile => wanted[p] \in Rows
  BY RowOrNone DEF StoreTypeOK, Table
<1>1. CASE setProfileAutoUpdate(p)
  <2>. DEFINE n == list[p].auto + 1
              row == [list[p] EXCEPT !.auto = n]
              change == [wanted[p] EXCEPT !.auto = n]
  <2>1. list[p] \in Rows
    BY <1>0, <1>1, RowOrNone DEF setProfileAutoUpdate, Table
  <2>2. n \in Nat
    BY <2>1 DEF Rows
  <2>3. row \in Rows /\ (wanted[p] # NoProfile => change \in Rows)
    BY <1>0, <2>1, <2>2, RowExcept
  <2>4. put(p, list[p], row, change) /\ UNCHANGED <<db, replies, current>>
    BY <1>1 DEF setProfileAutoUpdate
  <2>5. list[p] = wanted[p] => change = row
    OBVIOUS
  <2>. HIDE DEF row, change, n
  <2>. QED
    BY <2>1, <2>3, <2>4, <2>5, PutStep
<1>2. CASE renameProfile(p)
  <2>. DEFINE n == menu[p].label + 1
              row == [menu[p] EXCEPT !.label = n]
              change == [wanted[p] EXCEPT !.label = n]
  <2>1. menu[p] \in Rows
    BY <1>0, <1>2, RowOrNone DEF renameProfile, Table
  <2>2. n \in Nat
    BY <2>1 DEF Rows
  <2>3. row \in Rows /\ (wanted[p] # NoProfile => change \in Rows)
    BY <1>0, <2>1, <2>2, RowExcept
  <2>4. put(p, menu[p], row, change) /\ UNCHANGED <<db, replies, current>>
    BY <1>2 DEF renameProfile
  <2>5. menu[p] = wanted[p] => change = row
    OBVIOUS
  <2>. HIDE DEF row, change, n
  <2>. QED
    BY <2>1, <2>3, <2>4, <2>5, PutStep
<1>3. ASSUME NEW profile \in MaybeRow, updateProfile(p, profile)
      PROVE  \E kept \in Rows, row \in Rows : Puts(p, kept, row)
  <2>1. profile \in Rows
    BY <1>3, RowOrNone DEF updateProfile
  <2>2. put(p, profile, profile, wanted[p]) /\ UNCHANGED <<db, replies, current>>
    BY <1>3 DEF updateProfile
  <2>. QED
    BY <1>0, <2>1, <2>2, PutStep
<1>4. CASE RefreshProfile(p)
  BY <1>0, <1>3, <1>4 DEF RefreshProfile, Table
<1>5. CASE AutoUpdateNext(p)
  BY <1>0, <1>3, <1>5 DEF AutoUpdateNext, Table
<1>6. CASE Downloaded(p)
  <2>. DEFINE n == download[p].file + 1
              row == [download[p] EXCEPT !.file = n]
              change == [wanted[p] EXCEPT !.file = n]
  <2>1. download[p] \in Rows
    BY <1>0, <1>6, RowOrNone DEF Downloaded, Table
  <2>2. n \in Nat
    BY <2>1 DEF Rows
  <2>3. row \in Rows /\ (wanted[p] # NoProfile => change \in Rows)
    BY <1>0, <2>1, <2>2, RowExcept
  <2>4. put(p, download[p], row, change) /\ UNCHANGED <<db, replies, current>>
    BY <1>6 DEF Downloaded
  <2>5. download[p] = wanted[p] => change = row
    OBVIOUS
  <2>. HIDE DEF row, change, n
  <2>. QED
    BY <2>1, <2>3, <2>4, <2>5, PutStep
<1>. QED
  BY <1>1, <1>2, <1>4, <1>5, <1>6

(* What an operation writes: a row of p, or its removal.                       *)
LEMMA Operation ==
  ASSUME StoreTypeOK, NEW p \in Profiles,
         \/ AddProfile(p) \/ setProfileAutoUpdate(p) \/ renameProfile(p)
         \/ RefreshProfile(p) \/ AutoUpdateNext(p) \/ Downloaded(p) \/ KeysDeleted(p)
  PROVE  \E row \in MaybeRow : withRollback(p, row) /\ UNCHANGED <<db, replies>>
<1>1. CASE AddProfile(p)
  <2>1. [auto |-> 0, label |-> 0, file |-> 0] \in MaybeRow
    BY DEF Rows, MaybeRow
  <2>. QED
    BY <1>1, <2>1 DEF AddProfile
<1>2. CASE KeysDeleted(p)
  BY <1>2 DEF KeysDeleted, MaybeRow
<1>. QED
  BY <1>1, <1>2, PutOperation DEF Puts, MaybeRow

(* What the database does with the next request.                               *)
LEMMA HandleStep ==
  ASSUME StoreTypeOK, requests # <<>>, NEW kind \in {"done", "failed", "rows"},
         NEW table \in Table, NEW value \in Table, Handle(kind, table, value)
  PROVE  /\ Head(requests) \in Requests /\ requests' \in Seq(Requests) /\ db' \in Table
         /\ replies' \in Seq(Replies) /\ replies' # <<>>
         /\ replies'[Len(replies')] = [kind |-> kind, value |-> value]
<1>. USE DEF StoreTypeOK
<1>1. Head(requests) \in Requests /\ Tail(requests) \in Seq(Requests)
  BY HeadTailProperties
<1>2. [kind |-> kind, value |-> value] \in Replies
  BY DEF Replies
<1>. QED
  BY <1>1, <1>2, AppendProperties DEF Handle

LEMMA HeadWrite ==
  ASSUME StoreTypeOK, requests # <<>>, Head(requests).op = "write"
  PROVE  /\ Head(requests) \in Writes
         /\ [db EXCEPT ![Head(requests).p] = Head(requests).row] \in Table
<1>1. Head(requests) \in Requests
  BY HeadTailProperties DEF StoreTypeOK
<1>2. Head(requests) \in Writes
  BY <1>1 DEF Requests
<1>. QED
  BY <1>2 DEF Writes, StoreTypeOK, Table

(* A reply is of the type of the replies; its value is a table.                *)
LEMMA ReplyStep ==
  ASSUME StoreTypeOK, Reply
  PROVE  /\ Head(replies) \in Replies /\ replies' = Tail(replies) /\ replies' \in Seq(Replies)
         /\ list' \in Table /\ requests' \in Seq(Requests)
         /\ IF Head(replies).kind = "done"
            THEN requests' = Append(requests, [op |-> "query"]) /\ list' = list
            ELSE list' = Head(replies).value /\ requests' = requests
<1>. USE DEF StoreTypeOK
<1>1. Head(replies) \in Replies /\ Tail(replies) \in Seq(Replies)
  BY HeadTailProperties DEF Reply
<1>2. Head(replies).value \in Table
  BY <1>1 DEF Replies
<1>3. [op |-> "query"] \in Requests
  BY DEF Requests
<1>4. Append(requests, [op |-> "query"]) \in Seq(Requests)
  BY <1>3, AppendProperties
<1>. QED
  BY <1>1, <1>2, <1>4 DEF Reply

(* Every step keeps the variables well typed.                                  *)
LEMMA StoreTypeNext ==
  ASSUME StoreTypeOK, [StoreNext]_storeVars
  PROVE  StoreTypeOK'
<1>. DEFINE Kept == /\ db' \in Table /\ writes' \in Nat /\ list' \in Table
                    /\ requests' \in Seq(Requests) /\ replies' \in Seq(Replies)
<1>1. ASSUME NEW p \in Profiles, NEW row \in MaybeRow, withRollback(p, row),
             UNCHANGED <<db, replies>>
      PROVE  Kept
  BY <1>1, RollbackStep DEF StoreTypeOK
<1>2. ASSUME UNCHANGED <<rows, isolate>> PROVE Kept
  BY <1>2 DEF StoreTypeOK, rows, isolate
<1>. USE DEF operations
<1>3. ASSUME NEW p \in Profiles, AddProfile(p) PROVE StoreTypeOK'
  <2>1. Kept
    BY <1>1, <1>3, Operation
  <2>2. [auto |-> 0, label |-> 0, file |-> 0] \in MaybeRow
    BY DEF Rows, MaybeRow
  <2>3. wanted' \in Table
    BY <1>3, <2>2 DEF AddProfile, StoreTypeOK, Table
  <2>. QED
    BY <1>3, <2>1, <2>3 DEF AddProfile, StoreTypeOK
<1>4. ASSUME NEW p \in Profiles,
             \/ setProfileAutoUpdate(p) \/ renameProfile(p) \/ RefreshProfile(p)
             \/ AutoUpdateNext(p) \/ Downloaded(p)
      PROVE  StoreTypeOK'
  <2>1. Kept
    BY <1>1, <1>4, Operation
  <2>2. wanted' \in Table /\ UNCHANGED current
    BY <1>4, PutOperation DEF Puts
  <2>3. /\ download' \in Table /\ loop' \in Table /\ menu' \in Table
        /\ UNCHANGED <<fresh, deleting>>
    <3>. USE DEF StoreTypeOK, Table, MaybeRow
    <3>1. CASE setProfileAutoUpdate(p)
      BY <3>1 DEF setProfileAutoUpdate
    <3>2. CASE renameProfile(p)
      BY <3>2 DEF renameProfile, Empty
    <3>3. CASE RefreshProfile(p)
      BY <3>3 DEF RefreshProfile, updateProfile
    <3>4. CASE AutoUpdateNext(p)
      BY <3>4 DEF AutoUpdateNext, updateProfile
    <3>5. CASE Downloaded(p)
      BY <3>5 DEF Downloaded
    <3>. QED
      BY <1>4, <3>1, <3>2, <3>3, <3>4, <3>5
  <2>. QED
    BY <2>1, <2>2, <2>3 DEF StoreTypeOK
<1>5. ASSUME NEW p \in Profiles, ActivateProfile(p) PROVE StoreTypeOK'
  BY <1>2, <1>5 DEF ActivateProfile, StoreTypeOK
<1>6. ASSUME NEW p \in Profiles, OpenMenu(p) PROVE StoreTypeOK'
  <2>1. menu' \in Table
    BY <1>6 DEF OpenMenu, Empty, StoreTypeOK, Table, MaybeRow
  <2>. QED
    BY <1>2, <1>6, <2>1 DEF OpenMenu, StoreTypeOK
<1>9. ASSUME NEW p \in Profiles, DownloadFails(p) PROVE StoreTypeOK'
  <2>1. download' \in Table
    BY <1>9 DEF DownloadFails, StoreTypeOK, Table, MaybeRow
  <2>. QED
    BY <1>2, <1>9, <2>1 DEF DownloadFails, StoreTypeOK
<1>10. ASSUME NEW p \in Profiles, DeleteProfile(p) PROVE StoreTypeOK'
  BY <1>2, <1>10 DEF DeleteProfile, StoreTypeOK
<1>11. ASSUME NEW p \in Profiles, KeysDeleted(p) PROVE StoreTypeOK'
  <2>1. Kept
    BY <1>1, <1>11, Operation
  <2>2. wanted' \in Table
    BY <1>11 DEF KeysDeleted, StoreTypeOK, Table, MaybeRow
  <2>3. current' \in Profiles \cup {NoProfile}
    BY <1>11 DEF KeysDeleted, StoreTypeOK
  <2>. QED
    BY <1>11, <2>1, <2>2, <2>3 DEF KeysDeleted, StoreTypeOK
<1>12. CASE AutoUpdateProfiles
  BY <1>2, <1>12 DEF AutoUpdateProfiles, StoreTypeOK
<1>13. CASE WriteDone \/ WriteFails \/ QueryDone
  <2>1. \E kind \in {"done", "failed", "rows"}, table \in Table, value \in Table :
          requests # <<>> /\ Handle(kind, table, value)
    <3>1. Empty \in Table
      BY DEF Empty, Table, MaybeRow
    <3>2. CASE WriteDone
      BY <3>1, <3>2, HeadWrite DEF WriteDone
    <3>3. CASE WriteFails
      BY <3>3, HeadWrite DEF WriteFails, StoreTypeOK, Writes
    <3>4. CASE QueryDone
      BY <3>4 DEF QueryDone, StoreTypeOK
    <3>. QED
      BY <1>13, <3>2, <3>3, <3>4
  <2>. QED
    BY <2>1, HandleStep DEF Handle, StoreTypeOK
<1>14. CASE Reply
  BY <1>14, ReplyStep DEF Reply, StoreTypeOK
<1>15. CASE UNCHANGED storeVars
  BY <1>15 DEF storeVars, rows, isolate, StoreTypeOK
<1>. QED
  BY <1>3, <1>4, <1>5, <1>6, <1>9, <1>10, <1>11, <1>12, <1>13, <1>14, <1>15
  DEF StoreNext

-----------------------------------------------------------------------------
(* The steps as the list, the table and the requests see them: an operation    *)
(* that writes, one that does not, and the four of the database.  What is      *)
(* excused stays excused.                                                      *)
LEMMA StoreSteps ==
  ASSUME StoreTypeOK, [StoreNext]_storeVars
  PROVE  /\ excused \subseteq excused'
         /\ \/ \E p \in Profiles, row \in MaybeRow :
                 withRollback(p, row) /\ UNCHANGED <<db, replies>>
            \/ UNCHANGED <<rows, isolate>>
            \/ WriteDone \/ WriteFails \/ QueryDone \/ Reply
<1>1. ASSUME NEW p \in Profiles, AddProfile(p) PROVE excused \subseteq excused'
  BY <1>1 DEF AddProfile
<1>2. ASSUME NEW p \in Profiles,
             \/ setProfileAutoUpdate(p) \/ renameProfile(p) \/ RefreshProfile(p)
             \/ AutoUpdateNext(p) \/ Downloaded(p)
      PROVE  excused \subseteq excused'
  BY <1>2, PutOperation DEF Puts
<1>5. ASSUME NEW p \in Profiles, KeysDeleted(p) PROVE excused \subseteq excused'
  BY <1>5 DEF KeysDeleted
<1>6. ASSUME NEW p \in Profiles,
             OpenMenu(p) \/ ActivateProfile(p) \/ DownloadFails(p) \/ DeleteProfile(p)
      PROVE  excused \subseteq excused' /\ UNCHANGED <<rows, isolate>>
  BY <1>6 DEF OpenMenu, ActivateProfile, DownloadFails, DeleteProfile
<1>7. CASE AutoUpdateProfiles \/ UNCHANGED storeVars
  BY <1>7 DEF AutoUpdateProfiles, storeVars
<1>8. CASE WriteDone \/ WriteFails \/ QueryDone \/ Reply
  BY <1>8 DEF WriteDone, WriteFails, QueryDone, Reply
<1>9. ASSUME NEW p \in Profiles,
             \/ AddProfile(p) \/ setProfileAutoUpdate(p) \/ renameProfile(p)
             \/ RefreshProfile(p) \/ AutoUpdateNext(p) \/ Downloaded(p) \/ KeysDeleted(p)
      PROVE  \E row \in MaybeRow : withRollback(p, row) /\ UNCHANGED <<db, replies>>
  BY <1>9, Operation
<1>. QED
  BY <1>1, <1>2, <1>5, <1>6, <1>7, <1>8, <1>9 DEF StoreNext

-----------------------------------------------------------------------------
(* A write that was sent alone is the first request, and puts back the table;  *)
(* when no request is left, the last reply carries the table, or will make the *)
(* stream ask for it.                                                          *)
LoneWrites == \A n \in 1 .. Len(requests) :
    requests[n].op = "write" /\ requests[n].alone => n = 1 /\ requests[n].snapshot = db
LastReply == requests = <<>> =>
    IF replies = <<>> THEN list = db
    ELSE replies[Len(replies)].kind # "done" => replies[Len(replies)].value = db
Listed == "list" \notin excused => LoneWrites /\ LastReply

LEMMA ListedNext ==
  ASSUME StoreTypeOK, Listed, [StoreNext]_storeVars
  PROVE  Listed'
<1>. SUFFICES ASSUME "list" \notin excused', LoneWrites, LastReply
              PROVE  LoneWrites' /\ LastReply'
  BY StoreSteps DEF Listed
<1>. USE DEF StoreTypeOK
<1>1. ASSUME NEW p \in Profiles, NEW row \in MaybeRow, withRollback(p, row),
             UNCHANGED <<db, replies>>
      PROVE  LoneWrites' /\ LastReply'
  <2>1. PICK w \in Writes : /\ requests' = Append(requests, w)
                            /\ w.snapshot = list /\ w.alone = StoreRest
    BY <1>1, RollbackStep
  <2>2. w \in Requests
    BY DEF Requests
  <2>3. /\ Len(requests) \in Nat /\ Len(requests') = Len(requests) + 1
        /\ requests'[Len(requests) + 1] = w /\ requests' # <<>>
        /\ \A n \in 1 .. Len(requests) : requests'[n] = requests[n]
    BY <2>1, <2>2, AppendProperties
  <2>4. w.alone => Len(requests) = 0 /\ list = db
    BY <2>1, EmptySeq DEF StoreRest, LastReply
  <2>5. LoneWrites'
    BY <1>1, <2>1, <2>3, <2>4 DEF LoneWrites
  <2>. QED
    BY <2>3, <2>5 DEF LastReply
<1>2. CASE UNCHANGED <<rows, isolate>>
  BY <1>2 DEF rows, isolate, LoneWrites, LastReply
<1>3. ASSUME requests # <<>>, requests' = Tail(requests) PROVE LoneWrites'
  <2>1. /\ Len(requests) \in Nat /\ Len(requests') = Len(requests) - 1
        /\ \A n \in 1 .. Len(requests') : requests'[n] = requests[n + 1]
    BY <1>3, HeadTailProperties
  <2>2. \A n \in 1 .. Len(requests') : ~(requests[n + 1].op = "write" /\ requests[n + 1].alone)
    BY <2>1 DEF LoneWrites
  <2>. QED
    BY <2>1, <2>2 DEF LoneWrites
<1>4. CASE WriteDone
  <2>1. replies' # <<>> /\ replies'[Len(replies')].kind = "done"
    <3>1. Empty \in Table
      BY DEF Empty, Table, MaybeRow
    <3>2. \E table \in Table : requests # <<>> /\ Handle("done", table, Empty)
      BY <1>4, HeadWrite DEF WriteDone
    <3>3. replies' # <<>> /\ replies'[Len(replies')] = [kind |-> "done", value |-> Empty]
      BY <3>1, <3>2, HandleStep
    <3>. QED
      BY <3>3
  <2>. QED
    BY <1>3, <1>4, <2>1 DEF WriteDone, Handle, LastReply
<1>5. CASE WriteFails
  <2>. DEFINE w == Head(requests)
  <2>1. w \in Writes /\ w = requests[1] /\ 1 \in 1 .. Len(requests)
    BY <1>5, HeadWrite, HeadTailProperties, EmptySeq DEF WriteFails
  <2>2. w.alone
    BY <1>5 DEF WriteFails, Except
  <2>3. w.snapshot = db
    BY <1>5, <2>1, <2>2 DEF WriteFails, LoneWrites
  <2>4. replies' # <<>> /\ replies'[Len(replies')].value = db /\ db' = db
    BY <1>5, <2>3, HandleStep DEF WriteFails, Handle
  <2>. QED
    BY <1>3, <1>5, <2>4 DEF WriteFails, Handle, LastReply
<1>6. CASE QueryDone
  <2>1. replies' # <<>> /\ replies'[Len(replies')].value = db /\ db' = db
    BY <1>6, HandleStep DEF QueryDone, Handle
  <2>. QED
    BY <1>3, <1>6, <2>1 DEF QueryDone, Handle, LastReply
<1>7. CASE Reply
  <2>1. db' = db /\ replies # <<>>
    BY <1>7 DEF Reply
  <2>2. CASE Head(replies).kind = "done"
    <3>1. requests' = Append(requests, [op |-> "query"]) /\ [op |-> "query"] \in Requests
      BY <1>7, <2>2, ReplyStep DEF Requests
    <3>2. /\ Len(requests) \in Nat /\ Len(requests') = Len(requests) + 1
          /\ requests'[Len(requests) + 1].op = "query" /\ requests' # <<>>
          /\ \A n \in 1 .. Len(requests) : requests'[n] = requests[n]
      BY <3>1, AppendProperties
    <3>3. LoneWrites'
      BY <2>1, <3>2 DEF LoneWrites
    <3>. QED
      BY <3>2, <3>3 DEF LastReply
  <2>3. CASE Head(replies).kind # "done"
    <3>1. /\ list' = Head(replies).value /\ requests' = requests /\ replies' = Tail(replies)
          /\ replies' \in Seq(Replies)
      BY <1>7, <2>3, ReplyStep
    <3>2. /\ Len(replies) \in Nat \ {0} /\ Len(replies') = Len(replies) - 1
          /\ Head(replies) = replies[1]
          /\ \A n \in 1 .. Len(replies') : replies'[n] = replies[n + 1]
      BY <2>1, <3>1, HeadTailProperties, EmptySeq
    <3>3. ASSUME requests = <<>>, replies' = <<>> PROVE list' = db
      <4>1. Len(replies) = 1
        BY <3>2, <3>3
      <4>. QED
        BY <2>1, <2>3, <3>1, <3>2, <3>3, <4>1 DEF LastReply
    <3>4. ASSUME replies' # <<>> PROVE replies'[Len(replies')] = replies[Len(replies)]
      <4>1. Len(replies') \in 1 .. Len(replies')
        BY <3>1, <3>4, EmptySeq
      <4>. QED
        BY <3>2, <4>1
    <3>5. LastReply'
      BY <2>1, <3>1, <3>3, <3>4 DEF LastReply
    <3>. QED
      BY <2>1, <3>1, <3>5 DEF LoneWrites
  <2>. QED
    BY <2>2, <2>3
<1>. QED
  BY <1>1, <1>2, <1>4, <1>5, <1>6, <1>7, StoreSteps

-----------------------------------------------------------------------------
(* A write that is sent leads its own row, and no other.                       *)
LEMMA LeadsRollback ==
  ASSUME StoreTypeOK, NEW q \in Profiles, NEW row \in MaybeRow, withRollback(q, row),
         UNCHANGED db, NEW p \in Profiles, NEW rs
  PROVE  /\ q = p /\ row \in rs => Leads(p, requests', db', rs)
         /\ q # p /\ Leads(p, requests, db, rs) => Leads(p, requests', db', rs)
<1>1. PICK w \in Writes : requests' = Append(requests, w) /\ w.p = q /\ w.row = row
  BY RollbackStep
<1>2. w \in Requests /\ requests \in Seq(Requests) /\ w.op = "write"
  BY DEF Requests, Writes, StoreTypeOK
<1>. QED
  BY <1>1, <1>2, LeadsAppend

(* What the database does keeps what leads, but for the row of a failed write. *)
LEMMA LeadsDatabase ==
  ASSUME StoreTypeOK, NEW p \in Profiles, NEW rs, Leads(p, requests, db, rs),
         \/ WriteDone \/ QueryDone \/ Reply
         \/ WriteFails /\ Head(requests).p # p
  PROVE  Leads(p, requests', db', rs)
<1>0. requests \in Seq(Requests) /\ db \in Table
  BY DEF StoreTypeOK
<1>1. CASE WriteDone
  <2>1. /\ requests # <<>> /\ Head(requests).op = "write" /\ requests' = Tail(requests)
        /\ db' = [db EXCEPT ![Head(requests).p] = Head(requests).row]
    BY <1>1 DEF WriteDone, Handle
  <2>2. db'[p] = IF Head(requests).p = p THEN Head(requests).row ELSE db[p]
    BY <1>0, <2>1 DEF Table
  <2>. QED
    BY <1>0, <2>1, <2>2, LeadsTail
<1>2. CASE QueryDone
  <2>1. /\ requests # <<>> /\ Head(requests).op # "write" /\ requests' = Tail(requests) /\ db' = db
    BY <1>2 DEF QueryDone, Handle
  <2>. QED
    BY <1>0, <2>1, LeadsTail
<1>3. CASE WriteFails /\ Head(requests).p # p
  <2>1. /\ requests # <<>> /\ requests' = Tail(requests) /\ db' = db
    BY <1>3 DEF WriteFails, Handle
  <2>. QED
    BY <1>0, <1>3, <2>1, LeadsTail
<1>4. CASE Reply
  <2>1. db' = db /\ (requests' = requests \/ requests' = Append(requests, [op |-> "query"]))
    BY <1>4 DEF Reply
  <2>2. [op |-> "query"] \in Requests /\ [op |-> "query"].op # "write"
    BY DEF Requests
  <2>3. CASE requests' = requests
    BY <2>1, <2>3
  <2>4. CASE requests' = Append(requests, [op |-> "query"])
    <3>. DEFINE query == [op |-> "query"]
    <3>. HIDE DEF query
    <3>1. query \in Requests /\ ~(query.op = "write" /\ query.p = p)
      BY <2>2 DEF query
    <3>2. requests' = Append(requests, query)
      BY <2>4 DEF query
    <3>. QED
      BY <1>0, <2>1, <3>1, <3>2, LeadsAppend
  <2>. QED
    BY <2>1, <2>3, <2>4
<1>. QED
  BY <1>1, <1>2, <1>3, <1>4

-----------------------------------------------------------------------------
(* What the table will hold of a row, when the writes under way are done, is   *)
(* what the operations want.                                                   *)
Written == \A p \in Profiles \ excused : Leads(p, requests, db, {wanted[p]})

LEMMA WrittenNext ==
  ASSUME StoreTypeOK, Written, [StoreNext]_storeVars
  PROVE  Written'
<1>. SUFFICES ASSUME NEW p \in Profiles \ excused'
              PROVE  Leads(p, requests', db', {wanted'[p]})
  BY DEF Written
<1>0. p \in Profiles /\ p \notin excused /\ Leads(p, requests, db, {wanted[p]})
  BY StoreSteps DEF Written
<1>1. ASSUME NEW q \in Profiles, NEW row \in MaybeRow, withRollback(q, row), UNCHANGED db,
             q # p => wanted'[p] = wanted[p], q = p => wanted'[p] = row
      PROVE  Leads(p, requests', db', {wanted'[p]})
  BY <1>0, <1>1, LeadsRollback
<1>2. ASSUME NEW q \in Profiles, AddProfile(q) PROVE Leads(p, requests', db', {wanted'[p]})
  <2>1. [auto |-> 0, label |-> 0, file |-> 0] \in MaybeRow
    BY DEF Rows, MaybeRow
  <2>2. /\ withRollback(q, [auto |-> 0, label |-> 0, file |-> 0]) /\ UNCHANGED db
        /\ wanted' = [wanted EXCEPT ![q] = [auto |-> 0, label |-> 0, file |-> 0]]
    BY <1>2 DEF AddProfile
  <2>3. /\ q # p => wanted'[p] = wanted[p]
        /\ q = p => wanted'[p] = [auto |-> 0, label |-> 0, file |-> 0]
    BY <1>0, <2>2 DEF StoreTypeOK, Table
  <2>. QED
    BY <1>1, <2>1, <2>2, <2>3
<1>3. ASSUME NEW q \in Profiles,
             \/ setProfileAutoUpdate(q) \/ renameProfile(q) \/ RefreshProfile(q)
             \/ AutoUpdateNext(q) \/ Downloaded(q)
      PROVE  Leads(p, requests', db', {wanted'[p]})
  <2>1. PICK kept \in Rows, row \in Rows : Puts(q, kept, row)
    BY <1>3, PutOperation
  <2>2. q = p => kept = wanted[p]
    BY <2>1 DEF Puts, Except
  <2>3. (q # p => wanted'[p] = wanted[p]) /\ (q = p => wanted'[p] = row)
    BY <1>0, <2>1, <2>2 DEF Puts
  <2>. QED
    BY <1>1, <2>1, <2>3 DEF Puts, MaybeRow
<1>6. ASSUME NEW q \in Profiles, KeysDeleted(q) PROVE Leads(p, requests', db', {wanted'[p]})
  <2>1. /\ withRollback(q, NoProfile) /\ UNCHANGED db /\ NoProfile \in MaybeRow
        /\ wanted' = [wanted EXCEPT ![q] = NoProfile]
    BY <1>6 DEF KeysDeleted, MaybeRow
  <2>2. /\ q # p => wanted'[p] = wanted[p]
        /\ q = p => wanted'[p] = NoProfile
    BY <1>0, <2>1 DEF StoreTypeOK, Table
  <2>. QED
    BY <1>1, <2>1, <2>2
<1>7. ASSUME UNCHANGED <<rows, isolate, wanted>> PROVE Leads(p, requests', db', {wanted'[p]})
  BY <1>0, <1>7 DEF rows, isolate
<1>8. ASSUME NEW q \in Profiles,
             OpenMenu(q) \/ ActivateProfile(q) \/ DownloadFails(q) \/ DeleteProfile(q)
      PROVE  Leads(p, requests', db', {wanted'[p]})
  BY <1>7, <1>8 DEF OpenMenu, ActivateProfile, DownloadFails, DeleteProfile
<1>9. CASE AutoUpdateProfiles \/ UNCHANGED storeVars
  BY <1>7, <1>9 DEF AutoUpdateProfiles, storeVars
<1>10. CASE WriteDone \/ WriteFails \/ QueryDone \/ Reply
  <2>1. wanted' = wanted
    BY <1>10 DEF WriteDone, WriteFails, QueryDone, Reply, Handle
  <2>2. WriteFails => Head(requests).p # p
    BY DEF WriteFails
  <2>. QED
    BY <1>0, <1>10, <2>1, <2>2, LeadsDatabase
<1>. QED
  BY <1>2, <1>3, <1>6, <1>8, <1>9, <1>10 DEF StoreNext

-----------------------------------------------------------------------------
(* While no write has failed and none was chosen from a list that is wrong, the *)
(* table will hold a row exactly where one is wanted, a profile that came back *)
(* included, and the current profile is wanted.                                *)
Present(row) == IF row = NoProfile THEN {NoProfile} ELSE Rows
Fits == \A p \in Profiles : Leads(p, requests, db, Present(wanted[p]))
Pointed == IF current = NoProfile THEN "null" \in excused \/ wanted = Empty
                                  ELSE wanted[current] # NoProfile
Chosen == "current" \notin excused => "list" \notin excused /\ Pointed /\ Fits

LEMMA ChosenNext ==
  ASSUME StoreTypeOK, Chosen, [StoreNext]_storeVars
  PROVE  Chosen'
<1>. SUFFICES ASSUME "current" \notin excused', "list" \notin excused, Pointed, Fits
              PROVE  "list" \notin excused' /\ Pointed' /\ Fits'
  BY StoreSteps DEF Chosen
<1>0. /\ list \in Table /\ wanted \in Table /\ download \in Table /\ loop \in Table
      /\ current \in Profiles \cup {NoProfile}
  BY DEF StoreTypeOK
<1>1. ASSUME NEW q \in Profiles, NEW row \in MaybeRow, withRollback(q, row), UNCHANGED db,
             \A p \in Profiles \ {q} : wanted'[p] = wanted[p],
             wanted'[q] = NoProfile <=> row = NoProfile
      PROVE  Fits'
  <2>1. row \in Present(wanted'[q])
    BY <1>1 DEF Present, MaybeRow
  <2>2. ASSUME NEW p \in Profiles PROVE Leads(p, requests', db', Present(wanted'[p]))
    <3>1. CASE p = q
      BY <1>1, <2>1, <3>1, LeadsRollback
    <3>2. CASE p # q
      <4>1. Leads(p, requests, db, Present(wanted[p])) /\ wanted'[p] = wanted[p]
        BY <1>1, <3>2 DEF Fits
      <4>. QED
        BY <1>1, <3>2, <4>1, LeadsRollback
    <3>. QED
      BY <3>1, <3>2
  <2>. QED
    BY <2>2 DEF Fits
<1>2. ASSUME NEW q \in Profiles, AddProfile(q)
      PROVE  "list" \notin excused' /\ Pointed' /\ Fits'
  <2>. DEFINE row == [auto |-> 0, label |-> 0, file |-> 0]
  <2>1. row \in Rows /\ row \in MaybeRow /\ row # NoProfile
    BY RowOrNone DEF Rows, MaybeRow
  <2>2. /\ withRollback(q, row) /\ UNCHANGED <<db, excused>> /\ current' = q
        /\ wanted' = [wanted EXCEPT ![q] = row]
    BY <1>2 DEF AddProfile
  <2>. HIDE DEF row
  <2>3. wanted'[q] = row /\ \A p \in Profiles \ {q} : wanted'[p] = wanted[p]
    BY <1>0, <2>2 DEF Table
  <2>4. Fits'
    BY <1>1, <2>1, <2>2, <2>3
  <2>5. Pointed'
    BY <2>1, <2>2, <2>3 DEF Pointed
  <2>. QED
    BY <2>2, <2>4, <2>5
<1>3. ASSUME NEW q \in Profiles,
             \/ setProfileAutoUpdate(q) \/ renameProfile(q) \/ RefreshProfile(q)
             \/ AutoUpdateNext(q) \/ Downloaded(q)
      PROVE  "list" \notin excused' /\ Pointed' /\ Fits'
  <2>1. PICK kept \in Rows, row \in Rows : Puts(q, kept, row)
    BY <1>3, PutOperation
  <2>2. row # NoProfile /\ wanted'[q] # NoProfile /\ row \in MaybeRow
    BY <2>1, RowOrNone DEF Puts, MaybeRow
  <2>3. Fits'
    BY <1>1, <2>1, <2>2 DEF Puts
  <2>4. "list" \notin excused'
    BY <2>1, StoreAssumption DEF Puts, Except
  <2>5. CASE current = NoProfile
    <3>1. wanted[q] = NoProfile => "null" \in excused'
      BY <2>1, <2>5 DEF Puts, Except
    <3>2. wanted = Empty => wanted[q] = NoProfile
      BY DEF Empty
    <3>3. "null" \in excused'
      BY <2>1, <2>5, <3>1, <3>2 DEF Pointed, Puts
    <3>. QED
      BY <2>1, <2>3, <2>4, <2>5, <3>3 DEF Pointed, Puts
  <2>6. CASE current # NoProfile
    <3>1. current' = current /\ wanted'[current] # NoProfile
      BY <1>0, <2>1, <2>2, <2>6 DEF Pointed, Puts
    <3>. QED
      BY <2>3, <2>4, <2>6, <3>1 DEF Pointed
  <2>. QED
    BY <2>5, <2>6
<1>7. ASSUME NEW q \in Profiles, KeysDeleted(q)
      PROVE  "list" \notin excused' /\ Pointed' /\ Fits'
  <2>1. /\ withRollback(q, NoProfile) /\ UNCHANGED db /\ NoProfile \in MaybeRow
        /\ wanted' = [wanted EXCEPT ![q] = NoProfile]
        /\ "list" \notin excused' /\ excused \subseteq excused'
        /\ current = q => \A p \in Profiles \ {q} : Known(p)
    BY <1>7 DEF KeysDeleted, MaybeRow, Except
  <2>2. wanted'[q] = NoProfile /\ \A p \in Profiles \ {q} : wanted'[p] = wanted[p]
    BY <1>0, <2>1 DEF Table
  <2>3. Fits'
    BY <1>1, <2>1, <2>2
  <2>4. CASE current = q
    <3>1. list'[q] = NoProfile /\ \A p \in Profiles \ {q} : list'[p] = list[p]
      BY <1>0, <2>1 DEF withRollback, Table
    <3>2. \A p \in Profiles : list'[p] = NoProfile <=> wanted'[p] = NoProfile
      BY <2>1, <2>2, <2>4, <3>1 DEF Known
    <3>3. IF list' = Empty THEN current' = NoProfile
          ELSE current' \in {p \in Profiles : list'[p] # NoProfile}
      BY <1>7, <2>4 DEF KeysDeleted
    <3>4. CASE list' = Empty
      <4>1. \A p \in Profiles : wanted'[p] = NoProfile
        BY <3>2, <3>4 DEF Empty
      <4>2. wanted' = Empty
        BY <1>0, <2>1, <4>1 DEF Empty, Table
      <4>. QED
        BY <2>1, <2>3, <3>3, <3>4, <4>2 DEF Pointed, Empty
    <3>5. CASE list' # Empty
      <4>1. current' # NoProfile
        BY <3>3, <3>5, StoreAssumption
      <4>. QED
        BY <2>1, <2>3, <3>2, <3>3, <3>5, <4>1 DEF Pointed
    <3>. QED
      BY <3>4, <3>5
  <2>5. CASE current # q
    <3>1. current' = current
      BY <1>7, <2>5 DEF KeysDeleted
    <3>2. CASE current = NoProfile
      <4>1. wanted = Empty => wanted' = Empty
        BY <2>1 DEF Empty
      <4>. QED
        BY <2>1, <2>3, <3>1, <3>2, <4>1 DEF Pointed, Empty
    <3>3. CASE current # NoProfile
      BY <1>0, <2>1, <2>2, <2>3, <2>5, <3>1, <3>3 DEF Pointed
    <3>. QED
      BY <3>2, <3>3
  <2>. QED
    BY <2>4, <2>5
<1>8. ASSUME UNCHANGED <<rows, isolate, wanted, excused, current>>
      PROVE  "list" \notin excused' /\ Pointed' /\ Fits'
  BY <1>8 DEF rows, isolate, Pointed, Empty, Fits
<1>9. ASSUME NEW q \in Profiles, OpenMenu(q) \/ DownloadFails(q) \/ DeleteProfile(q)
      PROVE  "list" \notin excused' /\ Pointed' /\ Fits'
  BY <1>8, <1>9 DEF OpenMenu, DownloadFails, DeleteProfile
<1>10. ASSUME NEW q \in Profiles, ActivateProfile(q)
       PROVE  "list" \notin excused' /\ Pointed' /\ Fits'
  <2>1. /\ UNCHANGED <<rows, isolate, wanted>> /\ current' = q /\ wanted[q] # NoProfile
        /\ "list" \notin excused'
    BY <1>10 DEF ActivateProfile, Except, Known
  <2>. QED
    BY <2>1 DEF rows, isolate, Pointed, Fits
<1>11. CASE AutoUpdateProfiles \/ UNCHANGED storeVars
  BY <1>8, <1>11 DEF AutoUpdateProfiles, storeVars
<1>12. CASE WriteDone \/ WriteFails \/ QueryDone \/ Reply
  <2>1. ~WriteFails /\ UNCHANGED <<wanted, excused, current>>
    BY <1>12 DEF WriteDone, WriteFails, QueryDone, Reply, Handle
  <2>2. Fits'
    BY <1>12, <2>1, LeadsDatabase DEF Fits
  <2>. QED
    BY <2>1, <2>2 DEF Pointed, Empty
<1>. QED
  BY <1>2, <1>3, <1>7, <1>9, <1>10, <1>11, <1>12 DEF StoreNext

-----------------------------------------------------------------------------
(* The inductive invariant of the store.                                       *)
StoreInv == StoreTypeOK /\ Written /\ Listed /\ Chosen

LEMMA StoreInvAlways == StoreSpec => []StoreInv
<1>1. StoreInit => StoreInv
  <2>. SUFFICES ASSUME StoreInit PROVE StoreInv
    OBVIOUS
  <2>. USE DEF StoreInit
  <2>1. Empty \in Table /\ \A p \in Profiles : Empty[p] = NoProfile
    BY DEF Empty, Table, MaybeRow
  <2>2. Len(requests) = 0 /\ Len(replies) = 0
    OBVIOUS
  <2>3. StoreTypeOK
    BY <2>1 DEF StoreTypeOK
  <2>5. \A p \in Profiles : WritesTo(p, requests) = {}
    BY <2>2 DEF WritesTo
  <2>6. Written /\ Fits
    BY <2>1, <2>5 DEF Written, Fits, Leads, Present
  <2>7. Listed /\ Pointed
    BY <2>2 DEF Listed, LoneWrites, LastReply, Pointed
  <2>. QED
    BY <2>3, <2>6, <2>7 DEF StoreInv, Chosen
<1>2. StoreInv /\ [StoreNext]_storeVars => StoreInv'
  BY StoreTypeNext, WrittenNext, ListedNext, ChosenNext DEF StoreInv
<1>. QED
  BY <1>1, <1>2, PTL DEF StoreSpec

(* At rest no write is under way, so what leads is what the table holds.       *)
LEMMA AtRest ==
  ASSUME StoreRest, NEW p, NEW rs, Leads(p, requests, db, rs)
  PROVE  db[p] \in rs
<1>1. WritesTo(p, requests) = {}
  BY DEF StoreRest, WritesTo
<1>. QED
  BY <1>1 DEF Leads

(* At rest the list shown is the table, whatever failed, unless a write failed *)
(* that others overlapped (withRollback of providers/database.dart).           *)
THEOREM ListAgreesAlways == StoreSpec => []ListAgrees
<1>1. StoreInv => ListAgrees
  BY DEF StoreInv, Listed, LastReply, ListAgrees, StoreRest
<1>. QED
  BY <1>1, StoreInvAlways, PTL

(* At rest the table holds each profile as the operations want it, in their    *)
(* order, but for those of which one was stored that had been read before its  *)
(* last change (by the menu of a rename, a download, the loop of the automatic *)
(* updates, or from a list that was set back) and those a write failed of:     *)
(* renameProfile, updateProfile, Profiles of providers/database.dart.          *)
THEOREM EditsKeptAlways == StoreSpec => []EditsKept
<1>1. StoreInv => EditsKept
  BY AtRest DEF StoreInv, Written, EditsKept
<1>. QED
  BY <1>1, StoreInvAlways, PTL

(* At rest the current profile is in the list, and is null only when the list  *)
(* is empty, but for the exceptions CurrentExists names: a failed write, a tap *)
(* or a deletion while the list is wrong, and, for null, a profile that came   *)
(* back when none was current (deleteProfile of providers/action.dart).        *)
THEOREM CurrentExistsAlways == StoreSpec => []CurrentExists
<1>1. StoreInv => CurrentExists
  <2>. SUFFICES ASSUME StoreInv, StoreRest, "current" \notin excused
                PROVE  IF current = NoProfile THEN "null" \in excused \/ list = Empty
                                              ELSE list[current] # NoProfile
    BY DEF CurrentExists
  <2>1. list = db /\ Pointed /\ list \in Table /\ wanted \in Table
        /\ current \in Profiles \cup {NoProfile}
    BY DEF StoreInv, Chosen, Listed, LastReply, StoreRest, StoreTypeOK
  <2>2. \A p \in Profiles : db[p] \in Present(wanted[p])
    BY AtRest DEF StoreInv, Chosen, Fits
  <2>3. \A p \in Profiles : list[p] = NoProfile <=> wanted[p] = NoProfile
    BY <2>1, <2>2, RowOrNone DEF Present
  <2>4. CASE current = NoProfile /\ "null" \notin excused
    <3>1. \A p \in Profiles : wanted[p] = NoProfile
      BY <2>1, <2>4 DEF Pointed, Empty
    <3>2. list = Empty
      BY <2>1, <2>3, <3>1 DEF Empty, Table
    <3>. QED
      BY <2>4, <3>2
  <2>5. CASE current # NoProfile
    BY <2>1, <2>3, <2>5 DEF Pointed
  <2>. QED
    BY <2>4, <2>5
<1>. QED
  BY <1>1, StoreInvAlways, PTL

-----------------------------------------------------------------------------
(* The types, no repetition so far, and a generator has not gone back.      *)
SnowflakeInv ==
    /\ now \in Nat
    /\ _lastTimestamp \in [Generators -> Nat] /\ _sequence \in [Generators -> Nat]
    /\ ids \subseteq [time : Nat, n : Nat, by : Generators]
    /\ \A i \in ids : \/ i.time < _lastTimestamp[i.by]
                      \/ i.time = _lastTimestamp[i.by] /\ i.n <= _sequence[i.by]
    /\ IdsUnique

(* An id above the last one of its generator keeps the invariant.           *)
LEMMA GiveOutInv ==
  ASSUME SnowflakeInv, NEW g \in Generators, NEW time \in Nat, NEW n \in Nat,
         \/ time > _lastTimestamp[g]
         \/ time = _lastTimestamp[g] /\ n > _sequence[g],
         GiveOut(g, time, n)
  PROVE  SnowflakeInv'
<1>. DEFINE id == [time |-> time, n |-> n, by |-> g]
<1>1. /\ now' = time /\ ids' = ids \cup {id}
      /\ _lastTimestamp' = [_lastTimestamp EXCEPT ![g] = time]
      /\ _sequence' = [_sequence EXCEPT ![g] = n]
  BY DEF GiveOut
<1>2. id \in [time : Nat, n : Nat, by : Generators] /\ id.time = time /\ id.n = n /\ id.by = g
  OBVIOUS
<1>3. \A i \in ids : i.by = g => i.time < time \/ (i.time = time /\ i.n < n)
  BY DEF SnowflakeInv
<1>4. IdsUnique'
  <2>1. SUFFICES ASSUME ~overlapped' PROVE ~repeated'
    BY DEF IdsUnique
  <2>2. ~overlapped /\ \A i \in ids : i.by # g => ~(i.time >= time)
    BY <2>1 DEF GiveOut
  <2>3. \A i \in ids : i.time \in Nat /\ i.n \in Nat
    BY DEF SnowflakeInv
  <2>4. \A i \in ids : ~(i.time = time /\ i.n = n)
    BY <1>3, <2>2, <2>3
  <2>. QED
    BY <2>2, <2>4 DEF SnowflakeInv, IdsUnique, GiveOut
<1>5. \A i \in ids' : \/ i.time < _lastTimestamp'[i.by]
                      \/ i.time = _lastTimestamp'[i.by] /\ i.n <= _sequence'[i.by]
  <2>1. SUFFICES ASSUME NEW i \in ids' 
        PROVE  \/ i.time < _lastTimestamp'[i.by]
               \/ i.time = _lastTimestamp'[i.by] /\ i.n <= _sequence'[i.by]
    OBVIOUS
  <2>2. CASE i = id
    BY <1>1, <1>2, <2>2 DEF SnowflakeInv
  <2>3. CASE i \in ids /\ i.by = g
    BY <1>1, <1>3, <2>3 DEF SnowflakeInv
  <2>4. CASE i \in ids /\ i.by # g
    BY <1>1, <2>4 DEF SnowflakeInv
  <2>. QED
    BY <1>1, <2>1, <2>2, <2>3, <2>4
<1>. QED
  BY <1>1, <1>2, <1>4, <1>5 DEF SnowflakeInv

LEMMA SnowflakeInvNext == SnowflakeInv /\ [SnowflakeNext]_snowflakeVars => SnowflakeInv'
<1>. SUFFICES ASSUME SnowflakeInv, [SnowflakeNext]_snowflakeVars PROVE SnowflakeInv'
  OBVIOUS
<1>1. CASE Clock
  BY <1>1 DEF Clock, SnowflakeInv, IdsUnique
<1>2. ASSUME NEW g \in Generators, FirstOfTime(g) PROVE SnowflakeInv'
  <2>1. now \in Nat /\ now > _lastTimestamp[g] /\ GiveOut(g, now, 0)
    BY <1>2 DEF FirstOfTime, SnowflakeInv
  <2>. QED
    BY <2>1, GiveOutInv
<1>3. ASSUME NEW g \in Generators, NextOfTime(g) PROVE SnowflakeInv'
  <2>1. _sequence[g] \in Nat
    BY DEF SnowflakeInv
  <2>2. /\ now \in Nat /\ now = _lastTimestamp[g] /\ _sequence[g] + 1 \in Nat
        /\ _sequence[g] + 1 > _sequence[g] /\ GiveOut(g, now, _sequence[g] + 1)
    BY <1>3, <2>1 DEF NextOfTime, SnowflakeInv
  <2>. QED
    BY <2>2, GiveOutInv
<1>4. ASSUME NEW g \in Generators, _getNextMillis(g) PROVE SnowflakeInv'
  <2>1. PICK time \in now + 1..MaxTime : GiveOut(g, time, 0)
    BY <1>4 DEF _getNextMillis
  <2>2. time \in Nat /\ time > _lastTimestamp[g]
    BY <1>4 DEF _getNextMillis, SnowflakeInv
  <2>. QED
    BY <2>1, <2>2, GiveOutInv
<1>5. CASE UNCHANGED snowflakeVars
  BY <1>5 DEF snowflakeVars, SnowflakeInv, IdsUnique
<1>. QED
  BY <1>1, <1>2, <1>3, <1>4, <1>5 DEF SnowflakeNext

(* No id is given out twice, whatever the clock does, unless a generator    *)
(* gave one out in a millisecond that another one had reached or passed.    *)
THEOREM SnowflakeIdsUnique == SnowflakeSpec => []IdsUnique
<1>1. SnowflakeInit => SnowflakeInv
  BY DEF SnowflakeInit, SnowflakeInv, IdsUnique
<1>2. SnowflakeInv => IdsUnique
  BY DEF SnowflakeInv
<1>. QED
  BY <1>1, <1>2, SnowflakeInvNext, PTL DEF SnowflakeSpec
=============================================================================
