------------------------------ MODULE RuleList ------------------------------
(* The list of rules (GlobalRules in providers/database.dart, and those of a   *)
(* profile): an operation changes the list and writes the ordering key of one  *)
(* rule; the list gets the new keys when the stream has read the table again.  *)
EXTENDS Indexing

CONSTANTS Rules,
          MaxWaiting,  \* bound: writes that wait for the database
          MaxFraction  \* bound: digits of a fraction

VARIABLES
    value,       \* the list: rules with the keys that were read last
    links,       \* the table: a key per rule, or NoKey
    waiting,     \* writes under way, each with the list as it was
    unread,      \* the stream has not read the table since it was written
    arranged,    \* history: the rules in the order the user put them in
    spoiled      \* history: an operation came before the one before it was
                 \* read back, or threw, or its write failed behind another one
ruleVars == <<value, links, waiting, unread, arranged, spoiled>>

NoKey == [head |-> 0]
Ids(s) == [i \in DOMAIN s |-> s[i].id]
Keys(s) == [i \in DOMAIN s |-> s[i].key]
RulesRest == waiting = <<>> /\ ~unread

RulesInit ==
    /\ value = <<>> /\ links = [r \in Rules |-> NoKey]
    /\ waiting = <<>> /\ unread = FALSE
    /\ arranged = <<>> /\ spoiled = FALSE

(* The change shows at once; the key of the rule is written, or nothing when   *)
(* no key was found.  A spoiled list, of which nothing is claimed, is not      *)
(* followed further.                                                           *)
Change(next, found, id, key) ==
    /\ ~spoiled /\ Len(waiting) < MaxWaiting
    /\ (key # NoKey => Len(key.frac) <= MaxFraction)
    /\ value' = next /\ arranged' = Ids(next)
    /\ waiting' = IF found THEN Append(waiting, [id |-> id, key |-> key, snapshot |-> value])
                  ELSE waiting
    /\ spoiled' = (spoiled \/ ~RulesRest \/ ~found)
    /\ UNCHANGED <<links, unread>>

(* A new rule gets a key before the first one (autoOrder); if that throws, the *)
(* list is not changed either.                                                 *)
PutRule(r) ==
    LET place == <<[id |-> r, key |-> NoKey]>> \o value
        key == generateKeyBetween(Keys(place), 1)
    IN /\ \A i \in DOMAIN value : value[i].id # r
       /\ CanPlace(Keys(place), 1)
       /\ Change([place EXCEPT ![1].key = key], TRUE, r, key)

(* A rule that is there is written with the key it has in the list.            *)
EditRule(i) == Change(value, TRUE, value[i].id, value[i].key)

(* It keeps its old key in the list.                                           *)
order(i, j) ==
    LET next == InsertAt(RemoveAt(value, i), j, value[i])
    IN IF CanPlace(Keys(next), j)
       THEN Change(next, TRUE, value[i].id, generateKeyBetween(Keys(next), j))
       ELSE Change(next, FALSE, value[i].id, NoKey)

delAll(i) == Change(RemoveAt(value, i), TRUE, value[i].id, NoKey)

WriteLink ==
    /\ waiting # <<>> /\ waiting' = Tail(waiting)
    /\ links' = [links EXCEPT ![Head(waiting).id] = Head(waiting).key]
    /\ unread' = TRUE
    /\ UNCHANGED <<value, arranged, spoiled>>

LinkFails ==
    /\ waiting # <<>> /\ waiting' = Tail(waiting)
    /\ value' = Head(waiting).snapshot
    /\ arranged' = Ids(value') /\ spoiled' = (spoiled \/ Len(waiting) > 1 \/ unread)
    /\ UNCHANGED <<links, unread>>

(* The rows in the order of their keys; equal ones in any order.               *)
ReadLinks ==
    /\ unread /\ unread' = FALSE
    /\ LET rows == {[id |-> r, key |-> links[r]] : r \in {r \in Rules : links[r] # NoKey}}
       IN value' \in {s \in SetToSeqs(rows) :
                        \A i, j \in DOMAIN s : i < j => ~KeyBefore(s[j].key, s[i].key)}
    /\ UNCHANGED <<links, waiting, arranged, spoiled>>

RulesNext ==
    \/ \E r \in Rules : PutRule(r)
    \/ \E i, j \in DOMAIN value : order(i, j)
    \/ \E i \in DOMAIN value : EditRule(i) \/ delAll(i)
    \/ WriteLink \/ LinkFails \/ ReadLinks

RulesSpec == RulesInit /\ [][RulesNext]_ruleVars

-----------------------------------------------------------------------------
(* Whatever was added, moved and removed before, the table has the rules in    *)
(* the order the user put them in, no two with the same key, and each key may  *)
(* be a neighbour of the next one: only the smallest integer may not, which    *)
(* the code gives out and then refuses (26 digits below zero in the code, two  *)
(* here).  An operation that comes before the new key was read back takes old  *)
(* keys for the neighbours, and is excused.                                    *)
KeysInOrder ==
    RulesRest /\ ~spoiled =>
        LET keys == Keys(value)
        IN /\ Ids(value) = arranged
           /\ \A i \in DOMAIN keys : /\ keys[i] = links[value[i].id]
                                     /\ _validateOrderKey(keys[i]) \/ Smallest(keys[i])
           /\ \A i \in 1..Len(keys) - 1 : KeyBefore(keys[i], keys[i + 1])
=============================================================================
