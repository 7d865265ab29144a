------------------------------ MODULE Indexing ------------------------------
(* Ordering keys (common/indexing.dart): a key that sorts between two others.  *)
(* A key is an integer, whose head says how many digits it has, and a fraction *)
(* without a zero at its end.                                                  *)
EXTENDS Integers, Sequences, SequencesExt

CONSTANTS Base,        \* digits: 62 in the code
          MaxHead      \* heads: 26 small letters and as many capitals

ASSUME KeyAssumption == Base \in Nat \ {0, 1} /\ MaxHead \in Nat \ {0}

(* A key is a record: head is n for the n-th small letter and -n for the n-th  *)
(* capital from Z down; int and frac are digits, first the highest.            *)
(* The order of strings, digits before letters and a prefix before the rest.   *)
Before(s, t) ==
    \/ IsStrictPrefix(s, t)
    \/ \E i \in 1..Len(s) : /\ i <= Len(t) /\ s[i] < t[i]
                            /\ SubSeq(s, 1, i - 1) = SubSeq(t, 1, i - 1)
Text(k) == <<k.head>> \o k.int \o k.frac
KeyBefore(a, b) == Before(Text(a), Text(b))

IntLength(head) == IF head > 0 THEN head ELSE -head   \* _getIntegerLength - 1
Zeros(n) == [i \in 1..n |-> 0]
Nines(n) == [i \in 1..n |-> Base - 1]
integerZero == [head |-> 1, int |-> <<0>>, frac |-> <<>>]
Smallest(k) == k.head = -MaxHead /\ k.int = Zeros(MaxHead)

_validateOrderKey(k) ==
    /\ Len(k.int) = IntLength(k.head)
    /\ k.frac # <<>> => Last(k.frac) # 0
    /\ ~(Smallest(k) /\ k.frac = <<>>)

(* The digits plus one; a carry out of them goes to the next head.             *)
_incrementInteger(k) ==
    LET last == CHOOSE i \in 0..Len(k.int) :
                  /\ i > 0 => k.int[i] # Base - 1
                  /\ \A j \in i + 1..Len(k.int) : k.int[j] = Base - 1
        next == IF k.head = -1 THEN 1 ELSE k.head + 1
    IN IF last > 0
       THEN [k EXCEPT !.frac = <<>>,
               !.int = [i \in DOMAIN @ |-> IF i = last THEN @[i] + 1
                                           ELSE IF i > last THEN 0 ELSE @[i]]]
       ELSE [head |-> next, int |-> Zeros(IntLength(next)), frac |-> <<>>]

_decrementInteger(k) ==
    LET last == CHOOSE i \in 0..Len(k.int) :
                  /\ i > 0 => k.int[i] # 0
                  /\ \A j \in i + 1..Len(k.int) : k.int[j] = 0
        next == IF k.head = 1 THEN -1 ELSE k.head - 1
    IN IF last > 0
       THEN [k EXCEPT !.frac = <<>>,
               !.int = [i \in DOMAIN @ |-> IF i = last THEN @[i] - 1
                                           ELSE IF i > last THEN Base - 1 ELSE @[i]]]
       ELSE [head |-> next, int |-> Nines(IntLength(next)), frac |-> <<>>]

(* A fraction above a (_midpoint without b): the digits of a as long as they   *)
(* are the last one, then one in the middle of what is left above the next.    *)
Digit(a, i) == IF i <= Len(a) THEN a[i] ELSE 0
Middle(low, high) == (low + high + 1) \div 2
FractionAbove(a) ==
    LET n == CHOOSE m \in 1..Len(a) + 1 : /\ Digit(a, m) < Base - 1
                                          /\ \A i \in 1..m - 1 : a[i] = Base - 1
    IN Append(SubSeq(a, 1, n - 1), Middle(Digit(a, n), Base))

(* A fraction between a and b: what b shares with a, then a digit between      *)
(* theirs; if there is none, b cut off, or a fraction above the rest of a.     *)
_midpoint(a, b) ==
    LET n == CHOOSE m \in 1..Len(b) : /\ Digit(a, m) # b[m]
                                      /\ \A i \in 1..m - 1 : Digit(a, i) = b[i]
        shared == SubSeq(b, 1, n - 1)
    IN IF b[n] - Digit(a, n) > 1 THEN Append(shared, Middle(Digit(a, n), b[n]))
       ELSE IF n < Len(b) THEN SubSeq(b, 1, n)
       ELSE Append(shared, Digit(a, n)) \o FractionAbove(SubSeq(a, n + 1, Len(a)))

Above(k)      == [k EXCEPT !.frac = FractionAbove(k.frac)]
Between(k, b) == [k EXCEPT !.frac = _midpoint(k.frac, b)]

(* generateKeyBetween with neither, one or both of the neighbours.             *)
KeyBelow(b) ==
    IF Smallest(b) THEN [b EXCEPT !.frac = _midpoint(<<>>, b.frac)]
    ELSE IF b.frac # <<>> THEN [b EXCEPT !.frac = <<>>]
    ELSE _decrementInteger(b)

LastInteger(k) == k.head = MaxHead /\ k.int = Nines(MaxHead)

KeyAbove(a) ==
    IF LastInteger(a) THEN Above(a) ELSE _incrementInteger(a)

(* A bug: the next integer is taken without a look at the neighbour.           *)
KeyBetween_NextInteger(a, b) ==
    IF a.head = b.head /\ a.int = b.int THEN Between(a, b.frac)
    ELSE _incrementInteger(a)

KeyBetween(a, b) ==
    IF a.head = b.head /\ a.int = b.int THEN Between(a, b.frac)
    ELSE IF KeyBefore(_incrementInteger(a), b) THEN _incrementInteger(a)
    ELSE Above(a)

(* generateKeyBetween for an item at place i of a list, whose other items have *)
(* the keys s[1], s[2], ...; it throws when a neighbour is not valid or the    *)
(* neighbours are not in their order.                                          *)
CanPlace(s, i) ==
    /\ \A j \in {i - 1, i + 1} \cap DOMAIN s : _validateOrderKey(s[j])
    /\ 1 < i /\ i < Len(s) => KeyBefore(s[i - 1], s[i + 1])

generateKeyBetween(s, i) ==
    CASE Len(s) = 1 -> integerZero
      [] Len(s) > 1 /\ i = 1 -> KeyBelow(s[2])
      [] Len(s) > 1 /\ i = Len(s) -> KeyAbove(s[i - 1])
      [] OTHER -> KeyBetween(s[i - 1], s[i + 1])
=============================================================================
