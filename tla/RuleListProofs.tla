---------------------------- MODULE RuleListProofs ----------------------------
(***************************************************************************)
(* KeysInOrder for any digits, heads, rules and lengths of a fraction.     *)
(* Three parts: what the order of strings is and that _midpoint lies       *)
(* between its fractions; that generateKeyBetween gives a valid key        *)
(* between those of the neighbours; and that every operation on a list     *)
(* that was read back leaves the rules in the order of their keys.  What   *)
(* takes an induction is done with the least number that fails (Least).    *)
(***************************************************************************)
EXTENDS RuleList, SequenceTheorems, FiniteSetTheorems, WellFoundedInduction, TLAPS

USE KeyAssumption

(* A set of numbers has a least one.                                           *)
LEMMA Least ==
  ASSUME NEW S, S \subseteq Nat, S # {}
  PROVE  \E n \in S : \A m \in S : n <= m
<1>. DEFINE R == StrictSubsetOrdering(Nat)
            T == {0 .. m : m \in S}
<1>1. IsWellFoundedOn(R, FiniteSubsetsOf(Nat))
  BY FS_StrictSubsetOrderingWellFounded
<1>2. T \subseteq FiniteSubsetsOf(Nat) /\ T # {}
  <2>1. \A m \in S : IsFiniteSet(0 .. m)
    BY FS_Interval
  <2>2. \A m \in S : 0 .. m \in SUBSET Nat
    OBVIOUS
  <2>3. T \subseteq FiniteSubsetsOf(Nat)
    BY <2>1, <2>2 DEF FiniteSubsetsOf
  <2>4. PICK m \in S : TRUE
    OBVIOUS
  <2>5. 0 .. m \in T
    OBVIOUS
  <2>. QED
    BY <2>3, <2>5
<1>3. \E x \in T : \A y \in T : ~(<<y, x>> \in R)
  <2>. HIDE DEF R, T
  <2>. QED
    BY <1>1, <1>2, WFMin
<1>4. PICK n \in S : \A m \in S : ~(<<0 .. m, 0 .. n>> \in R)
  BY <1>3, Zenon
<1>5. ASSUME NEW m \in S, m < n PROVE FALSE
  <2>1. 0 .. m \subseteq 0 .. n /\ 0 .. m # 0 .. n
    <3>1. n \in 0 .. n /\ n \notin 0 .. m
      BY <1>5
    <3>. QED
      BY <1>5, <3>1
  <2>2. 0 .. m \in SUBSET Nat /\ 0 .. n \in SUBSET Nat
    OBVIOUS
  <2>3. <<0 .. m, 0 .. n>> \in R
    BY <2>1, <2>2 DEF StrictSubsetOrdering
  <2>. QED
    BY <1>4, <2>3
<1>. QED
  BY <1>4, <1>5

-----------------------------------------------------------------------------
(* s comes before t, and i is the first place where one sees that.             *)
Differ(s, t, i) ==
    /\ i \in 1 .. Len(t) /\ i <= Len(s) + 1
    /\ \A j \in 1 .. i - 1 : s[j] = t[j]
    /\ i <= Len(s) => s[i] < t[i]

(* The comparison of two strings is settled at the first place where they    *)
(* differ.                                                                   *)
LEMMA BeforeDiffer ==
  ASSUME NEW s \in Seq(Int), NEW t \in Seq(Int)
  PROVE  Before(s, t) <=> \E i \in Nat : Differ(s, t, i)
<1>0. Len(s) \in Nat /\ Len(t) \in Nat /\ (\A i \in 1 .. Len(s) : s[i] \in Int)
      /\ \A i \in 1 .. Len(t) : t[i] \in Int
  BY LenProperties, ElementOfSeq
<1>1. ASSUME NEW n \in Nat, n <= Len(s), n <= Len(t)
      PROVE  SubSeq(s, 1, n) = SubSeq(t, 1, n) <=> \A j \in 1 .. n : s[j] = t[j]
  <2>1. /\ SubSeq(s, 1, n) \in Seq(Int) /\ Len(SubSeq(s, 1, n)) = n
        /\ \A j \in 1 .. n : SubSeq(s, 1, n)[j] = s[j]
    BY <1>0, <1>1, SubSeqProperties
  <2>2. /\ SubSeq(t, 1, n) \in Seq(Int) /\ Len(SubSeq(t, 1, n)) = n
        /\ \A j \in 1 .. n : SubSeq(t, 1, n)[j] = t[j]
    BY <1>0, <1>1, SubSeqProperties
  <2>. DEFINE p == SubSeq(s, 1, n)
              q == SubSeq(t, 1, n)
  <2>3. /\ p \in Seq(Int) /\ q \in Seq(Int) /\ Len(p) = Len(q) /\ Len(p) = n
        /\ \A j \in 1 .. n : p[j] = s[j] /\ q[j] = t[j]
    BY <2>1, <2>2
  <2>. HIDE DEF p, q
  <2>4. ASSUME \A j \in 1 .. n : s[j] = t[j] PROVE p = q
    <3>1. \A j \in 1 .. Len(p) : p[j] = q[j]
      BY <2>3, <2>4
    <3>. QED
      BY <2>3, <3>1, SeqEqual
  <2>5. ASSUME p = q PROVE \A j \in 1 .. n : s[j] = t[j]
    BY <2>3, <2>5
  <2>. QED
    BY <2>4, <2>5 DEF p, q
<1>2. IsStrictPrefix(s, t) <=> Differ(s, t, Len(s) + 1)
  <2>1. Len(s) <= Len(t) => (SubSeq(s, 1, Len(s)) = SubSeq(t, 1, Len(s))
                              <=> \A j \in 1 .. Len(s) : s[j] = t[j])
    BY <1>0, <1>1
  <2>2. Len(s) = Len(t) /\ (\A j \in 1 .. Len(s) : s[j] = t[j]) => s = t
    BY SeqEqual
  <2>. QED
    BY <1>0, <2>1, <2>2 DEF IsStrictPrefix, IsPrefix, Differ
<1>3. ASSUME NEW i \in 1 .. Len(s)
      PROVE  (/\ i <= Len(t) /\ s[i] < t[i]
              /\ SubSeq(s, 1, i - 1) = SubSeq(t, 1, i - 1)) <=> Differ(s, t, i)
  <2>1. i - 1 \in Nat /\ i - 1 <= Len(s)
    BY <1>0
  <2>2. i <= Len(t) => (SubSeq(s, 1, i - 1) = SubSeq(t, 1, i - 1)
                          <=> \A j \in 1 .. i - 1 : s[j] = t[j])
    BY <1>0, <1>1, <2>1
  <2>. QED
    BY <1>0, <2>2 DEF Differ
<1>4. \A i \in Nat : Differ(s, t, i) => i = Len(s) + 1 \/ i \in 1 .. Len(s)
  BY <1>0 DEF Differ
<1>. QED
  BY <1>0, <1>2, <1>3, <1>4 DEF Before

(* The order of strings is transitive.                                       *)
LEMMA BeforeTrans ==
  ASSUME NEW s \in Seq(Int), NEW t \in Seq(Int), NEW u \in Seq(Int), Before(s, t), Before(t, u)
  PROVE  Before(s, u)
<1>0. /\ Len(s) \in Nat /\ Len(t) \in Nat /\ Len(u) \in Nat
      /\ \A i \in 1 .. Len(s) : s[i] \in Int
      /\ \A i \in 1 .. Len(t) : t[i] \in Int
      /\ \A i \in 1 .. Len(u) : u[i] \in Int
  BY LenProperties, ElementOfSeq
<1>1. PICK i \in Nat : Differ(s, t, i)
  BY BeforeDiffer
<1>2. PICK k \in Nat : Differ(t, u, k)
  BY BeforeDiffer
<1>3. i \in 1 .. Len(t) /\ i <= Len(s) + 1 /\ (i <= Len(s) => s[i] < t[i])
      /\ \A j \in 1 .. i - 1 : s[j] = t[j]
  BY <1>1 DEF Differ
<1>4. k \in 1 .. Len(u) /\ k <= Len(t) + 1 /\ (k <= Len(t) => t[k] < u[k])
      /\ \A j \in 1 .. k - 1 : t[j] = u[j]
  BY <1>2 DEF Differ
<1>5. CASE i < k
  <2>1. Differ(s, u, i)
    BY <1>0, <1>3, <1>4, <1>5 DEF Differ
  <2>. QED
    BY <2>1, BeforeDiffer
<1>6. CASE i >= k
  <2>1. k <= Len(t) /\ t[k] < u[k]
    BY <1>0, <1>3, <1>4, <1>6
  <2>2. k <= Len(s) => s[k] < u[k]
    <3>1. SUFFICES ASSUME k <= Len(s) PROVE s[k] < u[k]
      OBVIOUS
    <3>2. s[k] \in Int /\ t[k] \in Int /\ u[k] \in Int
      BY <1>0, <1>4, <2>1, <3>1
    <3>3. CASE i = k
      BY <1>3, <2>1, <3>1, <3>2, <3>3
    <3>4. CASE k < i
      <4>1. k \in 1 .. i - 1
        BY <1>4, <3>4
      <4>. QED
        BY <1>3, <2>1, <4>1
    <3>. QED
      BY <1>6, <3>3, <3>4
  <2>3. Differ(s, u, k)
    BY <1>0, <1>3, <1>4, <1>6, <2>1, <2>2 DEF Differ
  <2>. QED
    BY <2>3, BeforeDiffer
<1>. QED
  BY <1>5, <1>6

(* Nothing comes before itself, and of two one at most before the other.       *)
LEMMA BeforeAsym ==
  ASSUME NEW s \in Seq(Int), NEW t \in Seq(Int), Before(s, t)
  PROVE  ~Before(t, s)
<1>0. /\ Len(s) \in Nat /\ Len(t) \in Nat
      /\ \A i \in 1 .. Len(s) : s[i] \in Int
      /\ \A i \in 1 .. Len(t) : t[i] \in Int
  BY LenProperties, ElementOfSeq
<1>1. PICK i \in Nat : Differ(s, t, i)
  BY BeforeDiffer
<1>2. SUFFICES ASSUME NEW k \in Nat, Differ(t, s, k) PROVE FALSE
  BY BeforeDiffer
<1>3. i \in 1 .. Len(t) /\ i <= Len(s) + 1 /\ (i <= Len(s) => s[i] < t[i])
      /\ \A j \in 1 .. i - 1 : s[j] = t[j]
  BY <1>1 DEF Differ
<1>4. k \in 1 .. Len(s) /\ k <= Len(t) + 1 /\ (k <= Len(t) => t[k] < s[k])
      /\ \A j \in 1 .. k - 1 : t[j] = s[j]
  BY <1>2 DEF Differ
<1>5. CASE i < k
  <2>1. i <= Len(s) /\ i \in 1 .. k - 1 /\ s[i] \in Int /\ t[i] \in Int
    BY <1>0, <1>3, <1>4, <1>5
  <2>. QED
    BY <1>3, <1>4, <2>1
<1>6. CASE k < i
  <2>1. k <= Len(t) /\ k \in 1 .. i - 1 /\ s[k] \in Int /\ t[k] \in Int
    BY <1>0, <1>3, <1>4, <1>6
  <2>. QED
    BY <1>3, <1>4, <2>1
<1>7. CASE i = k
  <2>1. s[i] \in Int /\ t[i] \in Int /\ i <= Len(s) /\ i <= Len(t)
    BY <1>0, <1>3, <1>4, <1>7
  <2>. QED
    BY <1>3, <1>4, <1>7, <2>1
<1>. QED
  BY <1>5, <1>6, <1>7

-----------------------------------------------------------------------------
(* Fractions: digits of which the last is not zero.                            *)
Digits    == 0 .. Base - 1
Fractions == {f \in Seq(Digits) : f # <<>> => f[Len(f)] # 0}

(* What a fraction is made of.                                               *)
LEMMA FractionFacts ==
  ASSUME NEW f \in Fractions
  PROVE  /\ f \in Seq(Digits) /\ f \in Seq(Int) /\ Len(f) \in Nat
         /\ \A i \in 1 .. Len(f) : f[i] \in Digits /\ f[i] \in Nat
         /\ Len(f) > 0 => f[Len(f)] # 0
         /\ \A i \in Nat \ {0} : Digit(f, i) \in Digits
<1>1. f \in Seq(Digits) /\ Digits \subseteq Int
  BY DEF Fractions, Digits
<1>2. f \in Seq(Int) /\ Len(f) \in Nat
  BY <1>1, SeqMonotonic, LenProperties
<1>3. \A i \in 1 .. Len(f) : f[i] \in Digits
  BY <1>1, ElementOfSeq
<1>. QED
  BY <1>1, <1>2, <1>3, EmptySeq DEF Fractions, Digits, Digit

(* The half of a sum, rounded, lies between two digits that are not          *)
(* neighbours.                                                               *)
LEMMA MiddleBetween ==
  ASSUME NEW low \in Nat, NEW high \in Nat, high - low > 1
  PROVE  Middle(low, high) \in Nat /\ low < Middle(low, high) /\ Middle(low, high) < high
BY DEF Middle

(* A fraction above a comes after it.                                          *)
LEMMA FractionAboveAfter ==
  ASSUME NEW a \in Fractions
  PROVE  /\ FractionAbove(a) \in Fractions /\ Len(FractionAbove(a)) > 0
         /\ Before(a, FractionAbove(a))
<1>. DEFINE L == Len(a)
            Ends(m) == Digit(a, m) < Base - 1 /\ \A i \in 1 .. m - 1 : a[i] = Base - 1
            n == CHOOSE m \in 1 .. Len(a) + 1 : Ends(m)
            r == FractionAbove(a)
<1>1. /\ L \in Nat /\ (\A i \in 1 .. L : a[i] \in Digits /\ a[i] \in Nat)
      /\ \A i \in Nat \ {0} : Digit(a, i) \in Digits
  BY FractionFacts
<1>2. \E m \in 1 .. L + 1 : Ends(m)
  <2>. DEFINE S == {m \in 1 .. L + 1 : Digit(a, m) < Base - 1}
  <2>1. L + 1 \in S
    BY <1>1 DEF Digit
  <2>2. PICK m \in S : \A k \in S : m <= k
    <3>1. S \subseteq Nat /\ S # {}
      BY <1>1, <2>1
    <3>. HIDE DEF S
    <3>. QED
      BY <3>1, Least
  <2>3. ASSUME NEW i \in 1 .. m - 1 PROVE a[i] = Base - 1
    <3>1. i \in 1 .. L /\ i \notin S
      BY <1>1, <2>2
    <3>2. Digit(a, i) = a[i] /\ ~(a[i] < Base - 1) /\ a[i] \in Digits
      BY <1>1, <3>1 DEF Digit
    <3>. QED
      BY <3>2 DEF Digits
  <2>. QED
    BY <2>2, <2>3
<1>3. n \in 1 .. L + 1 /\ Ends(n)
  BY <1>2
<1>. DEFINE d == Middle(Digit(a, n), Base)
<1>4. r = Append(SubSeq(a, 1, n - 1), d)
  BY DEF FractionAbove
<1>. HIDE DEF n
<1>5. Digit(a, n) \in Digits /\ d \in Nat /\ Digit(a, n) < d /\ d < Base
  <2>1. Digit(a, n) \in Nat /\ Base - Digit(a, n) > 1
    BY <1>1, <1>3 DEF Digits
  <2>. QED
    BY <1>1, <1>3, <2>1, MiddleBetween
<1>. HIDE DEF d, r
<1>6. d \in Digits /\ d # 0
  BY <1>5 DEF Digits
<1>7. /\ SubSeq(a, 1, n - 1) \in Seq(Digits) /\ Len(SubSeq(a, 1, n - 1)) = n - 1
      /\ \A i \in 1 .. n - 1 : SubSeq(a, 1, n - 1)[i] = a[i]
  <2>1. \A i \in 1 .. n - 1 : a[i] \in Digits
    BY <1>1, <1>3
  <2>. QED
    BY <1>1, <1>3, <2>1, SubSeqProperties
<1>8. r \in Seq(Digits) /\ Len(r) = n /\ r[n] = d /\ \A i \in 1 .. n - 1 : r[i] = a[i]
  BY <1>3, <1>4, <1>6, <1>7, AppendProperties
<1>9. r \in Fractions /\ Len(r) > 0
  BY <1>3, <1>6, <1>8 DEF Fractions
<1>10. Differ(a, r, n)
  BY <1>1, <1>3, <1>5, <1>8 DEF Differ, Digit
<1>11. Before(a, r)
  BY <1>3, <1>9, <1>10, BeforeDiffer, FractionFacts
<1>. QED
  BY <1>9, <1>11 DEF r

(* The first digit in which b differs from a, and it is the greater one.       *)
Parts(a, b, m) == Digit(a, m) # b[m] /\ \A i \in 1 .. m - 1 : Digit(a, i) = b[i]

LEMMA PartsExists ==
  ASSUME NEW a \in Fractions, NEW b \in Fractions, Before(a, b)
  PROVE  /\ \E m \in 1 .. Len(b) : Parts(a, b, m)
         /\ \A m \in 1 .. Len(b) : Parts(a, b, m) => Digit(a, m) < b[m]
<1>1. /\ Len(a) \in Nat /\ a \in Seq(Int) /\ (\A i \in 1 .. Len(a) : a[i] \in Nat)
  BY FractionFacts
<1>2. /\ Len(b) \in Nat /\ b \in Seq(Int) /\ (\A i \in 1 .. Len(b) : b[i] \in Nat)
      /\ Len(b) > 0 => b[Len(b)] # 0
  BY FractionFacts
<1>3. PICK k \in Nat : Differ(a, b, k)
  BY <1>1, <1>2, BeforeDiffer
<1>4. \E m \in 1 .. Len(b) : Parts(a, b, m)
  <2>. DEFINE S == {m \in 1 .. Len(b) : Digit(a, m) # b[m]}
  <2>1. S # {}
    <3>1. CASE k <= Len(a)
      <4>1. k \in S
        BY <1>1, <1>2, <1>3, <3>1 DEF Differ, Digit
      <4>. QED
        BY <4>1
    <3>2. CASE k > Len(a)
      <4>1. Len(b) \in S
        BY <1>1, <1>2, <1>3, <3>2 DEF Differ, Digit
      <4>. QED
        BY <4>1
    <3>. QED
      BY <1>1, <3>1, <3>2
  <2>2. S \subseteq Nat /\ S \subseteq 1 .. Len(b) /\ \A m \in S : Digit(a, m) # b[m]
    BY <1>2
  <2>3. \A m \in 1 .. Len(b) : m \notin S => Digit(a, m) = b[m]
    OBVIOUS
  <2>. HIDE DEF S
  <2>4. PICK m \in S : \A i \in S : m <= i
    BY <2>1, <2>2, Least
  <2>5. \A i \in 1 .. m - 1 : i \in 1 .. Len(b) /\ i \notin S
    BY <1>2, <2>2, <2>4
  <2>. QED
    BY <2>2, <2>3, <2>4, <2>5 DEF Parts
<1>5. ASSUME NEW m \in 1 .. Len(b), Parts(a, b, m) PROVE Digit(a, m) < b[m]
  <2>1. CASE m <= Len(a)
    <3>1. \A i \in 1 .. m - 1 : a[i] = b[i]
      BY <1>1, <1>5, <2>1 DEF Parts, Digit
    <3>2. a[m] # b[m]
      BY <1>5, <2>1 DEF Parts, Digit
    <3>3. k = m
      BY <1>1, <1>2, <1>3, <2>1, <3>1, <3>2 DEF Differ
    <3>. QED
      BY <1>3, <2>1, <3>3 DEF Differ, Digit
  <2>2. CASE m > Len(a)
    BY <1>1, <1>2, <1>5, <2>2 DEF Parts, Digit
  <2>. QED
    BY <1>1, <2>1, <2>2
<1>. QED
  BY <1>4, <1>5

(* What shares its beginning with b and has a digit above that of a at the     *)
(* place where they part, comes after a.                                       *)
LEMMA AfterParts ==
  ASSUME NEW a \in Fractions, NEW b \in Fractions, NEW m \in 1 .. Len(b), Parts(a, b, m),
         NEW r \in Seq(Int), Len(r) >= m, \A i \in 1 .. m - 1 : r[i] = b[i],
         \/ Digit(a, m) < r[m]
         \/ m > Len(a)
  PROVE  Before(a, r)
<1>1. /\ Len(a) \in Nat /\ a \in Seq(Int) /\ Len(b) \in Nat /\ Len(r) \in Nat
  BY FractionFacts, LenProperties
<1>2. CASE m <= Len(a)
  <2>1. Differ(a, r, m)
    BY <1>1, <1>2 DEF Differ, Parts, Digit
  <2>. QED
    BY <1>1, <2>1, BeforeDiffer
<1>3. CASE m > Len(a)
  <2>1. CASE m = Len(a) + 1
    <3>1. Differ(a, r, Len(a) + 1)
      BY <1>1, <1>3, <2>1 DEF Differ, Parts, Digit
    <3>. QED
      BY <1>1, <3>1, BeforeDiffer
  <2>2. CASE m > Len(a) + 1
    <3>1. Differ(a, r, Len(a) + 1)
      BY <1>1, <1>3, <2>2 DEF Differ, Parts, Digit
    <3>. QED
      BY <1>1, <3>1, BeforeDiffer
  <2>. QED
    BY <1>1, <1>3, <2>1, <2>2
<1>. QED
  BY <1>1, <1>2, <1>3

(* The midpoint of two fractions is a fraction between them.                   *)
LEMMA MidpointBetween ==
  ASSUME NEW a \in Fractions, NEW b \in Fractions, Before(a, b)
  PROVE  _midpoint(a, b) \in Fractions /\ Before(a, _midpoint(a, b)) /\ Before(_midpoint(a, b), b)
<1>. DEFINE n == CHOOSE m \in 1 .. Len(b) : Parts(a, b, m)
            shared == SubSeq(b, 1, n - 1)
            d == Digit(a, n)
            r == _midpoint(a, b)
<1>1. /\ Len(a) \in Nat /\ a \in Seq(Digits) /\ (\A i \in 1 .. Len(a) : a[i] \in Digits)
      /\ \A i \in Nat \ {0} : Digit(a, i) \in Digits
  BY FractionFacts
<1>2. /\ Len(b) \in Nat /\ b \in Seq(Int) /\ (\A i \in 1 .. Len(b) : b[i] \in Digits)
      /\ Len(b) > 0 => b[Len(b)] # 0
  BY FractionFacts
<1>3. n \in 1 .. Len(b) /\ Parts(a, b, n) /\ d < b[n]
  BY PartsExists
<1>4. r = IF b[n] - d > 1 THEN Append(shared, Middle(d, b[n]))
          ELSE IF n < Len(b) THEN SubSeq(b, 1, n)
          ELSE Append(shared, d) \o FractionAbove(SubSeq(a, n + 1, Len(a)))
  BY DEF _midpoint, Parts
<1>. HIDE DEF n
<1>5. /\ shared \in Seq(Digits) /\ Len(shared) = n - 1
      /\ \A i \in 1 .. n - 1 : shared[i] = b[i]
  <2>1. \A i \in 1 .. n - 1 : b[i] \in Digits
    BY <1>2, <1>3
  <2>. QED
    BY <1>2, <1>3, <2>1, SubSeqProperties
<1>6. d \in Digits /\ d \in Nat /\ b[n] \in Digits /\ b[n] \in Nat /\ n \in Nat \ {0}
  BY <1>1, <1>2, <1>3 DEF Digits
<1>7. Digits \subseteq Int
  BY DEF Digits
<1>. HIDE DEF shared, d, r
<1>8. CASE b[n] - d > 1
  <2>. DEFINE e == Middle(d, b[n])
  <2>1. e \in Nat /\ d < e /\ e < b[n]
    BY <1>6, <1>8, MiddleBetween
  <2>. HIDE DEF e
  <2>2. e \in Digits /\ e # 0
    BY <1>6, <2>1 DEF Digits
  <2>3. r = Append(shared, e)
    BY <1>4, <1>8 DEF e
  <2>4. r \in Seq(Digits) /\ Len(r) = n /\ r[n] = e /\ \A i \in 1 .. n - 1 : r[i] = b[i]
    BY <1>5, <1>6, <2>2, <2>3, AppendProperties
  <2>5. r \in Fractions
    BY <2>2, <2>4 DEF Fractions
  <2>6. r \in Seq(Int)
    BY <2>5, FractionFacts
  <2>7. Before(a, r)
    BY <1>3, <1>6, <2>1, <2>4, <2>6, AfterParts DEF d
  <2>8. Differ(r, b, n)
    BY <1>3, <1>6, <2>1, <2>4 DEF Differ
  <2>. QED
    BY <1>2, <1>6, <2>5, <2>6, <2>7, <2>8, BeforeDiffer DEF r
<1>9. CASE b[n] - d <= 1 /\ n < Len(b)
  <2>1. r = SubSeq(b, 1, n)
    BY <1>4, <1>6, <1>9
  <2>2. r \in Seq(Digits) /\ Len(r) = n /\ \A i \in 1 .. n : r[i] = b[i]
    <3>1. \A i \in 1 .. n : b[i] \in Digits
      BY <1>2, <1>3
    <3>. QED
      BY <1>2, <1>3, <2>1, <3>1, SubSeqProperties
  <2>3. r \in Fractions
    BY <1>3, <1>6, <2>2 DEF Fractions
  <2>4. r \in Seq(Int)
    BY <2>3, FractionFacts
  <2>5. Before(a, r)
    BY <1>3, <1>6, <2>2, <2>4, AfterParts DEF d
  <2>6. Differ(r, b, n + 1)
    BY <1>2, <1>6, <1>9, <2>2 DEF Differ
  <2>. QED
    BY <1>2, <1>6, <2>3, <2>4, <2>5, <2>6, BeforeDiffer DEF r
<1>10. CASE b[n] - d <= 1 /\ n = Len(b)
  <2>. DEFINE rest == SubSeq(a, n + 1, Len(a))
              f == FractionAbove(rest)
              p == Append(shared, d)
  <2>1. r = p \o f
    BY <1>4, <1>6, <1>10
  <2>2. p \in Seq(Digits) /\ Len(p) = n /\ p[n] = d /\ \A i \in 1 .. n - 1 : p[i] = b[i]
    BY <1>5, <1>6, AppendProperties
  <2>3. /\ rest \in Seq(Digits) /\ Len(rest) = IF n < Len(a) THEN Len(a) - n ELSE 0
        /\ \A i \in 1 .. Len(a) - n : rest[i] = a[n + i]
    <3>1. \A i \in n + 1 .. Len(a) : a[i] \in Digits
      BY <1>1, <1>6
    <3>2. /\ rest \in Seq(Digits)
          /\ Len(rest) = IF n + 1 <= Len(a) THEN Len(a) - (n + 1) + 1 ELSE 0
          /\ \A i \in 1 .. Len(a) - (n + 1) + 1 : rest[i] = a[n + 1 + i - 1]
      BY <1>1, <1>6, <3>1, SubSeqProperties
    <3>. HIDE DEF rest
    <3>. QED
      BY <1>1, <1>6, <3>2
  <2>. HIDE DEF rest, p
  <2>4. rest \in Fractions
    <3>1. CASE n < Len(a)
      <4>1. rest[Len(rest)] = a[Len(a)]
        BY <1>1, <1>6, <2>3, <3>1
      <4>2. a[Len(a)] # 0
        BY <1>1, <1>6, <3>1, FractionFacts
      <4>. QED
        BY <2>3, <4>1, <4>2 DEF Fractions
    <3>2. CASE ~(n < Len(a))
      <4>1. rest = <<>>
        BY <2>3, <3>2, EmptySeq
      <4>. QED
        BY <2>3, <4>1 DEF Fractions
    <3>. QED
      BY <3>1, <3>2
  <2>5. f \in Fractions /\ Len(f) > 0 /\ Before(rest, f)
    BY <2>4, FractionAboveAfter
  <2>6. f \in Seq(Digits) /\ Len(f) \in Nat /\ f[Len(f)] # 0 /\ f \in Seq(Int) /\ rest \in Seq(Int)
    BY <2>4, <2>5, FractionFacts
  <2>. HIDE DEF f
  <2>7. /\ r \in Seq(Digits) /\ Len(r) = n + Len(f)
        /\ (\A i \in 1 .. n : r[i] = p[i]) /\ (\A i \in 1 .. Len(f) : r[n + i] = f[i])
    <3>1. r \in Seq(Digits) /\ Len(r) = n + Len(f)
      BY <2>1, <2>2, <2>6, ConcatProperties
    <3>2. \A i \in 1 .. n : r[i] = p[i]
      BY <1>6, <2>1, <2>2, <2>6
    <3>3. \A i \in 1 .. Len(f) : r[n + i] = f[i]
      BY <1>6, <2>1, <2>2, <2>6
    <3>. QED
      BY <3>1, <3>2, <3>3
  <2>8. r \in Fractions
    <3>1. r[Len(r)] = f[Len(f)]
      BY <1>6, <2>5, <2>6, <2>7
    <3>. QED
      BY <2>6, <2>7, <3>1 DEF Fractions
  <2>9. r \in Seq(Int)
    BY <2>8, FractionFacts
  <2>10. Differ(r, b, n)
    BY <1>2, <1>3, <1>6, <2>2, <2>7 DEF Differ
  <2>11. Before(a, r)
    <3>1. CASE n > Len(a)
      <4>1. Len(r) >= n /\ \A i \in 1 .. n - 1 : r[i] = b[i]
        BY <1>6, <2>2, <2>6, <2>7
      <4>. QED
        BY <1>3, <2>9, <3>1, <4>1, AfterParts
    <3>2. CASE n <= Len(a)
      <4>1. PICK i \in Nat : Differ(rest, f, i)
        BY <2>5, <2>6, BeforeDiffer
      <4>2. \A j \in 1 .. n - 1 : a[j] = r[j]
        BY <1>1, <1>3, <1>6, <2>2, <2>7, <3>2 DEF Parts, Digit
      <4>3. a[n] = r[n]
        BY <1>6, <2>2, <2>7, <3>2 DEF d, Digit
      <4>4. \A j \in 1 .. i - 1 : a[n + j] = r[n + j]
        <5>1. i \in 1 .. Len(f) /\ i <= Len(rest) + 1 /\ \A j \in 1 .. i - 1 : rest[j] = f[j]
          BY <4>1 DEF Differ
        <5>2. Len(rest) = Len(a) - n /\ Len(rest) \in Nat
          BY <1>1, <1>6, <2>3, <3>2
        <5>3. \A j \in 1 .. i - 1 : j \in 1 .. Len(a) - n /\ j \in 1 .. Len(f)
          BY <2>6, <5>1, <5>2
        <5>. QED
          BY <2>3, <2>7, <5>1, <5>3
      <4>5. \A j \in 1 .. n + i - 1 : a[j] = r[j]
        <5>1. \A j \in 1 .. n + i - 1 : j <= n - 1 \/ j = n \/ (j - n \in 1 .. i - 1 /\ n + (j - n) = j)
          BY <1>6
        <5>. QED
          BY <1>6, <4>2, <4>3, <4>4, <5>1
      <4>6. n + i \in 1 .. Len(r) /\ n + i <= Len(a) + 1
        BY <1>1, <1>6, <2>3, <2>6, <2>7, <3>2, <4>1 DEF Differ
      <4>7. n + i <= Len(a) => a[n + i] < r[n + i]
        BY <1>1, <1>6, <2>3, <2>6, <2>7, <3>2, <4>1 DEF Differ
      <4>8. Differ(a, r, n + i)
        BY <1>1, <1>6, <4>5, <4>6, <4>7 DEF Differ
      <4>. QED
        BY <1>6, <2>9, <4>8, BeforeDiffer, FractionFacts
    <3>. QED
      BY <1>1, <1>6, <3>1, <3>2
  <2>. QED
    BY <1>2, <1>6, <2>8, <2>9, <2>10, <2>11, BeforeDiffer DEF r
<1>. QED
  BY <1>2, <1>3, <1>6, <1>8, <1>9, <1>10

-----------------------------------------------------------------------------
(* Ordering keys: as many digits as the head says, and a fraction.             *)
Heads     == (-MaxHead .. MaxHead) \ {0}
OrderKeys == {k \in [head : Heads, int : Seq(Digits), frac : Fractions] :
                Len(k.int) = IntLength(k.head)}
SameInteger(a, b) == a.head = b.head /\ a.int = b.int
IntegerBefore(a, b) ==
    \/ a.head < b.head
    \/ /\ a.head = b.head
       /\ \E i \in 1 .. Len(a.int) : /\ a.int[i] < b.int[i]
                                     /\ \A j \in 1 .. i - 1 : a.int[j] = b.int[j]

(* What a key is made of.                                                    *)
LEMMA KeyFacts ==
  ASSUME NEW k \in OrderKeys
  PROVE  /\ k.head \in Int /\ k.head # 0 /\ IntLength(k.head) \in Nat \ {0}
         /\ -MaxHead <= k.head /\ k.head <= MaxHead
         /\ k.int \in Seq(Digits) /\ k.int \in Seq(Int) /\ Len(k.int) = IntLength(k.head)
         /\ \A i \in 1 .. Len(k.int) : k.int[i] \in Digits /\ k.int[i] \in Nat
         /\ k.frac \in Fractions /\ k.frac \in Seq(Int)
         /\ k = [head |-> k.head, int |-> k.int, frac |-> k.frac]
<1>1. k.head \in Heads /\ k.int \in Seq(Digits) /\ k.frac \in Fractions
      /\ Len(k.int) = IntLength(k.head) /\ k = [head |-> k.head, int |-> k.int, frac |-> k.frac]
  BY DEF OrderKeys
<1>2. Digits \subseteq Int /\ \A x \in Digits : x \in Nat
  BY DEF Digits
<1>3. k.int \in Seq(Int) /\ \A i \in 1 .. Len(k.int) : k.int[i] \in Digits
  BY <1>1, <1>2, SeqMonotonic, ElementOfSeq
<1>4. k.frac \in Seq(Int)
  BY <1>1, FractionFacts
<1>5. k.head \in Int /\ k.head # 0 /\ IntLength(k.head) \in Nat \ {0}
      /\ -MaxHead <= k.head /\ k.head <= MaxHead
  BY <1>1 DEF Heads, IntLength
<1>. QED
  BY <1>1, <1>2, <1>3, <1>4, <1>5

(* The elements of two sequences put together.                               *)
LEMMA Joined ==
  ASSUME NEW S, NEW s \in Seq(S), NEW t \in Seq(S)
  PROVE  /\ s \o t \in Seq(S) /\ Len(s \o t) = Len(s) + Len(t)
         /\ Len(s) \in Nat /\ Len(t) \in Nat
         /\ \A i \in 1 .. Len(s) : (s \o t)[i] = s[i]
         /\ \A i \in 1 .. Len(t) : (s \o t)[Len(s) + i] = t[i]
<1>1. Len(s) \in Nat /\ Len(t) \in Nat
  BY LenProperties
<1>2. /\ s \o t \in Seq(S) /\ Len(s \o t) = Len(s) + Len(t)
      /\ \A i \in 1 .. Len(s) + Len(t) :
            (s \o t)[i] = IF i <= Len(s) THEN s[i] ELSE t[i - Len(s)]
  BY ConcatProperties
<1>3. ASSUME NEW i \in 1 .. Len(t) PROVE (s \o t)[Len(s) + i] = t[i]
  <2>1. Len(s) + i \in 1 .. Len(s) + Len(t) /\ ~(Len(s) + i <= Len(s)) /\ (Len(s) + i) - Len(s) = i
    BY <1>1
  <2>. QED
    BY <1>2, <2>1
<1>. QED
  BY <1>1, <1>2, <1>3

(* Strings with the same beginning are ordered by what follows it.           *)
LEMMA SharedStart ==
  ASSUME NEW p \in Seq(Int), NEW s \in Seq(Int), NEW t \in Seq(Int)
  PROVE  Before(p \o s, p \o t) <=> Before(s, t)
<1>. DEFINE N == Len(p)
            u == p \o s
            v == p \o t
<1>1. /\ u \in Seq(Int) /\ Len(u) = N + Len(s) /\ N \in Nat /\ Len(s) \in Nat
      /\ (\A i \in 1 .. N : u[i] = p[i]) /\ \A i \in 1 .. Len(s) : u[N + i] = s[i]
  BY Joined
<1>2. /\ v \in Seq(Int) /\ Len(v) = N + Len(t) /\ Len(t) \in Nat
      /\ (\A i \in 1 .. N : v[i] = p[i]) /\ \A i \in 1 .. Len(t) : v[N + i] = t[i]
  BY Joined
<1>3. \A i \in 1 .. Len(u) : u[i] \in Int
  BY <1>1, ElementOfSeq
<1>4. (Before(u, v) <=> \E i \in Nat : Differ(u, v, i))
      /\ (Before(s, t) <=> \E i \in Nat : Differ(s, t, i))
  BY <1>1, <1>2, BeforeDiffer
<1>. HIDE DEF N, u, v
<1>5. ASSUME NEW i \in Nat, Differ(s, t, i) PROVE Differ(u, v, N + i)
  <2>1. \A j \in 1 .. N + i - 1 : j \in 1 .. N \/ (j - N \in 1 .. i - 1 /\ N + (j - N) = j)
    BY <1>1
  <2>2. \A j \in 1 .. i - 1 : u[N + j] = v[N + j]
    <3>1. i \in 1 .. Len(t) /\ i <= Len(s) + 1 /\ \A j \in 1 .. i - 1 : s[j] = t[j]
      BY <1>5 DEF Differ
    <3>2. Len(s) \in Nat /\ Len(t) \in Nat
      BY <1>1, <1>2
    <3>3. \A j \in 1 .. i - 1 : j \in 1 .. Len(s) /\ j \in 1 .. Len(t)
      BY <3>1, <3>2
    <3>. QED
      BY <1>1, <1>2, <3>1, <3>3
  <2>3. \A j \in 1 .. N + i - 1 : u[j] = v[j]
    BY <1>1, <1>2, <2>1, <2>2
  <2>4. N + i \in 1 .. Len(v) /\ N + i <= Len(u) + 1 /\ (N + i <= Len(u) => u[N + i] < v[N + i])
    <3>1. i \in 1 .. Len(t) /\ i <= Len(s) + 1 /\ (i <= Len(s) => s[i] < t[i])
      BY <1>5 DEF Differ
    <3>2. /\ N \in Nat /\ Len(s) \in Nat /\ Len(t) \in Nat
          /\ Len(u) = N + Len(s) /\ Len(v) = N + Len(t)
      BY <1>1, <1>2
    <3>3. N + i \in 1 .. Len(v) /\ N + i <= Len(u) + 1 /\ (N + i <= Len(u) => i \in 1 .. Len(s))
      BY <3>1, <3>2
    <3>. QED
      BY <1>1, <1>2, <3>1, <3>3
  <2>. QED
    BY <1>1, <2>3, <2>4 DEF Differ
<1>6. ASSUME NEW i \in Nat, Differ(u, v, i) PROVE i - N \in Nat /\ Differ(s, t, i - N)
  <2>1. i > N
    <3>1. SUFFICES ASSUME i <= N PROVE FALSE
      BY <1>1
    <3>2. i \in 1 .. N /\ i \in 1 .. Len(u) /\ u[i] < v[i]
      BY <1>1, <1>2, <1>6, <3>1 DEF Differ
    <3>3. u[i] = v[i] /\ u[i] \in Int
      BY <1>1, <1>2, <1>3, <3>2
    <3>. QED
      BY <3>2, <3>3
  <2>2. \A j \in 1 .. i - N - 1 : s[j] = t[j]
    <3>1. i \in 1 .. Len(v) /\ i <= Len(u) + 1 /\ \A j \in 1 .. i - 1 : u[j] = v[j]
      BY <1>6 DEF Differ
    <3>2. /\ N \in Nat /\ Len(s) \in Nat /\ Len(t) \in Nat
          /\ Len(u) = N + Len(s) /\ Len(v) = N + Len(t)
      BY <1>1, <1>2
    <3>3. \A j \in 1 .. i - N - 1 : N + j \in 1 .. i - 1 /\ j \in 1 .. Len(s) /\ j \in 1 .. Len(t)
      BY <2>1, <3>1, <3>2
    <3>. QED
      BY <1>1, <1>2, <3>1, <3>3
  <2>3. i - N \in 1 .. Len(t) /\ i - N <= Len(s) + 1 /\ N + (i - N) = i
    BY <1>1, <1>2, <1>6, <2>1 DEF Differ
  <2>4. i - N <= Len(s) => s[i - N] < t[i - N]
    <3>1. SUFFICES ASSUME i - N <= Len(s) PROVE s[i - N] < t[i - N]
      OBVIOUS
    <3>2. u[i] < v[i]
      BY <1>1, <1>6, <3>1 DEF Differ
    <3>3. i - N \in 1 .. Len(s)
      BY <1>1, <2>3, <3>1
    <3>4. u[N + (i - N)] = s[i - N] /\ v[N + (i - N)] = t[i - N]
      BY <1>1, <1>2, <2>3, <3>3
    <3>. QED
      BY <2>3, <3>2, <3>4
  <2>. QED
    BY <1>1, <2>1, <2>2, <2>3, <2>4 DEF Differ
<1>. QED
  BY <1>1, <1>4, <1>5, <1>6 DEF u, v

(* The string of a key: its head, its digits, its fraction.                  *)
LEMMA TextFacts ==
  ASSUME NEW k \in OrderKeys
  PROVE  /\ Text(k) = (<<k.head>> \o k.int) \o k.frac
         /\ <<k.head>> \o k.int \in Seq(Int)
         /\ Text(k) \in Seq(Int) /\ Len(Text(k)) = 1 + Len(k.int) + Len(k.frac)
         /\ Text(k)[1] = k.head
         /\ \A i \in 1 .. Len(k.int) : Text(k)[1 + i] = k.int[i]
<1>. DEFINE h == <<k.head>>
            n == h \o k.int
<1>1. k.head \in Int /\ k.int \in Seq(Int) /\ k.frac \in Seq(Int)
  BY KeyFacts
<1>2. h \in Seq(Int) /\ Len(h) = 1 /\ h[1] = k.head
  BY <1>1
<1>. HIDE DEF h
<1>3. /\ n \in Seq(Int) /\ Len(n) = Len(h) + Len(k.int) /\ Len(k.int) \in Nat
      /\ (\A i \in 1 .. Len(h) : n[i] = h[i]) /\ \A i \in 1 .. Len(k.int) : n[Len(h) + i] = k.int[i]
  <2>1. h \in Seq(Int) /\ k.int \in Seq(Int)
    BY <1>1, <1>2
  <2>. QED
    BY <2>1, Joined
<1>4. Text(k) = n \o k.frac
  BY DEF Text, h
<1>. HIDE DEF n
<1>5. /\ Text(k) \in Seq(Int) /\ Len(Text(k)) = Len(n) + Len(k.frac) /\ Len(k.frac) \in Nat
      /\ \A i \in 1 .. Len(n) : Text(k)[i] = n[i]
  <2>1. /\ n \o k.frac \in Seq(Int) /\ Len(n \o k.frac) = Len(n) + Len(k.frac)
        /\ Len(k.frac) \in Nat /\ \A i \in 1 .. Len(n) : (n \o k.frac)[i] = n[i]
    <3>1. n \in Seq(Int) /\ k.frac \in Seq(Int)
      BY <1>1, <1>3
    <3>. QED
      BY <3>1, Joined
  <2>. QED
    BY <1>4, <2>1
<1>6. \A i \in 1 .. Len(k.int) : 1 + i \in 1 .. Len(n) /\ n[1 + i] = k.int[i]
  BY <1>2, <1>3
<1>7. 1 \in 1 .. Len(n) /\ n[1] = k.head
  BY <1>2, <1>3
<1>8. Text(k)[1] = k.head /\ \A i \in 1 .. Len(k.int) : Text(k)[1 + i] = k.int[i]
  BY <1>5, <1>6, <1>7
<1>. QED
  BY <1>2, <1>3, <1>4, <1>5, <1>8 DEF n, h

(* Keys with different integers are ordered by these: the head gives the     *)
(* number of digits, so that no longer integer is mistaken for a smaller     *)
(* one.                                                                      *)
LEMMA IntegerFirst ==
  ASSUME NEW a \in OrderKeys, NEW b \in OrderKeys, IntegerBefore(a, b)
  PROVE  KeyBefore(a, b)
<1>. DEFINE s == Text(a)
            t == Text(b)
<1>1. /\ s \in Seq(Int) /\ Len(s) = 1 + Len(a.int) + Len(a.frac) /\ s[1] = a.head
      /\ \A i \in 1 .. Len(a.int) : s[1 + i] = a.int[i]
  BY TextFacts
<1>2. /\ t \in Seq(Int) /\ Len(t) = 1 + Len(b.int) + Len(b.frac) /\ t[1] = b.head
      /\ \A i \in 1 .. Len(b.int) : t[1 + i] = b.int[i]
  BY TextFacts
<1>3. /\ Len(a.int) = IntLength(a.head) /\ Len(a.int) \in Nat /\ Len(a.frac) \in Nat
      /\ Len(b.int) = IntLength(b.head) /\ Len(b.int) \in Nat /\ Len(b.frac) \in Nat
      /\ a.head \in Int /\ b.head \in Int
  BY KeyFacts, LenProperties
<1>4. Before(s, t) <=> \E i \in Nat : Differ(s, t, i)
  BY <1>1, <1>2, BeforeDiffer
<1>. HIDE DEF s, t
<1>5. CASE a.head < b.head
  <2>1. Differ(s, t, 1)
    BY <1>1, <1>2, <1>3, <1>5 DEF Differ
  <2>. QED
    BY <1>4, <2>1 DEF KeyBefore, s, t
<1>6. CASE a.head = b.head
  <2>1. PICK i \in 1 .. Len(a.int) : /\ a.int[i] < b.int[i]
                                     /\ \A j \in 1 .. i - 1 : a.int[j] = b.int[j]
    BY <1>3, <1>6 DEF IntegerBefore
  <2>2. \A j \in 1 .. i : s[j] = t[j]
    <3>1. \A j \in 1 .. i : j = 1 \/ (j - 1 \in 1 .. i - 1 /\ 1 + (j - 1) = j)
      BY <1>3
    <3>2. \A j \in 1 .. i - 1 : s[1 + j] = t[1 + j]
      <4>1. \A j \in 1 .. i - 1 : j \in 1 .. Len(a.int) /\ j \in 1 .. Len(b.int)
        BY <1>3, <1>6
      <4>. QED
        BY <1>1, <1>2, <2>1, <4>1
    <3>. QED
      BY <1>1, <1>2, <1>6, <3>1, <3>2
  <2>3. s[1 + i] < t[1 + i]
    BY <1>1, <1>2, <1>3, <1>6, <2>1
  <2>4. Differ(s, t, 1 + i)
    <3>1. i \in Nat /\ 1 + i \in 1 .. Len(t) /\ 1 + i <= Len(s) + 1
      <4>. DEFINE p == Len(a.int)
                  f == Len(a.frac)
                  g == Len(b.frac)
                  l == Len(s)
                  m == Len(t)
      <4>1. l = 1 + p + f /\ m = 1 + p + g
        BY <1>1, <1>2, <1>3, <1>6
      <4>2. p \in Nat /\ f \in Nat /\ g \in Nat
        BY <1>3
      <4>3. i \in 1 .. p
        BY <2>1
      <4>. HIDE DEF p, f, g, l, m
      <4>4. i \in Nat /\ 1 + i \in 1 .. m /\ 1 + i <= l + 1
        BY <4>1, <4>2, <4>3
      <4>. QED
        BY <4>4 DEF l, m
    <3>2. \A j \in 1 .. (1 + i) - 1 : s[j] = t[j]
      BY <2>2, <3>1
    <3>. QED
      BY <2>3, <3>1, <3>2 DEF Differ
  <2>. QED
    BY <1>3, <1>4, <2>4 DEF KeyBefore, s, t
<1>. QED
  BY <1>5, <1>6 DEF IntegerBefore

(* Keys with the same integer are ordered by their fractions.                *)
LEMMA FractionNext ==
  ASSUME NEW a \in OrderKeys, NEW b \in OrderKeys, SameInteger(a, b)
  PROVE  KeyBefore(a, b) <=> Before(a.frac, b.frac)
<1>1. a.frac \in Seq(Int) /\ b.frac \in Seq(Int)
  BY KeyFacts
<1>2. /\ Text(a) = (<<a.head>> \o a.int) \o a.frac /\ <<a.head>> \o a.int \in Seq(Int)
      /\ Text(b) = (<<a.head>> \o a.int) \o b.frac
  BY TextFacts DEF SameInteger
<1>. DEFINE p == <<a.head>> \o a.int
<1>3. Before(p \o a.frac, p \o b.frac) <=> Before(a.frac, b.frac)
  <2>. HIDE DEF p
  <2>1. p \in Seq(Int)
    BY <1>2 DEF p
  <2>. QED
    BY <1>1, <2>1, SharedStart
<1>. QED
  BY <1>2, <1>3 DEF KeyBefore

(* Of two integers that differ one is the smaller.                           *)
LEMMA IntegersCompare ==
  ASSUME NEW a \in OrderKeys, NEW b \in OrderKeys
  PROVE  SameInteger(a, b) \/ IntegerBefore(a, b) \/ IntegerBefore(b, a)
<1>1. /\ a.head \in Int /\ a.int \in Seq(Int) /\ Len(a.int) = IntLength(a.head) /\ Len(a.int) \in Nat
      /\ b.head \in Int /\ b.int \in Seq(Int) /\ Len(b.int) = IntLength(b.head)
      /\ (\A i \in 1 .. Len(a.int) : a.int[i] \in Nat) /\ \A i \in 1 .. Len(b.int) : b.int[i] \in Nat
  BY KeyFacts, LenProperties
<1>2. CASE a.head # b.head
  BY <1>1, <1>2 DEF IntegerBefore
<1>3. CASE a.head = b.head /\ a.int # b.int
  <2>. DEFINE S == {i \in 1 .. Len(a.int) : a.int[i] # b.int[i]}
  <2>1. S # {}
    BY <1>1, <1>3, SeqEqual
  <2>2. S \subseteq Nat /\ S \subseteq 1 .. Len(a.int) /\ \A i \in S : a.int[i] # b.int[i]
    BY <1>1
  <2>3. \A i \in 1 .. Len(a.int) : i \notin S => a.int[i] = b.int[i]
    OBVIOUS
  <2>. HIDE DEF S
  <2>4. PICK n \in S : \A m \in S : n <= m
    BY <2>1, <2>2, Least
  <2>5. \A j \in 1 .. n - 1 : a.int[j] = b.int[j]
    BY <1>1, <2>2, <2>3, <2>4
  <2>6. n \in 1 .. Len(a.int) /\ Len(a.int) = Len(b.int) /\ (a.int[n] < b.int[n] \/ b.int[n] < a.int[n])
    BY <1>1, <1>3, <2>2
  <2>. QED
    BY <1>3, <2>5, <2>6 DEF IntegerBefore
<1>. QED
  BY <1>2, <1>3 DEF SameInteger

(* The order of keys is asymmetric, and follows that of the integers.        *)
LEMMA KeysCompare ==
  ASSUME NEW a \in OrderKeys, NEW b \in OrderKeys
  PROVE  /\ KeyBefore(a, b) => ~KeyBefore(b, a)
         /\ KeyBefore(a, b) => SameInteger(a, b) \/ IntegerBefore(a, b)
<1>1. Text(a) \in Seq(Int) /\ Text(b) \in Seq(Int)
  BY TextFacts
<1>2. KeyBefore(a, b) => ~KeyBefore(b, a)
  BY <1>1, BeforeAsym DEF KeyBefore
<1>3. IntegerBefore(b, a) => KeyBefore(b, a)
  BY IntegerFirst
<1>. QED
  BY <1>2, <1>3, IntegersCompare

(* The order of keys is transitive.                                          *)
LEMMA KeyTrans ==
  ASSUME NEW a \in OrderKeys, NEW b \in OrderKeys, NEW c \in OrderKeys,
         KeyBefore(a, b), KeyBefore(b, c)
  PROVE  KeyBefore(a, c)
<1>1. Text(a) \in Seq(Int) /\ Text(b) \in Seq(Int) /\ Text(c) \in Seq(Int)
  BY TextFacts
<1>. QED
  BY <1>1, BeforeTrans DEF KeyBefore

(* The digits that an integer of another length starts from.                 *)
LEMMA Repeated ==
  ASSUME NEW n \in Nat
  PROVE  /\ Zeros(n) \in Seq(Digits) /\ Len(Zeros(n)) = n
         /\ Nines(n) \in Seq(Digits) /\ Len(Nines(n)) = n
<1>1. 0 \in Digits /\ Base - 1 \in Digits
  BY DEF Digits
<1>2. Zeros(n) \in [1 .. n -> Digits] /\ Nines(n) \in [1 .. n -> Digits]
  BY <1>1 DEF Zeros, Nines
<1>. QED
  BY <1>2

(* _incrementInteger, with its carry into a longer integer, gives a greater  *)
(* one.                                                                      *)
LEMMA IncrementAfter ==
  ASSUME NEW k \in OrderKeys, ~LastInteger(k)
  PROVE  _incrementInteger(k) \in OrderKeys /\ IntegerBefore(k, _incrementInteger(k))
<1>. DEFINE L == Len(k.int)
            Ends(i) == /\ i > 0 => k.int[i] # Base - 1
                       /\ \A j \in i + 1 .. L : k.int[j] = Base - 1
            last == CHOOSE i \in 0 .. Len(k.int) : Ends(i)
            next == IF k.head = -1 THEN 1 ELSE k.head + 1
            digits == [i \in 1 .. L |-> IF i = last THEN k.int[i] + 1
                                        ELSE IF i > last THEN 0 ELSE k.int[i]]
            r == _incrementInteger(k)
<1>1. /\ k.head \in Int /\ k.head # 0 /\ -MaxHead <= k.head /\ k.head <= MaxHead
      /\ k.int \in Seq(Digits) /\ L = IntLength(k.head) /\ L \in Nat /\ DOMAIN k.int = 1 .. L
      /\ \A i \in 1 .. L : k.int[i] \in Digits /\ k.int[i] \in Nat
  BY KeyFacts, LenProperties
<1>2. \E i \in 0 .. L : Ends(i)
  <2>. DEFINE S == {i \in 0 .. L : \A j \in i + 1 .. L : k.int[j] = Base - 1}
  <2>1. S \subseteq Nat /\ S \subseteq 0 .. L
        /\ \A i \in S : \A j \in i + 1 .. L : k.int[j] = Base - 1
    BY <1>1
  <2>2. L \in S
    BY <1>1
  <2>3. \A i \in 0 .. L : (\A j \in i + 1 .. L : k.int[j] = Base - 1) => i \in S
    OBVIOUS
  <2>. HIDE DEF S
  <2>4. PICK n \in S : \A m \in S : n <= m
    BY <2>1, <2>2, Least
  <2>5. ASSUME n > 0, k.int[n] = Base - 1 PROVE FALSE
    <3>1. n - 1 \in 0 .. L /\ \A j \in (n - 1) + 1 .. L : j = n \/ j \in n + 1 .. L
      BY <1>1, <2>1, <2>5
    <3>2. n - 1 \in S
      BY <2>1, <2>3, <2>5, <3>1
    <3>. QED
      BY <1>1, <2>1, <2>4, <3>2
  <2>. QED
    BY <2>1, <2>5
<1>3. last \in 0 .. L /\ Ends(last)
  BY <1>2
<1>4. r = IF last > 0 THEN [head |-> k.head, int |-> digits, frac |-> <<>>]
          ELSE [head |-> next, int |-> Zeros(IntLength(next)), frac |-> <<>>]
  <2>1. r = IF last > 0
            THEN [k EXCEPT !.frac = <<>>,
                    !.int = [i \in DOMAIN k.int |-> IF i = last THEN k.int[i] + 1
                                                  ELSE IF i > last THEN 0 ELSE k.int[i]]]
            ELSE [head |-> next, int |-> Zeros(IntLength(next)), frac |-> <<>>]
    BY DEF _incrementInteger
  <2>2. k \in [head : Heads, int : Seq(Digits), frac : Fractions]
    BY DEF OrderKeys
  <2>3. DOMAIN k.int = 1 .. L
    BY <1>1
  <2>4. r = IF last > 0 THEN [k EXCEPT !.frac = <<>>, !.int = digits]
            ELSE [head |-> next, int |-> Zeros(IntLength(next)), frac |-> <<>>]
    BY <2>1, <2>3
  <2>. HIDE DEF last, next, r, digits
  <2>5. [k EXCEPT !.frac = <<>>, !.int = digits] = [[k EXCEPT !.frac = <<>>] EXCEPT !.int = digits]
    BY <2>2
  <2>6. [k EXCEPT !.frac = <<>>] = [head |-> k.head, int |-> k.int, frac |-> <<>>]
    BY <2>2
  <2>7. [[head |-> k.head, int |-> k.int, frac |-> <<>>] EXCEPT !.int = digits]
          = [head |-> k.head, int |-> digits, frac |-> <<>>]
    OBVIOUS
  <2>8. [k EXCEPT !.frac = <<>>, !.int = digits] = [head |-> k.head, int |-> digits, frac |-> <<>>]
    BY <2>5, <2>6, <2>7, Zenon
  <2>. QED
    BY <2>4, <2>8
<1>5. <<>> \in Fractions
  BY DEF Fractions
<1>. HIDE DEF last, r, L
<1>6. CASE last > 0
  <2>1. \A i \in 1 .. L : digits[i] \in Digits
    <3>1. \A i \in 1 .. L : digits[i] = (IF i = last THEN k.int[i] + 1 ELSE IF i > last THEN 0 ELSE k.int[i])
      OBVIOUS
    <3>2. ASSUME NEW i \in 1 .. L PROVE digits[i] \in Digits
      <4>1. i \in Int /\ last \in Int /\ k.int[i] \in 0 .. Base - 1
        BY <1>1, <1>3 DEF Digits
      <4>2. i = last => k.int[i] # Base - 1
        BY <1>3, <1>6
      <4>3. digits[i] \in 0 .. Base - 1
        BY <3>1, <4>1, <4>2
      <4>. QED
        BY <4>3 DEF Digits
    <3>. QED
      BY <3>2
  <2>2. digits \in Seq(Digits) /\ Len(digits) = L
    BY <1>1, <2>1
  <2>3. r.head = k.head /\ r.int = digits
    BY <1>4, <1>6
  <2>4. r \in OrderKeys
    BY <1>1, <1>4, <1>5, <1>6, <2>2 DEF OrderKeys, Heads
  <2>5. last \in 1 .. L /\ k.int[last] < digits[last] /\ \A j \in 1 .. last - 1 : k.int[j] = digits[j]
    BY <1>1, <1>3, <1>6
  <2>. HIDE DEF digits
  <2>6. IntegerBefore(k, r)
    BY <2>3, <2>5 DEF IntegerBefore, L
  <2>. QED
    BY <2>4, <2>6 DEF r
<1>7. CASE last = 0
  <2>1. k.head # MaxHead
    <3>1. SUFFICES ASSUME k.head = MaxHead PROVE FALSE
      OBVIOUS
    <3>2. L = MaxHead /\ \A i \in 1 .. L : k.int[i] = Base - 1
      BY <1>1, <1>3, <1>7, <3>1 DEF IntLength
    <3>3. k.int = Nines(MaxHead)
      BY <1>1, <3>2 DEF Nines
    <3>. QED
      BY <3>1, <3>3 DEF LastInteger
  <2>2. next \in Heads /\ k.head < next
    <3>1. /\ k.head \in Int /\ k.head # 0 /\ -MaxHead <= k.head /\ k.head <= MaxHead
          /\ MaxHead \in Nat \ {0} /\ -MaxHead \in Int
      BY <1>1
    <3>. QED
      BY <2>1, <3>1 DEF Heads
  <2>. HIDE DEF next
  <2>3. IntLength(next) \in Nat
    BY <2>2 DEF IntLength, Heads
  <2>4. Zeros(IntLength(next)) \in Seq(Digits) /\ Len(Zeros(IntLength(next))) = IntLength(next)
    BY <2>3, Repeated
  <2>5. r = [head |-> next, int |-> Zeros(IntLength(next)), frac |-> <<>>]
    BY <1>4, <1>7
  <2>6. r \in OrderKeys
    BY <1>5, <2>2, <2>4, <2>5 DEF OrderKeys
  <2>7. IntegerBefore(k, r)
    BY <2>2, <2>5 DEF IntegerBefore
  <2>. QED
    BY <2>6, <2>7 DEF r
<1>. QED
  BY <1>1, <1>3, <1>6, <1>7

(* _decrementInteger, with its borrow from a shorter integer, gives a        *)
(* smaller one.                                                              *)
LEMMA DecrementBefore ==
  ASSUME NEW k \in OrderKeys, ~Smallest(k)
  PROVE  _decrementInteger(k) \in OrderKeys /\ IntegerBefore(_decrementInteger(k), k)
<1>. DEFINE L == Len(k.int)
            Ends(i) == /\ i > 0 => k.int[i] # 0
                       /\ \A j \in i + 1 .. L : k.int[j] = 0
            last == CHOOSE i \in 0 .. Len(k.int) : Ends(i)
            next == IF k.head = 1 THEN -1 ELSE k.head - 1
            digits == [i \in 1 .. L |-> IF i = last THEN k.int[i] - 1
                                        ELSE IF i > last THEN Base - 1 ELSE k.int[i]]
            r == _decrementInteger(k)
<1>1. /\ k.head \in Int /\ k.head # 0 /\ -MaxHead <= k.head /\ k.head <= MaxHead
      /\ k.int \in Seq(Digits) /\ L = IntLength(k.head) /\ L \in Nat /\ DOMAIN k.int = 1 .. L
      /\ \A i \in 1 .. L : k.int[i] \in Digits /\ k.int[i] \in Nat
  BY KeyFacts, LenProperties
<1>2. \E i \in 0 .. L : Ends(i)
  <2>. DEFINE S == {i \in 0 .. L : \A j \in i + 1 .. L : k.int[j] = 0}
  <2>1. S \subseteq Nat /\ S \subseteq 0 .. L /\ \A i \in S : \A j \in i + 1 .. L : k.int[j] = 0
    BY <1>1
  <2>2. L \in S
    BY <1>1
  <2>3. \A i \in 0 .. L : (\A j \in i + 1 .. L : k.int[j] = 0) => i \in S
    OBVIOUS
  <2>. HIDE DEF S
  <2>4. PICK n \in S : \A m \in S : n <= m
    BY <2>1, <2>2, Least
  <2>5. ASSUME n > 0, k.int[n] = 0 PROVE FALSE
    <3>1. n - 1 \in 0 .. L /\ \A j \in (n - 1) + 1 .. L : j = n \/ j \in n + 1 .. L
      BY <1>1, <2>1, <2>5
    <3>2. n - 1 \in S
      BY <2>1, <2>3, <2>5, <3>1
    <3>. QED
      BY <1>1, <2>1, <2>4, <3>2
  <2>. QED
    BY <2>1, <2>5
<1>3. last \in 0 .. L /\ Ends(last)
  BY <1>2
<1>4. r = IF last > 0 THEN [head |-> k.head, int |-> digits, frac |-> <<>>]
          ELSE [head |-> next, int |-> Nines(IntLength(next)), frac |-> <<>>]
  <2>1. r = IF last > 0
            THEN [k EXCEPT !.frac = <<>>,
                    !.int = [i \in DOMAIN k.int |-> IF i = last THEN k.int[i] - 1
                                                  ELSE IF i > last THEN Base - 1 ELSE k.int[i]]]
            ELSE [head |-> next, int |-> Nines(IntLength(next)), frac |-> <<>>]
    BY DEF _decrementInteger
  <2>2. k \in [head : Heads, int : Seq(Digits), frac : Fractions]
    BY DEF OrderKeys
  <2>3. DOMAIN k.int = 1 .. L
    BY <1>1
  <2>4. r = IF last > 0 THEN [k EXCEPT !.frac = <<>>, !.int = digits]
            ELSE [head |-> next, int |-> Nines(IntLength(next)), frac |-> <<>>]
    BY <2>1, <2>3
  <2>. HIDE DEF last, next, r, digits
  <2>5. [k EXCEPT !.frac = <<>>, !.int = digits] = [[k EXCEPT !.frac = <<>>] EXCEPT !.int = digits]
    BY <2>2
  <2>6. [k EXCEPT !.frac = <<>>] = [head |-> k.head, int |-> k.int, frac |-> <<>>]
    BY <2>2
  <2>7. [[head |-> k.head, int |-> k.int, frac |-> <<>>] EXCEPT !.int = digits]
          = [head |-> k.head, int |-> digits, frac |-> <<>>]
    OBVIOUS
  <2>8. [k EXCEPT !.frac = <<>>, !.int = digits] = [head |-> k.head, int |-> digits, frac |-> <<>>]
    BY <2>5, <2>6, <2>7, Zenon
  <2>. QED
    BY <2>4, <2>8
<1>5. <<>> \in Fractions
  BY DEF Fractions
<1>. HIDE DEF last, r, L
<1>6. CASE last > 0
  <2>1. \A i \in 1 .. L : digits[i] \in Digits
    <3>1. \A i \in 1 .. L : digits[i] = (IF i = last THEN k.int[i] - 1 ELSE IF i > last THEN Base - 1 ELSE k.int[i])
      OBVIOUS
    <3>2. ASSUME NEW i \in 1 .. L PROVE digits[i] \in Digits
      <4>1. i \in Int /\ last \in Int /\ k.int[i] \in 0 .. Base - 1
        BY <1>1, <1>3 DEF Digits
      <4>2. i = last => k.int[i] # 0
        BY <1>3, <1>6
      <4>3. digits[i] \in 0 .. Base - 1
        BY <3>1, <4>1, <4>2
      <4>. QED
        BY <4>3 DEF Digits
    <3>. QED
      BY <3>2
  <2>2. digits \in Seq(Digits) /\ Len(digits) = L
    BY <1>1, <2>1
  <2>3. r.head = k.head /\ r.int = digits
    BY <1>4, <1>6
  <2>4. r \in OrderKeys
    BY <1>1, <1>4, <1>5, <1>6, <2>2 DEF OrderKeys, Heads
  <2>5. last \in 1 .. L /\ digits[last] < k.int[last] /\ \A j \in 1 .. last - 1 : digits[j] = k.int[j]
    BY <1>1, <1>3, <1>6
  <2>. HIDE DEF digits
  <2>6. IntegerBefore(r, k)
    BY <2>2, <2>3, <2>5 DEF IntegerBefore, L
  <2>. QED
    BY <2>4, <2>6 DEF r
<1>7. CASE last = 0
  <2>1. k.head # -MaxHead
    <3>1. SUFFICES ASSUME k.head = -MaxHead PROVE FALSE
      OBVIOUS
    <3>2. L = MaxHead /\ \A i \in 1 .. L : k.int[i] = 0
      <4>1. L = MaxHead
        BY <1>1, <3>1 DEF IntLength
      <4>. QED
        BY <1>3, <1>7, <4>1
    <3>3. k.int = Zeros(MaxHead)
      BY <1>1, <3>2 DEF Zeros
    <3>. QED
      BY <3>1, <3>3 DEF Smallest
  <2>2. next \in Heads /\ next < k.head
    <3>1. /\ k.head \in Int /\ k.head # 0 /\ -MaxHead <= k.head /\ k.head <= MaxHead
          /\ MaxHead \in Nat \ {0} /\ -MaxHead \in Int
      BY <1>1
    <3>. QED
      BY <2>1, <3>1 DEF Heads
  <2>. HIDE DEF next
  <2>3. IntLength(next) \in Nat
    BY <2>2 DEF IntLength, Heads
  <2>4. Nines(IntLength(next)) \in Seq(Digits) /\ Len(Nines(IntLength(next))) = IntLength(next)
    BY <2>3, Repeated
  <2>5. r = [head |-> next, int |-> Nines(IntLength(next)), frac |-> <<>>]
    BY <1>4, <1>7
  <2>6. r \in OrderKeys
    BY <1>5, <2>2, <2>4, <2>5 DEF OrderKeys
  <2>7. IntegerBefore(r, k)
    BY <2>2, <2>5 DEF IntegerBefore
  <2>. QED
    BY <2>6, <2>7 DEF r
<1>. QED
  BY <1>1, <1>3, <1>6, <1>7

(* A key keeps its integer when another fraction is put in.                  *)
LEMMA FractionChanged ==
  ASSUME NEW k \in OrderKeys, NEW f \in Fractions
  PROVE  /\ [k EXCEPT !.frac = f] \in OrderKeys
         /\ SameInteger(k, [k EXCEPT !.frac = f]) /\ SameInteger([k EXCEPT !.frac = f], k)
         /\ [k EXCEPT !.frac = f].frac = f
BY DEF OrderKeys, SameInteger

(* The order of integers does not look at the fractions.                     *)
LEMMA IntegerOnly ==
  ASSUME NEW a \in OrderKeys, NEW b \in OrderKeys, NEW c \in OrderKeys, SameInteger(a, c), IntegerBefore(a, b)
  PROVE  IntegerBefore(c, b)
BY DEF SameInteger, IntegerBefore

(* No fraction is smaller than the empty one.                                *)
LEMMA EmptyFirst ==
  ASSUME NEW f \in Fractions, f # <<>>
  PROVE  <<>> \in Fractions /\ Before(<<>>, f)
<1>1. <<>> \in Fractions /\ <<>> \in Seq(Int) /\ Len(<<>>) = 0
  BY DEF Fractions
<1>2. f \in Seq(Int) /\ Len(f) \in Nat /\ Len(f) # 0
  BY FractionFacts, EmptySeq
<1>3. Differ(<<>>, f, 1)
  BY <1>1, <1>2 DEF Differ
<1>. QED
  BY <1>1, <1>2, <1>3, BeforeDiffer

(* The key generated before the first one of a list is smaller.              *)
LEMMA KeyBelowBefore ==
  ASSUME NEW b \in OrderKeys, _validateOrderKey(b)
  PROVE  KeyBelow(b) \in OrderKeys /\ KeyBefore(KeyBelow(b), b)
<1>1. b.frac \in Fractions
  BY KeyFacts
<1>2. CASE Smallest(b)
  <2>1. b.frac # <<>>
    BY <1>2 DEF _validateOrderKey
  <2>. DEFINE f == _midpoint(<<>>, b.frac)
  <2>2. f \in Fractions /\ Before(f, b.frac)
    BY <1>1, <2>1, EmptyFirst, MidpointBetween
  <2>3. KeyBelow(b) = [b EXCEPT !.frac = f]
    BY <1>2 DEF KeyBelow
  <2>. HIDE DEF f
  <2>. QED
    BY <2>2, <2>3, FractionChanged, FractionNext
<1>3. CASE ~Smallest(b) /\ b.frac # <<>>
  <2>1. <<>> \in Fractions /\ Before(<<>>, b.frac)
    BY <1>1, <1>3, EmptyFirst
  <2>2. KeyBelow(b) = [b EXCEPT !.frac = <<>>]
    BY <1>3 DEF KeyBelow
  <2>. QED
    BY <2>1, <2>2, FractionChanged, FractionNext
<1>4. CASE ~Smallest(b) /\ b.frac = <<>>
  <2>1. KeyBelow(b) = _decrementInteger(b)
    BY <1>4 DEF KeyBelow
  <2>. QED
    BY <1>4, <2>1, DecrementBefore, IntegerFirst
<1>. QED
  BY <1>2, <1>3, <1>4

(* The key with the same integer and a fraction above is greater.            *)
LEMMA AboveAfter ==
  ASSUME NEW a \in OrderKeys
  PROVE  Above(a) \in OrderKeys /\ SameInteger(a, Above(a)) /\ KeyBefore(a, Above(a))
<1>1. a.frac \in Fractions
  BY KeyFacts
<1>2. FractionAbove(a.frac) \in Fractions /\ Before(a.frac, FractionAbove(a.frac))
  BY <1>1, FractionAboveAfter
<1>. QED
  BY <1>2, FractionChanged, FractionNext DEF Above

(* The key generated after the last one of a list is greater.                *)
LEMMA KeyAboveAfter ==
  ASSUME NEW a \in OrderKeys
  PROVE  KeyAbove(a) \in OrderKeys /\ KeyBefore(a, KeyAbove(a))
BY AboveAfter, IncrementAfter, IntegerFirst DEF KeyAbove

(* The key generated between two keys lies between them, whether they share  *)
(* their integer, or there is an integer between them, or there is none.     *)
LEMMA KeyBetweenBetween ==
  ASSUME NEW a \in OrderKeys, NEW b \in OrderKeys, KeyBefore(a, b)
  PROVE  KeyBetween(a, b) \in OrderKeys /\ KeyBefore(a, KeyBetween(a, b)) /\ KeyBefore(KeyBetween(a, b), b)
<1>1. a.frac \in Fractions /\ b.frac \in Fractions
  BY KeyFacts
<1>2. CASE SameInteger(a, b)
  <2>. DEFINE f == _midpoint(a.frac, b.frac)
              r == [a EXCEPT !.frac = f]
  <2>1. Before(a.frac, b.frac)
    BY <1>2, FractionNext
  <2>2. f \in Fractions /\ Before(a.frac, f) /\ Before(f, b.frac)
    BY <1>1, <2>1, MidpointBetween
  <2>3. KeyBetween(a, b) = r
    BY <1>2 DEF KeyBetween, Between, SameInteger
  <2>. HIDE DEF f
  <2>4. r \in OrderKeys /\ SameInteger(a, r) /\ r.frac = f
    BY <2>2, FractionChanged
  <2>5. SameInteger(r, b)
    BY <1>2, <2>4 DEF SameInteger
  <2>. QED
    BY <2>2, <2>3, <2>4, <2>5, FractionNext
<1>3. CASE ~SameInteger(a, b)
  <2>1. IntegerBefore(a, b)
    BY <1>3, KeysCompare
  <2>2. ~LastInteger(a)
    <3>1. SUFFICES ASSUME LastInteger(a) PROVE FALSE
      OBVIOUS
    <3>2. /\ a.head = MaxHead /\ a.int = Nines(MaxHead)
          /\ b.head \in Int /\ b.head <= MaxHead /\ a.head \in Int
          /\ Len(a.int) = IntLength(a.head) /\ Len(b.int) = IntLength(b.head)
          /\ \A i \in 1 .. Len(b.int) : b.int[i] \in Digits
      BY <3>1, KeyFacts DEF LastInteger
    <3>3. \A i \in 1 .. Len(a.int) : a.int[i] = Base - 1
      <4>1. Len(a.int) = MaxHead
        BY <3>2 DEF IntLength
      <4>. QED
        BY <3>2, <4>1 DEF Nines
    <3>. QED
      BY <2>1, <3>2, <3>3 DEF IntegerBefore, Digits
  <2>. DEFINE r == _incrementInteger(a)
  <2>3. r \in OrderKeys /\ KeyBefore(a, r)
    BY <2>2, IncrementAfter, IntegerFirst
  <2>4. KeyBetween(a, b) = IF KeyBefore(r, b) THEN r ELSE Above(a)
    BY <1>3 DEF KeyBetween, SameInteger
  <2>. HIDE DEF r
  <2>5. CASE KeyBefore(r, b)
    BY <2>3, <2>4, <2>5
  <2>6. CASE ~KeyBefore(r, b)
    <3>1. Above(a) \in OrderKeys /\ SameInteger(a, Above(a)) /\ KeyBefore(a, Above(a))
      BY AboveAfter
    <3>2. KeyBefore(Above(a), b)
      BY <2>1, <3>1, IntegerOnly, IntegerFirst
    <3>. QED
      BY <2>4, <2>6, <3>1, <3>2
  <2>. QED
    BY <2>5, <2>6
<1>. QED
  BY <1>2, <1>3

(* generateKeyBetween never gives a key that is no key, or that puts the     *)
(* item on the wrong side of a neighbour: for a list of any length, keys of  *)
(* any length, and whichever neighbours the place has, the result is a valid *)
(* key above the one before it and below the one after it.                   *)
THEOREM GeneratedKeyFits ==
  ASSUME NEW n \in Nat \ {0}, NEW s, DOMAIN s = 1 .. n, Len(s) = n, NEW i \in 1 .. n,
         \A j \in 1 .. n : j # i => s[j] \in OrderKeys,
         CanPlace(s, i)
  PROVE  /\ generateKeyBetween(s, i) \in OrderKeys
         /\ i > 1 => KeyBefore(s[i - 1], generateKeyBetween(s, i))
         /\ i < n => KeyBefore(generateKeyBetween(s, i), s[i + 1])
<1>1. CASE n = 1
  <2>1. generateKeyBetween(s, i) = integerZero
    BY <1>1 DEF generateKeyBetween
  <2>2. <<0>> \in Seq(Digits) /\ Len(<<0>>) = 1 /\ <<>> \in Fractions
    BY DEF Digits, Fractions
  <2>3. integerZero \in OrderKeys
    <3>1. 1 \in Heads /\ IntLength(1) = 1
      BY DEF Heads, IntLength
    <3>2. integerZero \in [head : Heads, int : Seq(Digits), frac : Fractions]
          /\ integerZero.head = 1 /\ integerZero.int = <<0>>
      BY <2>2, <3>1 DEF integerZero
    <3>. QED
      BY <2>2, <3>1, <3>2 DEF OrderKeys
  <2>. QED
    BY <1>1, <2>1, <2>3
<1>2. CASE n > 1 /\ i = 1
  <2>1. s[2] \in OrderKeys /\ _validateOrderKey(s[2])
    BY <1>2 DEF CanPlace
  <2>2. generateKeyBetween(s, i) = KeyBelow(s[2])
    BY <1>2 DEF generateKeyBetween
  <2>. QED
    BY <1>2, <2>1, <2>2, KeyBelowBefore
<1>3. CASE n > 1 /\ i = n
  <2>1. s[i - 1] \in OrderKeys
    BY <1>3
  <2>2. generateKeyBetween(s, i) = KeyAbove(s[i - 1])
    BY <1>3 DEF generateKeyBetween
  <2>. QED
    BY <1>3, <2>1, <2>2, KeyAboveAfter
<1>4. CASE 1 < i /\ i < n
  <2>1. s[i - 1] \in OrderKeys /\ s[i + 1] \in OrderKeys /\ KeyBefore(s[i - 1], s[i + 1])
    BY <1>4 DEF CanPlace
  <2>2. generateKeyBetween(s, i) = KeyBetween(s[i - 1], s[i + 1])
    BY <1>4 DEF generateKeyBetween
  <2>. QED
    BY <1>4, <2>1, <2>2, KeyBetweenBetween
<1>. QED
  BY <1>1, <1>2, <1>3, <1>4

-----------------------------------------------------------------------------
(* The rules of s are those with a key in the table t, by their keys.          *)
InOrder(s, t) ==
    /\ s \in Seq(Rules)
    /\ \A i \in 1 .. Len(s) : t[s[i]] \in OrderKeys
    /\ \A i, j \in 1 .. Len(s) : i < j => KeyBefore(t[s[i]], t[s[j]])
    /\ \A r \in Rules : t[r] # NoKey => \E i \in 1 .. Len(s) : s[i] = r
RowsOf(s, t) == [i \in 1 .. Len(s) |-> [id |-> s[i], key |-> t[s[i]]]]

(* A rule without a key is told from one with a key.                         *)
LEMMA NoKeyIsNone == NoKey \notin OrderKeys
<1>1. SUFFICES ASSUME NoKey \in OrderKeys PROVE FALSE
  OBVIOUS
<1>2. NoKey.head \in Heads /\ NoKey.head = 0
  BY <1>1 DEF NoKey, OrderKeys
<1>. QED
  BY <1>2 DEF Heads

(* A map of the numbers up to n into themselves that keeps their order moves   *)
(* none of them down.                                                          *)
LEMMA NotDown ==
  ASSUME NEW n \in Nat, NEW g \in [1 .. n -> 1 .. n],
         \A i, j \in 1 .. n : i < j => g[i] < g[j]
  PROVE  \A i \in 1 .. n : i <= g[i]
<1>. DEFINE S == {i \in 1 .. n : g[i] < i}
<1>1. S \subseteq Nat /\ \A i \in S : i \in 1 .. n /\ g[i] < i
  OBVIOUS
<1>2. \A i \in 1 .. n : g[i] < i => i \in S
  OBVIOUS
<1>. HIDE DEF S
<1>3. S = {}
  <2>1. SUFFICES ASSUME S # {} PROVE FALSE
    OBVIOUS
  <2>2. PICK m \in S : \A i \in S : m <= i
    BY <1>1, <2>1, Least
  <2>3. m \in 1 .. n /\ g[m] < m /\ g[m] \in 1 .. n
    BY <1>1
  <2>4. m - 1 \in 1 .. n /\ m - 1 < m
    BY <2>3
  <2>5. g[m - 1] < g[m] /\ g[m - 1] \in 1 .. n
    BY <2>3, <2>4
  <2>6. m - 1 \in S
    BY <1>2, <2>3, <2>4, <2>5
  <2>. QED
    BY <2>2, <2>3, <2>6
<1>. QED
  BY <1>2, <1>3

(* The rows of the table, sorted by their keys, are those of the arrangement.  *)
LEMMA ReadInOrder ==
  ASSUME NEW s, NEW t, InOrder(s, t), NEW v,
         v \in SetToSeqs({[id |-> r, key |-> t[r]] : r \in {r \in Rules : t[r] # NoKey}}),
         \A i, j \in DOMAIN v : i < j => ~KeyBefore(v[j].key, v[i].key)
  PROVE  v = RowsOf(s, t)
<1>. DEFINE n == Len(s)
            keyed == {r \in Rules : t[r] # NoKey}
            rows == {[id |-> r, key |-> t[r]] : r \in keyed}
            c == Cardinality(rows)
            w == RowsOf(s, t)
<1>1. /\ n \in Nat /\ (\A i \in 1 .. n : s[i] \in Rules /\ t[s[i]] \in OrderKeys)
      /\ (\A i, j \in 1 .. n : i < j => KeyBefore(t[s[i]], t[s[j]]))
      /\ \A r \in Rules : t[r] # NoKey => \E i \in 1 .. n : s[i] = r
  BY LenProperties, ElementOfSeq DEF InOrder
<1>2. /\ w \in [1 .. n -> rows]
      /\ \A i \in 1 .. n : w[i].id = s[i] /\ w[i].key = t[s[i]]
  <2>1. \A i \in 1 .. n : s[i] \in keyed /\ [id |-> s[i], key |-> t[s[i]]] \in rows
    BY <1>1, NoKeyIsNone
  <2>. QED
    BY <2>1 DEF RowsOf
<1>3. ASSUME NEW i \in 1 .. n, NEW j \in 1 .. n, w[i] = w[j] PROVE i = j
  <2>1. i < j => KeyBefore(w[i].key, w[j].key)
    BY <1>1, <1>2
  <2>2. j < i => KeyBefore(w[j].key, w[i].key)
    BY <1>1, <1>2
  <2>3. ~KeyBefore(w[i].key, w[i].key)
    BY <1>1, <1>2, KeysCompare
  <2>. QED
    BY <1>3, <2>1, <2>2, <2>3
<1>4. \A x \in rows : \E i \in 1 .. n : w[i] = x
  <2>1. ASSUME NEW r \in keyed PROVE \E i \in 1 .. n : w[i] = [id |-> r, key |-> t[r]]
    <3>1. PICK i \in 1 .. n : s[i] = r
      BY <1>1
    <3>2. w[i] = [id |-> r, key |-> t[r]]
      BY <3>1 DEF RowsOf
    <3>. QED
      BY <3>2
  <2>. QED
    BY <2>1
<1>. HIDE DEF w, rows
<1>5. IsFiniteSet(rows) /\ c = n
  <2>1. w \in Bijection(1 .. n, rows)
    BY <1>2, <1>3, <1>4 DEF Bijection, Injection, Surjection, IsInjective
  <2>2. ExistsBijection(1 .. n, rows)
    BY <2>1 DEF ExistsBijection
  <2>3. IsFiniteSet(1 .. n) /\ Cardinality(1 .. n) = n
    BY <1>1, FS_Interval
  <2>. QED
    BY <2>2, <2>3, FS_Bijection
<1>6. v \in [1 .. n -> rows] /\ \A i, j \in 1 .. n : i # j => v[i] # v[j]
  BY <1>5 DEF SetToSeqs, rows
<1>7. \A x \in rows : \E i \in 1 .. n : v[i] = x
  <2>1. v \in Injection(1 .. n, rows)
    BY <1>6 DEF Injection, IsInjective
  <2>2. Cardinality(1 .. n) = n
    BY <1>1, FS_Interval
  <2>3. v \in Surjection(1 .. n, rows)
    BY <1>5, <2>1, <2>2, FS_Injection
  <2>. QED
    BY <2>3 DEF Surjection
<1>. DEFINE g == [i \in 1 .. n |-> CHOOSE k \in 1 .. n : w[k] = v[i]]
            h == [k \in 1 .. n |-> CHOOSE i \in 1 .. n : v[i] = w[k]]
<1>8. g \in [1 .. n -> 1 .. n] /\ \A i \in 1 .. n : w[g[i]] = v[i]
  BY <1>4, <1>6
<1>9. h \in [1 .. n -> 1 .. n] /\ \A k \in 1 .. n : v[h[k]] = w[k]
  BY <1>2, <1>7
<1>. HIDE DEF g, h
<1>10. ASSUME NEW i \in 1 .. n, NEW j \in 1 .. n, i < j PROVE g[i] < g[j]
  <2>1. g[i] \in 1 .. n /\ g[j] \in 1 .. n /\ g[i] # g[j]
    BY <1>6, <1>8, <1>10
  <2>2. ~(g[j] < g[i])
    <3>1. SUFFICES ASSUME g[j] < g[i] PROVE FALSE
      OBVIOUS
    <3>2. KeyBefore(w[g[j]].key, w[g[i]].key)
      BY <1>1, <1>2, <2>1, <3>1
    <3>3. KeyBefore(v[j].key, v[i].key)
      BY <1>8, <3>2
    <3>4. DOMAIN v = 1 .. n
      BY <1>6
    <3>. QED
      BY <1>10, <3>3, <3>4
  <2>. QED
    BY <2>1, <2>2
<1>11. ASSUME NEW i \in 1 .. n, NEW j \in 1 .. n, i < j PROVE h[i] < h[j]
  <2>1. h[i] \in 1 .. n /\ h[j] \in 1 .. n
    BY <1>9
  <2>2. h[i] # h[j]
    BY <1>3, <1>9, <1>11
  <2>3. ~(h[j] < h[i])
    <3>1. SUFFICES ASSUME h[j] < h[i] PROVE FALSE
      OBVIOUS
    <3>2. ~KeyBefore(v[h[i]].key, v[h[j]].key)
      <4>1. DOMAIN v = 1 .. n
        BY <1>6
      <4>. QED
        BY <2>1, <3>1, <4>1
    <3>3. ~KeyBefore(w[i].key, w[j].key)
      BY <1>9, <3>2
    <3>. QED
      BY <1>1, <1>2, <1>11, <3>3
  <2>. QED
    BY <2>1, <2>2, <2>3
<1>12. ASSUME NEW i \in 1 .. n PROVE v[i] = w[i]
  <2>1. i <= g[i]
    BY <1>1, <1>8, <1>10, NotDown
  <2>2. g[i] \in 1 .. n /\ g[i] <= h[g[i]]
    BY <1>1, <1>8, <1>9, <1>11, NotDown
  <2>3. h[g[i]] = i
    BY <1>6, <1>8, <1>9, <2>2
  <2>. QED
    BY <1>8, <2>1, <2>2, <2>3
<1>13. v = w
  BY <1>2, <1>6, <1>12
<1>. QED
  BY <1>13 DEF w

(* What Stored and Writing say of a list without a write under way, and with   *)
(* one.                                                                        *)
Stored ==
    /\ waiting = <<>> /\ InOrder(arranged, links)
    /\ ~unread => value = RowsOf(arranged, links)

Writing(w) ==
    /\ w.id \in Rules /\ w.key \in OrderKeys \cup {NoKey} /\ ~unread
    /\ InOrder(arranged, [links EXCEPT ![w.id] = w.key])
    /\ InOrder(Ids(w.snapshot), links) /\ w.snapshot = RowsOf(Ids(w.snapshot), links)

(* The inductive invariant.  Nothing is said once a change came before the     *)
(* list was read back: from there on the order may be lost for good.           *)
RulesInv == ~spoiled =>
    /\ links \in [Rules -> OrderKeys \cup {NoKey}] /\ unread \in BOOLEAN
    /\ Stored \/ (waiting = <<waiting[1]>> /\ Writing(waiting[1]))

(* What RemoveAt leaves.                                                     *)
LEMMA RemoveAtFacts ==
  ASSUME NEW S, NEW s \in Seq(S), NEW i \in 1 .. Len(s)
  PROVE  /\ RemoveAt(s, i) \in Seq(S) /\ Len(RemoveAt(s, i)) = Len(s) - 1
         /\ \A k \in 1 .. Len(s) - 1 : RemoveAt(s, i)[k] = IF k < i THEN s[k] ELSE s[k + 1]
<1>. DEFINE n == Len(s)
            p == SubSeq(s, 1, i - 1)
            q == SubSeq(s, i + 1, n)
<1>1. n \in Nat /\ (\A k \in 1 .. n : s[k] \in S) /\ i \in 1 .. n
  BY LenProperties, ElementOfSeq
<1>2. p \in Seq(S) /\ Len(p) = i - 1 /\ \A k \in 1 .. i - 1 : p[k] = s[k]
  <2>1. \A k \in 1 .. i - 1 : s[k] \in S
    BY <1>1
  <2>. QED
    BY <1>1, <2>1, SubSeqProperties
<1>3. q \in Seq(S) /\ Len(q) = n - i /\ \A k \in 1 .. n - i : q[k] = s[i + k]
  <2>1. \A k \in i + 1 .. n : s[k] \in S
    BY <1>1
  <2>2. /\ q \in Seq(S) /\ Len(q) = IF i + 1 <= n THEN n - (i + 1) + 1 ELSE 0
        /\ \A k \in 1 .. n - (i + 1) + 1 : q[k] = s[i + 1 + k - 1]
    BY <1>1, <2>1, SubSeqProperties
  <2>. HIDE DEF q
  <2>. QED
    BY <1>1, <2>2
<1>4. RemoveAt(s, i) = p \o q
  BY DEF RemoveAt
<1>. HIDE DEF p, q
<1>. DEFINE r == p \o q
<1>5. /\ r \in Seq(S) /\ Len(r) = Len(p) + Len(q)
      /\ (\A k \in 1 .. Len(p) : r[k] = p[k]) /\ \A k \in 1 .. Len(q) : r[Len(p) + k] = q[k]
  <2>1. p \in Seq(S) /\ q \in Seq(S)
    BY <1>2, <1>3
  <2>. QED
    BY <2>1, Joined
<1>. HIDE DEF r
<1>6. ASSUME NEW k \in 1 .. n - 1 PROVE r[k] = IF k < i THEN s[k] ELSE s[k + 1]
  <2>1. CASE k < i
    BY <1>1, <1>2, <1>5, <2>1
  <2>2. CASE ~(k < i)
    <3>1. k - (i - 1) \in 1 .. n - i /\ i + (k - (i - 1)) = k + 1 /\ (i - 1) + (k - (i - 1)) = k
      BY <1>1, <2>2
    <3>2. r[(i - 1) + (k - (i - 1))] = q[k - (i - 1)]
      BY <1>2, <1>3, <1>5, <3>1
    <3>. QED
      BY <1>3, <2>2, <3>1, <3>2
  <2>. QED
    BY <2>1, <2>2
<1>7. r \in Seq(S) /\ Len(r) = n - 1
  BY <1>1, <1>2, <1>3, <1>5
<1>. QED
  BY <1>4, <1>6, <1>7 DEF r

(* t is s with e at place j.                                                   *)
Spliced(t, S, s, j, e) ==
    /\ t \in Seq(S) /\ Len(t) = Len(s) + 1
    /\ \A k \in 1 .. Len(s) + 1 : t[k] = IF k < j THEN s[k] ELSE IF k = j THEN e ELSE s[k - 1]

(* What InsertAt makes.                                                      *)
LEMMA InsertAtFacts ==
  ASSUME NEW S, NEW s \in Seq(S), NEW e \in S, NEW j \in Int, 1 <= j, j <= Len(s) + 1
  PROVE  Spliced(InsertAt(s, j, e), S, s, j, e)
<1>. DEFINE n == Len(s)
            p == SubSeq(s, 1, j - 1)
            o == <<e>>
            q == SubSeq(s, j, n)
<1>1. n \in Nat /\ (\A k \in 1 .. n : s[k] \in S) /\ j \in 1 .. n + 1
  BY LenProperties, ElementOfSeq
<1>2. p \in Seq(S) /\ Len(p) = j - 1 /\ \A k \in 1 .. j - 1 : p[k] = s[k]
  <2>1. \A k \in 1 .. j - 1 : s[k] \in S
    BY <1>1
  <2>. QED
    BY <1>1, <2>1, SubSeqProperties
<1>3. q \in Seq(S) /\ Len(q) = n - j + 1 /\ \A k \in 1 .. n - j + 1 : q[k] = s[j + k - 1]
  <2>1. \A k \in j .. n : s[k] \in S
    BY <1>1
  <2>2. /\ q \in Seq(S) /\ Len(q) = IF j <= n THEN n - j + 1 ELSE 0
        /\ \A k \in 1 .. n - j + 1 : q[k] = s[j + k - 1]
    BY <1>1, <2>1, SubSeqProperties
  <2>. HIDE DEF q
  <2>. QED
    BY <1>1, <2>2
<1>4. o \in Seq(S) /\ Len(o) = 1 /\ o[1] = e
  OBVIOUS
<1>5. InsertAt(s, j, e) = (p \o o) \o q
  BY DEF InsertAt
<1>. HIDE DEF p, o, q
<1>. DEFINE u == p \o o
<1>6. /\ u \in Seq(S) /\ Len(u) = Len(p) + Len(o)
      /\ (\A k \in 1 .. Len(p) : u[k] = p[k]) /\ \A k \in 1 .. Len(o) : u[Len(p) + k] = o[k]
  <2>1. p \in Seq(S) /\ o \in Seq(S)
    BY <1>2, <1>4
  <2>. QED
    BY <2>1, Joined
<1>. HIDE DEF u
<1>7. Len(u) = j /\ (\A k \in 1 .. j - 1 : u[k] = s[k]) /\ u[j] = e
  <2>1. Len(p) + 1 = j /\ 1 \in 1 .. Len(o)
    BY <1>1, <1>2, <1>4
  <2>2. u[j] = e
    BY <1>4, <1>6, <2>1
  <2>. QED
    BY <1>2, <1>4, <1>6, <2>1, <2>2
<1>. DEFINE r == u \o q
<1>8. /\ r \in Seq(S) /\ Len(r) = Len(u) + Len(q)
      /\ (\A k \in 1 .. Len(u) : r[k] = u[k]) /\ \A k \in 1 .. Len(q) : r[Len(u) + k] = q[k]
  <2>1. u \in Seq(S) /\ q \in Seq(S)
    BY <1>3, <1>6
  <2>. QED
    BY <2>1, Joined
<1>. HIDE DEF r
<1>9. ASSUME NEW k \in 1 .. n + 1
      PROVE  r[k] = IF k < j THEN s[k] ELSE IF k = j THEN e ELSE s[k - 1]
  <2>1. CASE k <= j
    BY <1>1, <1>7, <1>8, <2>1
  <2>2. CASE ~(k <= j)
    <3>1. k - j \in 1 .. n - j + 1 /\ j + (k - j) - 1 = k - 1 /\ j + (k - j) = k
      BY <1>1, <2>2
    <3>2. r[j + (k - j)] = q[k - j]
      BY <1>3, <1>7, <1>8, <3>1
    <3>. QED
      BY <1>1, <1>3, <2>2, <3>1, <3>2
  <2>. QED
    BY <2>1, <2>2
<1>10. r \in Seq(S) /\ Len(r) = n + 1
  BY <1>1, <1>3, <1>7, <1>8
<1>. QED
  BY <1>5, <1>9, <1>10 DEF r, u, Spliced

(* What a list at rest is.                                                     *)
LEMMA ListAtRest ==
  ASSUME RulesInv, ~spoiled, RulesRest
  PROVE  /\ links \in [Rules -> OrderKeys \cup {NoKey}] /\ unread = FALSE /\ waiting = <<>>
         /\ InOrder(arranged, links) /\ arranged \in Seq(Rules) /\ Len(arranged) \in Nat
         /\ value \in Seq([id : Rules, key : OrderKeys])
         /\ DOMAIN value = 1 .. Len(arranged) /\ Len(value) = Len(arranged)
         /\ \A i \in 1 .. Len(arranged) : /\ value[i].id = arranged[i]
                                          /\ value[i].key = links[arranged[i]]
                                          /\ arranged[i] \in Rules
                                          /\ links[arranged[i]] \in OrderKeys
         /\ Ids(value) = arranged
<1>1. /\ links \in [Rules -> OrderKeys \cup {NoKey}] /\ unread = FALSE /\ waiting = <<>>
      /\ InOrder(arranged, links) /\ value = RowsOf(arranged, links)
  BY DEF RulesInv, RulesRest, Stored
<1>2. /\ arranged \in Seq(Rules) /\ Len(arranged) \in Nat
      /\ \A i \in 1 .. Len(arranged) : arranged[i] \in Rules /\ links[arranged[i]] \in OrderKeys
  BY <1>1, LenProperties, ElementOfSeq DEF InOrder
<1>3. /\ value \in [1 .. Len(arranged) -> [id : Rules, key : OrderKeys]]
      /\ \A i \in 1 .. Len(arranged) : value[i].id = arranged[i] /\ value[i].key = links[arranged[i]]
  BY <1>1, <1>2 DEF RowsOf
<1>. DEFINE n == Len(arranged)
            R == [id : Rules, key : OrderKeys]
<1>4. value \in Seq(R) /\ DOMAIN value = 1 .. n /\ Len(value) = n
  <2>1. n \in Nat /\ value \in [1 .. n -> R]
    BY <1>2, <1>3
  <2>. HIDE DEF n, R
  <2>. QED
    BY <2>1
<1>5. Ids(value) = arranged
  <2>1. Ids(value) = [i \in 1 .. Len(arranged) |-> arranged[i]]
    BY <1>3, <1>4 DEF Ids
  <2>. QED
    BY <1>2, <2>1, LenProperties
<1>. QED
  BY <1>1, <1>2, <1>3, <1>4, <1>5

(* A change whose key fits leaves a list with one write under way.             *)
LEMMA Changed ==
  ASSUME RulesInv, NEW next, NEW id \in Rules, NEW key \in OrderKeys \cup {NoKey},
         Change(next, TRUE, id, key), ~spoiled',
         InOrder(Ids(next), [links EXCEPT ![id] = key])
  PROVE  RulesInv'
<1>1. /\ ~spoiled /\ RulesRest /\ arranged' = Ids(next) /\ links' = links /\ unread' = unread
      /\ waiting' = Append(waiting, [id |-> id, key |-> key, snapshot |-> value])
  BY DEF Change
<1>2. /\ links \in [Rules -> OrderKeys \cup {NoKey}] /\ unread = FALSE /\ waiting = <<>>
      /\ InOrder(arranged, links) /\ Ids(value) = arranged
  BY <1>1, ListAtRest
<1>3. value = RowsOf(arranged, links)
  BY <1>1 DEF RulesInv, RulesRest, Stored
<1>4. waiting' = <<[id |-> id, key |-> key, snapshot |-> value]>>
  BY <1>1, <1>2
<1>5. waiting' = <<waiting'[1]>> /\ waiting'[1] = [id |-> id, key |-> key, snapshot |-> value]
  BY <1>4
<1>6. waiting'[1].id = id /\ waiting'[1].key = key /\ waiting'[1].snapshot = value
  BY <1>5
<1>7. ~unread' /\ InOrder(arranged', [links' EXCEPT ![id] = key])
      /\ InOrder(Ids(value), links') /\ value = RowsOf(Ids(value), links')
  BY <1>1, <1>2, <1>3
<1>8. Writing(waiting[1])'
  <2>1. (waiting[1])' = waiting'[1]
    OBVIOUS
  <2>. QED
    BY <1>6, <1>7, <2>1 DEF Writing
<1>9. links' \in [Rules -> OrderKeys \cup {NoKey}] /\ unread' \in BOOLEAN
  BY <1>1, <1>2
<1>. QED
  BY <1>5, <1>8, <1>9 DEF RulesInv

(* What an arrangement in the order of its keys is: above all, no rule       *)
(* twice.                                                                    *)
LEMMA InOrderFacts ==
  ASSUME NEW s, NEW t, InOrder(s, t)
  PROVE  /\ s \in Seq(Rules) /\ Len(s) \in Nat /\ DOMAIN s = 1 .. Len(s)
         /\ \A i \in 1 .. Len(s) : s[i] \in Rules /\ t[s[i]] \in OrderKeys
         /\ \A i, j \in 1 .. Len(s) : i < j => KeyBefore(t[s[i]], t[s[j]])
         /\ \A i, j \in 1 .. Len(s) : s[i] = s[j] => i = j
         /\ \A r \in Rules : t[r] # NoKey => \E i \in 1 .. Len(s) : s[i] = r
<1>1. /\ s \in Seq(Rules) /\ Len(s) \in Nat /\ DOMAIN s = 1 .. Len(s)
      /\ \A i \in 1 .. Len(s) : s[i] \in Rules /\ t[s[i]] \in OrderKeys
  BY LenProperties, ElementOfSeq DEF InOrder
<1>2. ASSUME NEW i \in 1 .. Len(s), NEW j \in 1 .. Len(s), s[i] = s[j] PROVE i = j
  <2>1. ~KeyBefore(t[s[i]], t[s[i]])
    BY <1>1, KeysCompare
  <2>2. ~(i < j) /\ ~(j < i)
    BY <1>2, <2>1 DEF InOrder
  <2>. QED
    BY <1>1, <2>2
<1>. QED
  BY <1>1, <1>2 DEF InOrder

(* In the arrangement s and the table t all is well but for the j-th rule, and *)
(* its key was generated for its place among the others.                       *)
PlacedAt(s, t, j, keys) ==
    /\ s \in Seq(Rules) /\ j \in 1 .. Len(s)
    /\ DOMAIN keys = 1 .. Len(s) /\ Len(keys) = Len(s)
    /\ \A i \in 1 .. Len(s) : i # j => keys[i] = t[s[i]] /\ keys[i] \in OrderKeys
    /\ \A i, k \in 1 .. Len(s) : i < k /\ i # j /\ k # j => KeyBefore(keys[i], keys[k])
    /\ CanPlace(keys, j) /\ t[s[j]] = generateKeyBetween(keys, j)
    /\ \A r \in Rules : t[r] # NoKey => \E i \in 1 .. Len(s) : s[i] = r

(* One rule with a key generated for its place, and the list is in order     *)
(* again.                                                                    *)
LEMMA Placed ==
  ASSUME NEW s, NEW t, NEW j, NEW keys, PlacedAt(s, t, j, keys)
  PROVE  InOrder(s, t)
<1>. DEFINE n == Len(s)
            key == generateKeyBetween(keys, j)
            full == [i \in 1 .. n |-> IF i = j THEN key ELSE keys[i]]
<1>0. /\ s \in Seq(Rules) /\ j \in 1 .. n /\ DOMAIN keys = 1 .. n /\ Len(keys) = n
      /\ \A i \in 1 .. n : i # j => keys[i] = t[s[i]] /\ keys[i] \in OrderKeys
      /\ \A i, k \in 1 .. n : i < k /\ i # j /\ k # j => KeyBefore(keys[i], keys[k])
      /\ CanPlace(keys, j) /\ t[s[j]] = key
      /\ \A r \in Rules : t[r] # NoKey => \E i \in 1 .. n : s[i] = r
  BY DEF PlacedAt
<1>1. n \in Nat \ {0} /\ j \in 1 .. n
  BY <1>0, LenProperties
<1>2. /\ key \in OrderKeys
      /\ j > 1 => KeyBefore(keys[j - 1], key)
      /\ j < n => KeyBefore(key, keys[j + 1])
  BY <1>0, <1>1, GeneratedKeyFits
<1>3. \A i \in 1 .. n : full[i] = t[s[i]] /\ full[i] \in OrderKeys
  BY <1>0, <1>2
<1>. HIDE DEF key
<1>4. ASSUME NEW i \in 1 .. n, NEW k \in 1 .. n, i < k PROVE KeyBefore(full[i], full[k])
  <2>1. CASE i # j /\ k # j
    BY <1>0, <1>4, <2>1
  <2>2. CASE k = j
    <3>1. j - 1 \in 1 .. n /\ j - 1 # j /\ i # j /\ KeyBefore(keys[j - 1], key) /\ full[j] = key
      BY <1>1, <1>2, <1>4, <2>2
    <3>2. CASE i = j - 1
      BY <2>2, <3>1, <3>2
    <3>3. CASE i < j - 1
      <4>1. KeyBefore(keys[i], keys[j - 1])
        BY <1>0, <3>1, <3>3
      <4>2. keys[i] \in OrderKeys /\ keys[j - 1] \in OrderKeys
        BY <1>0, <3>1
      <4>3. KeyBefore(keys[i], key)
        BY <1>2, <3>1, <4>1, <4>2, KeyTrans
      <4>. QED
        BY <2>2, <3>1, <4>3
    <3>. QED
      BY <1>4, <2>2, <3>1, <3>2, <3>3
  <2>3. CASE i = j
    <3>1. j + 1 \in 1 .. n /\ j + 1 # j /\ k # j /\ KeyBefore(key, keys[j + 1]) /\ full[j] = key
      BY <1>1, <1>2, <1>4, <2>3
    <3>2. CASE k = j + 1
      BY <2>3, <3>1, <3>2
    <3>3. CASE j + 1 < k
      <4>1. KeyBefore(keys[j + 1], keys[k])
        BY <1>0, <3>1, <3>3
      <4>2. keys[k] \in OrderKeys /\ keys[j + 1] \in OrderKeys
        BY <1>0, <3>1
      <4>3. KeyBefore(key, keys[k])
        BY <1>2, <3>1, <4>1, <4>2, KeyTrans
      <4>. QED
        BY <2>3, <3>1, <4>3
    <3>. QED
      BY <1>1, <1>4, <2>3, <3>1, <3>2, <3>3
  <2>. QED
    BY <2>1, <2>2, <2>3
<1>. HIDE DEF full
<1>5. \A i, k \in 1 .. n : i < k => KeyBefore(t[s[i]], t[s[k]])
  BY <1>3, <1>4
<1>. QED
  BY <1>0, <1>3, <1>5 DEF InOrder

(* Adding a rule: the key is generated before the first one.                 *)
LEMMA PutKeeps ==
  ASSUME RulesInv, NEW r \in Rules, PutRule(r), ~spoiled'
  PROVE  RulesInv'
<1>. DEFINE row == [id |-> r, key |-> NoKey]
            n == Len(arranged)
            R == [id : Rules, key : OrderKeys \cup {NoKey}]
            place == <<row>> \o value
            keys == Keys(place)
            key == generateKeyBetween(keys, 1)
            next == [place EXCEPT ![1].key = key]
            s == Ids(next)
            t == [links EXCEPT ![r] = key]
<1>1. /\ \A i \in DOMAIN value : value[i].id # r
      /\ CanPlace(keys, 1) /\ Change(next, TRUE, r, key)
  BY DEF PutRule
<1>2. ~spoiled /\ RulesRest
  BY <1>1 DEF Change
<1>3. /\ links \in [Rules -> OrderKeys \cup {NoKey}] /\ InOrder(arranged, links) /\ n \in Nat
      /\ value \in Seq([id : Rules, key : OrderKeys]) /\ DOMAIN value = 1 .. n /\ Len(value) = n
      /\ \A i \in 1 .. n : /\ value[i].id = arranged[i] /\ value[i].key = links[arranged[i]]
                           /\ arranged[i] \in Rules /\ links[arranged[i]] \in OrderKeys
  BY <1>2, ListAtRest
<1>4. \A i, j \in 1 .. n : i < j => KeyBefore(links[arranged[i]], links[arranged[j]])
  BY <1>3, InOrderFacts
<1>5. \A q \in Rules : links[q] # NoKey => \E i \in 1 .. n : arranged[i] = q
  BY <1>3, InOrderFacts
<1>6. /\ place \in Seq(R) /\ Len(place) = n + 1 /\ DOMAIN place = 1 .. n + 1
      /\ place[1] = row /\ \A i \in 1 .. n : place[1 + i] = value[i]
  <2>. DEFINE o == <<row>>
  <2>1. row \in R /\ [id : Rules, key : OrderKeys] \subseteq R
    OBVIOUS
  <2>2. value \in Seq(R) /\ o \in Seq(R) /\ Len(o) = 1 /\ o[1] = row
    <3>. HIDE DEF row, R
    <3>1. value \in Seq(R)
      BY <1>3, <2>1, SeqMonotonic
    <3>. QED
      BY <2>1, <3>1
  <2>. HIDE DEF o, row, R
  <2>3. /\ o \o value \in Seq(R) /\ Len(o \o value) = Len(o) + Len(value)
        /\ (\A i \in 1 .. Len(o) : (o \o value)[i] = o[i])
        /\ \A i \in 1 .. Len(value) : (o \o value)[Len(o) + i] = value[i]
    <3>1. o \in Seq(R) /\ value \in Seq(R)
      BY <2>2
    <3>. QED
      BY <3>1, Joined
  <2>4. place = o \o value
    BY DEF o
  <2>. HIDE DEF place
  <2>5. place \in Seq(R) /\ Len(place) = n + 1
    BY <1>3, <2>2, <2>3, <2>4
  <2>6. 1 \in 1 .. Len(o)
    BY <2>2
  <2>. QED
    BY <1>3, <2>2, <2>3, <2>4, <2>5, <2>6, LenProperties
<1>. HIDE DEF place
<1>7. keys = [i \in 1 .. n + 1 |-> place[i].key]
  BY <1>6 DEF Keys
<1>8. /\ DOMAIN keys = 1 .. n + 1 /\ Len(keys) = n + 1
      /\ \A i \in 1 .. n : keys[1 + i] = links[arranged[i]]
  <2>1. \A i \in 1 .. n : 1 + i \in 1 .. n + 1
    BY <1>3
  <2>. QED
    BY <1>3, <1>6, <1>7, <2>1
<1>. HIDE DEF keys
<1>9. n + 1 \in Nat \ {0} /\ 1 \in 1 .. n + 1 /\ \A i \in 1 .. n + 1 : i # 1 => i - 1 \in 1 .. n /\ 1 + (i - 1) = i
  BY <1>3
<1>10. \A i \in 1 .. n + 1 : i # 1 => keys[i] = links[arranged[i - 1]] /\ keys[i] \in OrderKeys
  BY <1>3, <1>8, <1>9
<1>11. key \in OrderKeys
  BY <1>1, <1>8, <1>9, <1>10, GeneratedKeyFits
<1>. HIDE DEF key
<1>12. /\ next \in [1 .. n + 1 -> [id : Rules, key : OrderKeys \cup {NoKey}]]
       /\ next[1].id = r /\ \A i \in 1 .. n : next[1 + i] = value[i]
  <2>1. place \in [1 .. n + 1 -> R]
    BY <1>6, LenProperties
  <2>2. \A i \in 1 .. n : 1 + i # 1 /\ 1 + i \in 1 .. n + 1
    BY <1>3
  <2>3. next[1] = [row EXCEPT !.key = key] /\ \A i \in 1 .. n : next[1 + i] = value[i]
    BY <1>6, <1>9, <2>1, <2>2
  <2>. QED
    BY <1>6, <1>9, <1>11, <2>1, <2>3
<1>. HIDE DEF next
<1>13. s = [i \in 1 .. n + 1 |-> next[i].id]
  BY <1>12 DEF Ids
<1>14. s \in Seq(Rules) /\ Len(s) = n + 1 /\ s[1] = r /\ \A i \in 1 .. n : s[1 + i] = arranged[i]
  <2>1. \A i \in 1 .. n + 1 : next[i].id \in Rules
    BY <1>12
  <2>2. \A i \in 1 .. n : 1 + i \in 1 .. n + 1
    BY <1>3
  <2>3. s \in Seq(Rules) /\ Len(s) = n + 1
    BY <1>9, <1>13, <2>1
  <2>. QED
    BY <1>3, <1>9, <1>12, <1>13, <2>2, <2>3
<1>. HIDE DEF s
<1>15. t[r] = key /\ \A i \in 1 .. n : arranged[i] # r /\ t[arranged[i]] = links[arranged[i]]
  BY <1>1, <1>3
<1>16. InOrder(s, t)
  <2>1. \A i \in 1 .. Len(s) : i # 1 => keys[i] = t[s[i]] /\ keys[i] \in OrderKeys
    BY <1>9, <1>10, <1>14, <1>15
  <2>2. \A i, k \in 1 .. Len(s) : i < k /\ i # 1 /\ k # 1 => KeyBefore(keys[i], keys[k])
    <3>1. \A i, k \in 1 .. n + 1 : i < k /\ i # 1 /\ k # 1 => i - 1 < k - 1
      BY <1>3
    <3>. QED
      BY <1>4, <1>9, <1>10, <1>14, <3>1
  <2>3. \A q \in Rules : t[q] # NoKey => \E i \in 1 .. Len(s) : s[i] = q
    <3>1. SUFFICES ASSUME NEW q \in Rules, t[q] # NoKey PROVE \E i \in 1 .. Len(s) : s[i] = q
      OBVIOUS
    <3>2. CASE q = r
      BY <1>9, <1>14, <3>2
    <3>3. CASE q # r
      <4>1. PICK i \in 1 .. n : arranged[i] = q
        BY <1>3, <1>5, <3>1, <3>3
      <4>2. 1 + i \in 1 .. Len(s) /\ s[1 + i] = q
        BY <1>3, <1>14, <4>1
      <4>. QED
        BY <4>2
    <3>. QED
      BY <3>2, <3>3
  <2>4. 1 \in 1 .. Len(s) /\ DOMAIN keys = 1 .. Len(s) /\ Len(keys) = Len(s)
    BY <1>8, <1>9, <1>14
  <2>5. t[s[1]] = generateKeyBetween(keys, 1)
    BY <1>14, <1>15 DEF key
  <2>6. s \in Seq(Rules) /\ CanPlace(keys, 1)
    BY <1>1, <1>14
  <2>. HIDE DEF t
  <2>7. PlacedAt(s, t, 1, keys)
    BY <2>1, <2>2, <2>3, <2>4, <2>5, <2>6 DEF PlacedAt
  <2>. QED
    BY <2>7, Placed
<1>. QED
  BY <1>1, <1>11, <1>16, Changed DEF s

(* Editing a rule: its key is written again.                                 *)
LEMMA EditKeeps ==
  ASSUME RulesInv, NEW i \in DOMAIN value, EditRule(i), ~spoiled'
  PROVE  RulesInv'
<1>1. Change(value, TRUE, value[i].id, value[i].key)
  BY DEF EditRule
<1>2. ~spoiled /\ RulesRest
  BY <1>1 DEF Change
<1>3. /\ links \in [Rules -> OrderKeys \cup {NoKey}] /\ InOrder(arranged, links)
      /\ Ids(value) = arranged /\ value[i].id \in Rules
      /\ value[i].key = links[value[i].id] /\ value[i].key \in OrderKeys
  BY <1>2, ListAtRest
<1>4. [links EXCEPT ![value[i].id] = value[i].key] = links
  BY <1>3
<1>. QED
  BY <1>1, <1>3, <1>4, Changed

(* Removing a rule: the others keep their order.                             *)
LEMMA DeleteKeeps ==
  ASSUME RulesInv, NEW i \in DOMAIN value, delAll(i), ~spoiled'
  PROVE  RulesInv'
<1>. DEFINE n == Len(arranged)
            R == [id : Rules, key : OrderKeys]
            next == RemoveAt(value, i)
            s == Ids(next)
            r == value[i].id
            t == [links EXCEPT ![r] = NoKey]
            Old(k) == IF k < i THEN k ELSE k + 1
<1>1. Change(next, TRUE, r, NoKey)
  BY DEF delAll
<1>2. ~spoiled /\ RulesRest
  BY <1>1 DEF Change
<1>3. /\ links \in [Rules -> OrderKeys \cup {NoKey}] /\ InOrder(arranged, links) /\ n \in Nat
      /\ value \in Seq(R) /\ Len(value) = n /\ i \in 1 .. n
      /\ \A k \in 1 .. n : value[k].id = arranged[k] /\ arranged[k] \in Rules
  BY <1>2, ListAtRest
<1>4. /\ \A k \in 1 .. n : links[arranged[k]] \in OrderKeys
      /\ \A k, m \in 1 .. n : k < m => KeyBefore(links[arranged[k]], links[arranged[m]])
      /\ \A k, m \in 1 .. n : arranged[k] = arranged[m] => k = m
      /\ \A q \in Rules : links[q] # NoKey => \E k \in 1 .. n : arranged[k] = q
  <2>1. InOrder(arranged, links)
    BY <1>3
  <2>. QED
    BY <2>1, InOrderFacts
<1>5. /\ next \in Seq(R) /\ Len(next) = n - 1
      /\ \A k \in 1 .. n - 1 : next[k] = IF k < i THEN value[k] ELSE value[k + 1]
  <2>. HIDE DEF R
  <2>1. value \in Seq(R) /\ i \in 1 .. Len(value)
    BY <1>3
  <2>2. /\ next \in Seq(R) /\ Len(next) = Len(value) - 1
        /\ \A k \in 1 .. Len(value) - 1 : next[k] = IF k < i THEN value[k] ELSE value[k + 1]
    BY <2>1, RemoveAtFacts
  <2>. HIDE DEF next
  <2>. QED
    BY <1>3, <2>2
<1>6. \A k \in 1 .. n - 1 : Old(k) \in 1 .. n /\ Old(k) # i
  BY <1>3
<1>7. \A k, m \in 1 .. n - 1 : k < m => Old(k) < Old(m)
  BY <1>3
<1>8. \A k \in 1 .. n - 1 : next[k] = value[Old(k)]
  BY <1>5
<1>. HIDE DEF next, Old
<1>9. s = [k \in 1 .. n - 1 |-> next[k].id]
  BY <1>5, LenProperties DEF Ids
<1>10. \A k \in 1 .. n - 1 : s[k] = arranged[Old(k)]
  BY <1>3, <1>6, <1>8, <1>9
<1>11. s \in Seq(Rules) /\ Len(s) = n - 1
  <2>1. \A k \in 1 .. n - 1 : next[k].id \in Rules
    BY <1>3, <1>6, <1>8
  <2>2. n - 1 \in Nat
    BY <1>3
  <2>. QED
    BY <1>9, <2>1, <2>2
<1>. HIDE DEF s
<1>12. r = arranged[i] /\ r \in Rules /\ t[r] = NoKey
  BY <1>3
<1>13. \A k \in 1 .. n - 1 : t[s[k]] = links[arranged[Old(k)]]
  BY <1>3, <1>4, <1>6, <1>10, <1>12
<1>14. \A q \in Rules : t[q] # NoKey => \E k \in 1 .. n - 1 : s[k] = q
  <2>1. SUFFICES ASSUME NEW q \in Rules, t[q] # NoKey PROVE \E k \in 1 .. n - 1 : s[k] = q
    OBVIOUS
  <2>2. q # r /\ links[q] # NoKey
    BY <1>3, <1>12, <2>1
  <2>3. PICK m \in 1 .. n : arranged[m] = q
    BY <1>4, <2>2
  <2>4. m # i
    BY <1>12, <2>2, <2>3
  <2>5. \E k \in 1 .. n - 1 : Old(k) = m
    <3>1. CASE m < i
      <4>1. m \in 1 .. n - 1 /\ Old(m) = m
        BY <1>3, <3>1 DEF Old
      <4>. QED
        BY <4>1
    <3>2. CASE m > i
      <4>1. m - 1 \in 1 .. n - 1 /\ Old(m - 1) = m
        BY <1>3, <3>2 DEF Old
      <4>. QED
        BY <4>1
    <3>. QED
      BY <1>3, <2>4, <3>1, <3>2
  <2>. QED
    BY <1>10, <2>3, <2>5
<1>. HIDE DEF t
<1>15. InOrder(s, t)
  <2>1. \A k \in 1 .. Len(s) : t[s[k]] \in OrderKeys
    BY <1>4, <1>6, <1>11, <1>13
  <2>2. \A k, m \in 1 .. Len(s) : k < m => KeyBefore(t[s[k]], t[s[m]])
    <3>1. SUFFICES ASSUME NEW k \in 1 .. n - 1, NEW m \in 1 .. n - 1, k < m
                   PROVE  KeyBefore(t[s[k]], t[s[m]])
      BY <1>11
    <3>2. Old(k) \in 1 .. n /\ Old(m) \in 1 .. n /\ Old(k) < Old(m)
      BY <1>6, <1>7, <3>1
    <3>3. KeyBefore(links[arranged[Old(k)]], links[arranged[Old(m)]])
      BY <1>4, <3>2
    <3>. QED
      BY <1>13, <3>3
  <2>. QED
    BY <1>11, <1>14, <2>1, <2>2 DEF InOrder
<1>. QED
  BY <1>1, <1>12, <1>15, Changed DEF s, t

(* Moving a rule: the neighbours are those of the new place, in the list     *)
(* from which the rule has been taken.                                       *)
LEMMA OrderKeeps ==
  ASSUME RulesInv, NEW i \in DOMAIN value, NEW j \in DOMAIN value, order(i, j), ~spoiled'
  PROVE  RulesInv'
<1>. DEFINE n == Len(arranged)
            R == [id : Rules, key : OrderKeys]
            rest == RemoveAt(value, i)
            next == InsertAt(rest, j, value[i])
            keys == Keys(next)
            key == generateKeyBetween(keys, j)
            s == Ids(next)
            r == value[i].id
            t == [links EXCEPT ![r] = key]
            Rest(k) == IF k < j THEN k ELSE k - 1
            Old(k) == IF k = j THEN i ELSE IF Rest(k) < i THEN Rest(k) ELSE Rest(k) + 1
<1>1. CanPlace(keys, j) /\ Change(next, TRUE, r, key)
  BY DEF order, Change
<1>2. ~spoiled /\ RulesRest
  BY <1>1 DEF Change
<1>3. /\ links \in [Rules -> OrderKeys \cup {NoKey}] /\ InOrder(arranged, links) /\ n \in Nat
      /\ value \in Seq(R) /\ Len(value) = n /\ i \in 1 .. n /\ j \in 1 .. n
      /\ \A k \in 1 .. n : /\ value[k].id = arranged[k] /\ value[k].key = links[arranged[k]]
                           /\ arranged[k] \in Rules
  BY <1>2, ListAtRest
<1>4. /\ \A k \in 1 .. n : links[arranged[k]] \in OrderKeys
      /\ \A k, m \in 1 .. n : k < m => KeyBefore(links[arranged[k]], links[arranged[m]])
      /\ \A k, m \in 1 .. n : arranged[k] = arranged[m] => k = m
      /\ \A q \in Rules : links[q] # NoKey => \E k \in 1 .. n : arranged[k] = q
  <2>1. InOrder(arranged, links)
    BY <1>3
  <2>. QED
    BY <2>1, InOrderFacts
<1>5. /\ rest \in Seq(R) /\ Len(rest) = n - 1
      /\ \A k \in 1 .. n - 1 : rest[k] = IF k < i THEN value[k] ELSE value[k + 1]
  <2>. HIDE DEF R
  <2>1. value \in Seq(R) /\ i \in 1 .. Len(value)
    BY <1>3
  <2>2. /\ rest \in Seq(R) /\ Len(rest) = Len(value) - 1
        /\ \A k \in 1 .. Len(value) - 1 : rest[k] = IF k < i THEN value[k] ELSE value[k + 1]
    BY <2>1, RemoveAtFacts
  <2>. HIDE DEF rest
  <2>. QED
    BY <1>3, <2>2
<1>. HIDE DEF rest
<1>6. /\ next \in Seq(R) /\ Len(next) = n
      /\ \A k \in 1 .. n : next[k] = IF k < j THEN rest[k] ELSE IF k = j THEN value[i] ELSE rest[k - 1]
  <2>. HIDE DEF R
  <2>. DEFINE e == value[i]
  <2>1. rest \in Seq(R) /\ j \in Int /\ 1 <= j /\ j <= Len(rest) + 1 /\ e \in R
    BY <1>3, <1>5, ElementOfSeq
  <2>. HIDE DEF e
  <2>2. Spliced(InsertAt(rest, j, e), R, rest, j, e)
    BY <2>1, InsertAtFacts
  <2>3. Len(rest) + 1 = n
    BY <1>3, <1>5
  <2>4. /\ next \in Seq(R) /\ Len(next) = Len(rest) + 1
        /\ \A k \in 1 .. Len(rest) + 1 :
             next[k] = IF k < j THEN rest[k] ELSE IF k = j THEN value[i] ELSE rest[k - 1]
    BY <2>2 DEF Spliced, e
  <2>. HIDE DEF next
  <2>. QED
    BY <2>3, <2>4
<1>. HIDE DEF next
<1>7. \A k \in 1 .. n : Old(k) \in 1 .. n /\ (k # j => Old(k) # i)
  BY <1>3
<1>8. \A k, m \in 1 .. n : k < m /\ k # j /\ m # j => Old(k) < Old(m)
  BY <1>3
<1>9. \A k \in 1 .. n : next[k] = value[Old(k)]
  <2>1. SUFFICES ASSUME NEW k \in 1 .. n, k # j PROVE next[k] = value[Old(k)]
    BY <1>3, <1>6
  <2>2. Rest(k) \in 1 .. n - 1 /\ next[k] = rest[Rest(k)]
    BY <1>3, <1>6, <2>1
  <2>3. rest[Rest(k)] = IF Rest(k) < i THEN value[Rest(k)] ELSE value[Rest(k) + 1]
    BY <1>5, <2>2
  <2>. QED
    BY <2>1, <2>2, <2>3
<1>10. \A m \in 1 .. n : \E k \in 1 .. n : Old(k) = m
  <2>1. SUFFICES ASSUME NEW m \in 1 .. n, m # i PROVE \E k \in 1 .. n : Old(k) = m
    BY <1>3
  <2>. DEFINE p == IF m < i THEN m ELSE m - 1
              k == IF p < j THEN p ELSE p + 1
  <2>2. p \in 1 .. n - 1 /\ k \in 1 .. n /\ k # j /\ Rest(k) = p
    BY <1>3, <2>1
  <2>3. Old(k) = m
    BY <1>3, <2>1, <2>2
  <2>. QED
    BY <2>2, <2>3
<1>. HIDE DEF Old
<1>11. s = [k \in 1 .. n |-> next[k].id] /\ keys = [k \in 1 .. n |-> next[k].key]
  BY <1>6, LenProperties DEF Ids, Keys
<1>. HIDE DEF s, keys
<1>12. \A k \in 1 .. n : s[k] = arranged[Old(k)] /\ keys[k] = links[arranged[Old(k)]]
  <2>1. \A k \in 1 .. n : s[k] = value[Old(k)].id /\ keys[k] = value[Old(k)].key
    BY <1>9, <1>11
  <2>. QED
    BY <1>3, <1>7, <2>1
<1>13. s \in Seq(Rules) /\ Len(s) = n /\ DOMAIN keys = 1 .. n /\ Len(keys) = n
  <2>1. \A k \in 1 .. n : next[k].id \in Rules
    <3>1. \A k \in 1 .. n : arranged[k] = value[k].id /\ arranged[k] \in Rules
      BY <1>3
    <3>2. \A k \in 1 .. n : Old(k) \in 1 .. n
      BY <1>7
    <3>. HIDE DEF n
    <3>. QED
      BY <1>9, <3>1, <3>2
  <2>2. n \in Nat
    BY <1>3
  <2>. HIDE DEF n
  <2>. QED
    BY <1>11, <2>1, <2>2
<1>14. \A k \in 1 .. n : keys[k] \in OrderKeys
  BY <1>4, <1>7, <1>12
<1>15. key \in OrderKeys
  <2>1. n \in Nat \ {0}
    BY <1>3
  <2>. QED
    BY <1>1, <1>3, <1>13, <1>14, <2>1, GeneratedKeyFits
<1>16. r = arranged[i] /\ r \in Rules /\ t[r] = key /\ s[j] = r
  <2>1. Old(j) = i
    BY DEF Old
  <2>. QED
    BY <1>3, <1>12, <2>1
<1>17. \A k \in 1 .. n : k # j => t[s[k]] = keys[k]
  BY <1>3, <1>4, <1>7, <1>12, <1>16
<1>18. \A q \in Rules : t[q] # NoKey => \E k \in 1 .. n : s[k] = q
  <2>1. SUFFICES ASSUME NEW q \in Rules, t[q] # NoKey PROVE \E k \in 1 .. n : s[k] = q
    OBVIOUS
  <2>2. \E m \in 1 .. n : arranged[m] = q
    <3>1. CASE q = r
      BY <1>3, <1>16, <3>1
    <3>2. CASE q # r
      <4>1. links[q] # NoKey
        BY <1>3, <2>1, <3>2
      <4>. QED
        BY <1>4, <4>1
    <3>. QED
      BY <3>1, <3>2
  <2>3. PICK m \in 1 .. n : arranged[m] = q
    BY <2>2
  <2>4. PICK k \in 1 .. n : Old(k) = m
    BY <1>10
  <2>5. s[k] = q
    BY <1>12, <2>3, <2>4
  <2>. QED
    BY <2>5
<1>19. t[s[j]] = generateKeyBetween(keys, j)
  BY <1>16
<1>. HIDE DEF key, t
<1>20. InOrder(s, t)
  <2>1. \A k \in 1 .. Len(s) : k # j => keys[k] = t[s[k]] /\ keys[k] \in OrderKeys
    BY <1>13, <1>14, <1>17
  <2>2. \A k, m \in 1 .. Len(s) : k < m /\ k # j /\ m # j => KeyBefore(keys[k], keys[m])
    <3>1. SUFFICES ASSUME NEW k \in 1 .. Len(s), NEW m \in 1 .. Len(s), k < m, k # j, m # j
                   PROVE  KeyBefore(keys[k], keys[m])
      OBVIOUS
    <3>2. k \in 1 .. n /\ m \in 1 .. n
      BY <1>13
    <3>3. Old(k) \in 1 .. n /\ Old(m) \in 1 .. n /\ Old(k) < Old(m)
      BY <1>7, <1>8, <3>1, <3>2
    <3>4. keys[k] = links[arranged[Old(k)]] /\ keys[m] = links[arranged[Old(m)]]
      BY <1>12, <3>2
    <3>. HIDE DEF n
    <3>. QED
      BY <1>4, <3>3, <3>4
  <2>3. \A q \in Rules : t[q] # NoKey => \E k \in 1 .. Len(s) : s[k] = q
    BY <1>13, <1>18
  <2>4. j \in 1 .. Len(s) /\ DOMAIN keys = 1 .. Len(s) /\ Len(keys) = Len(s)
    BY <1>3, <1>13
  <2>5. s \in Seq(Rules) /\ CanPlace(keys, j)
    BY <1>1, <1>13
  <2>7. PlacedAt(s, t, j, keys)
    BY <1>19, <2>1, <2>2, <2>3, <2>4, <2>5 DEF PlacedAt
  <2>. QED
    BY <2>7, Placed
<1>21. key \in OrderKeys \cup {NoKey} /\ InOrder(Ids(next), [links EXCEPT ![r] = key])
  BY <1>15, <1>20 DEF s, t
<1>. QED
  BY <1>1, <1>16, <1>21, Changed

(* The write reaches the table, which the list does not show yet.            *)
LEMMA WriteKeeps ==
  ASSUME RulesInv, WriteLink, ~spoiled'
  PROVE  RulesInv'
<1>1. /\ ~spoiled /\ waiting # <<>> /\ waiting' = Tail(waiting) /\ unread' = TRUE
      /\ links' = [links EXCEPT ![Head(waiting).id] = Head(waiting).key] /\ arranged' = arranged
  BY DEF WriteLink
<1>2. /\ links \in [Rules -> OrderKeys \cup {NoKey}]
      /\ waiting = <<waiting[1]>> /\ Writing(waiting[1])
  BY <1>1 DEF RulesInv, Stored
<1>. DEFINE w == waiting[1]
<1>3. Head(waiting) = w /\ waiting' = <<>>
  <2>1. waiting = <<w>>
    BY <1>2
  <2>. HIDE DEF w
  <2>. QED
    BY <1>1, <2>1
<1>4. w.id \in Rules /\ w.key \in OrderKeys \cup {NoKey} /\ InOrder(arranged, [links EXCEPT ![w.id] = w.key])
  BY <1>2 DEF Writing
<1>. HIDE DEF w
<1>5. links' = [links EXCEPT ![w.id] = w.key]
  BY <1>1, <1>3 DEF w
<1>6. links' \in [Rules -> OrderKeys \cup {NoKey}] /\ InOrder(arranged', links')
  BY <1>1, <1>2, <1>4, <1>5
<1>. QED
  BY <1>1, <1>3, <1>6 DEF RulesInv, Stored

(* The write fails, and the list goes back to the snapshot.                  *)
LEMMA FailKeeps ==
  ASSUME RulesInv, LinkFails, ~spoiled'
  PROVE  RulesInv'
<1>1. /\ ~spoiled /\ waiting # <<>> /\ waiting' = Tail(waiting) /\ unread' = unread
      /\ links' = links /\ value' = Head(waiting).snapshot /\ arranged' = Ids(value')
  BY DEF LinkFails
<1>2. /\ links \in [Rules -> OrderKeys \cup {NoKey}] /\ unread \in BOOLEAN
      /\ waiting = <<waiting[1]>> /\ Writing(waiting[1])
  BY <1>1 DEF RulesInv, Stored
<1>. DEFINE w == waiting[1]
<1>3. Head(waiting) = w /\ waiting' = <<>>
  <2>1. waiting = <<w>>
    BY <1>2
  <2>. HIDE DEF w
  <2>. QED
    BY <1>1, <2>1
<1>4. value' = waiting[1].snapshot /\ InOrder(arranged', links') /\ value' = RowsOf(arranged', links')
  BY <1>1, <1>2, <1>3 DEF Writing
<1>. QED
  BY <1>1, <1>2, <1>3, <1>4 DEF RulesInv, Stored

(* The table is read back, sorted.                                           *)
LEMMA ReadKeeps ==
  ASSUME RulesInv, ReadLinks, ~spoiled'
  PROVE  RulesInv'
<1>. DEFINE rows == {[id |-> r, key |-> links[r]] : r \in {r \in Rules : links[r] # NoKey}}
<1>1. /\ ~spoiled /\ unread /\ unread' = FALSE /\ links' = links /\ waiting' = waiting
      /\ arranged' = arranged /\ value' \in SetToSeqs(rows)
      /\ \A i, j \in DOMAIN value' : i < j => ~KeyBefore(value'[j].key, value'[i].key)
  BY DEF ReadLinks
<1>2. links \in [Rules -> OrderKeys \cup {NoKey}] /\ waiting = <<>> /\ InOrder(arranged, links)
  BY <1>1 DEF RulesInv, Stored, Writing
<1>3. value' = RowsOf(arranged, links)
  BY <1>1, <1>2, ReadInOrder
<1>. QED
  BY <1>1, <1>2, <1>3 DEF RulesInv, Stored

(* The invariant: at rest the list shows the table, in the order of the      *)
(* keys; with a write under way the list to come is in order, and so is the  *)
(* one to return to.                                                         *)
LEMMA RulesInductive == RulesSpec => []RulesInv
<1>1. RulesInit => RulesInv
  <2>1. SUFFICES ASSUME RulesInit PROVE RulesInv
    OBVIOUS
  <2>2. /\ links = [r \in Rules |-> NoKey] /\ waiting = <<>> /\ unread = FALSE /\ arranged = <<>>
        /\ value = <<>>
    BY <2>1 DEF RulesInit
  <2>3. InOrder(arranged, links)
    BY <2>2 DEF InOrder
  <2>4. RowsOf(arranged, links) = <<>>
    BY <2>2 DEF RowsOf
  <2>. QED
    BY <2>2, <2>3, <2>4 DEF RulesInv, Stored
<1>2. RulesInv /\ [RulesNext]_ruleVars => RulesInv'
  <2>1. SUFFICES ASSUME RulesInv, [RulesNext]_ruleVars, ~spoiled' PROVE RulesInv'
    BY DEF RulesInv
  <2>2. CASE UNCHANGED ruleVars
    <3>1. /\ value' = value /\ links' = links /\ waiting' = waiting /\ unread' = unread
          /\ arranged' = arranged /\ spoiled' = spoiled
      BY <2>2 DEF ruleVars
    <3>2. Stored' <=> Stored
      BY <3>1 DEF Stored
    <3>3. Writing(waiting[1])' <=> Writing(waiting[1])
      BY <3>1 DEF Writing
    <3>. QED
      BY <2>1, <3>1, <3>2, <3>3 DEF RulesInv
  <2>3. CASE RulesNext
    BY <2>1, <2>3, PutKeeps, OrderKeeps, EditKeeps, DeleteKeeps, WriteKeeps, FailKeeps, ReadKeeps
    DEF RulesNext
  <2>. QED
    BY <2>1, <2>2, <2>3
<1>. QED
  BY <1>1, <1>2, PTL DEF RulesSpec

(* KeysInOrder: however rules were added, moved, edited and removed, one at  *)
(* a time after the list was read back, and whichever of the writes failed,  *)
(* the table has the rules in the order the user gave them, no two with the  *)
(* same key, and no key but the smallest is refused as a neighbour.          *)
THEOREM KeysInOrderAlways == RulesSpec => []KeysInOrder
<1>1. RulesInv => KeysInOrder
  <2>1. SUFFICES ASSUME RulesInv, RulesRest, ~spoiled PROVE KeysInOrder
    BY DEF KeysInOrder
  <2>. DEFINE n == Len(arranged)
              keys == Keys(value)
  <2>2. /\ DOMAIN value = 1 .. n /\ Ids(value) = arranged /\ n \in Nat /\ InOrder(arranged, links)
        /\ \A i \in 1 .. n : /\ value[i].id = arranged[i] /\ value[i].key = links[arranged[i]]
                             /\ links[arranged[i]] \in OrderKeys
    BY <2>1, ListAtRest
  <2>3. keys = [i \in 1 .. n |-> links[arranged[i]]] /\ DOMAIN keys = 1 .. n /\ Len(keys) = n
    BY <2>2 DEF Keys
  <2>4. \A k \in OrderKeys : _validateOrderKey(k) \/ Smallest(k)
    <3>1. SUFFICES ASSUME NEW k \in OrderKeys PROVE _validateOrderKey(k) \/ Smallest(k)
      OBVIOUS
    <3>2. Len(k.int) = IntLength(k.head) /\ k.frac \in Fractions
      BY KeyFacts
    <3>3. k.frac # <<>> => Last(k.frac) # 0
      BY <3>2 DEF Fractions, Last
    <3>. QED
      BY <3>2, <3>3 DEF _validateOrderKey
  <2>5. \A i \in 1 .. n - 1 : KeyBefore(links[arranged[i]], links[arranged[i + 1]])
    <3>1. \A i \in 1 .. n - 1 : i \in 1 .. n /\ i + 1 \in 1 .. n /\ i < i + 1
      BY <2>2
    <3>. QED
      BY <2>2, <3>1, InOrderFacts
  <2>6. \A i \in 1 .. n - 1 : i + 1 \in 1 .. n
    BY <2>2
  <2>. HIDE DEF keys
  <2>. QED
    BY <2>2, <2>3, <2>4, <2>5, <2>6 DEF KeysInOrder, keys
<1>. QED
  BY <1>1, RulesInductive, PTL
===============================================================================
