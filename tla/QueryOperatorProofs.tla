------------------------ MODULE QueryOperatorProofs ------------------------
(***************************************************************************)
(* Proofs about the operators of the local executor, of the statements it  *)
(* is exchanged for and of the rule registry, for any labels, label sets,  *)
(* samples and windows: what the properties of QueryAnswers come down to   *)
(* at one operator.  Plans are trees and their evaluation is recursive, so *)
(* the properties of whole queries stay with TLC.                          *)
(***************************************************************************)
EXTENDS NativeRows, RuleRegistry, TLAPS, FiniteSetTheorems, WellFoundedInduction

-----------------------------------------------------------------------------
(* The windows of subqueries                                                *)

(* A quotient, of any number. *)
LEMMA QuotientOf ==
    ASSUME NEW n \in Int, NEW d \in Nat \ {0}
    PROVE  n \div d \in Int /\ (n \div d) * d <= n /\ n < (n \div d) * d + d
PROOF
  BY SMT

(* Multiplying keeps the order, and a sum is multiplied term by term. *)
LEMMA Scaled ==
    ASSUME NEW a \in Int, NEW b \in Int, NEW d \in Nat \ {0}
    PROVE  /\ a < b <=> a * d < b * d
           /\ a <= b <=> a * d <= b * d
           /\ (a + b) * d = a * d + b * d
           /\ (a - b) * d = a * d - b * d
           /\ a * d \in Int
PROOF
  BY SMT

(* The steps of a range are what is a whole number of steps after its start *)
(* and not after its end.                                                   *)
LEMMA StepsOfRange ==
    ASSUME NEW start \in Int, NEW end \in Int, NEW step \in Nat \ {0}, start <= end
    PROVE  Steps(OverRange(start, end, step)) =
               {start + k * step : k \in {k \in Nat : start + k * step <= end}}
PROOF
  <1> DEFINE q == (end - start) \div step
  <1>1. q \in Int /\ q * step <= end - start /\ end - start < q * step + step
    BY QuotientOf
  <1>2. ASSUME NEW k \in Nat
        PROVE  k \in 0 .. q <=> start + k * step <= end
    <2>1. k * step \in Int /\ q * step \in Int
      BY <1>1, Scaled
    <2>2. k <= q <=> k * step <= q * step
      BY <1>1, Scaled
    <2>3. q + 1 <= k <=> (q + 1) * step <= k * step
      BY <1>1, Scaled
    <2>4. (q + 1) * step = q * step + step
      BY <1>1, Scaled
    <2> HIDE DEF q
    <2> QED
      BY <1>1, <2>1, <2>2, <2>3, <2>4
  <1>3. 0 .. q = {k \in Nat : start + k * step <= end}
    BY <1>1, <1>2
  <1> QED
    BY <1>3 DEF Steps, OverRange

(* What a subquery is asked about: its resolution is a positive number, its *)
(* range none below 0, and it ends at some time.                            *)
IsWindow(plan, params) ==
    /\ Resolution(plan) \in Nat \ {0}
    /\ plan.range \in Nat
    /\ WindowEnd(plan, params) \in Int

(* alignLocalSubqueryStepStart and the loop over the steps: a subquery is   *)
(* evaluated at every multiple of its resolution in a window that is open   *)
(* on the left and closed on the right, and nowhere else.                   *)
THEOREM SubqueryWindow ==
    ASSUME NEW plan, NEW params, IsWindow(plan, params)
    PROVE  SubqueryTimes(plan, params) =
               {t \in Int : /\ WindowEnd(plan, params) - plan.range < t
                            /\ t <= WindowEnd(plan, params)
                            /\ \E k \in Int : t = k * Resolution(plan)}
PROOF
  <1> DEFINE d == Resolution(plan)
             end == WindowEnd(plan, params)
             from == end - plan.range
             q == from \div d
             start == q * d + d
  <1>1. d \in Nat \ {0} /\ end \in Int /\ from \in Int /\ from <= end
    BY DEF IsWindow
  <1> HIDE DEF d, end, from
  <1>2. q \in Int /\ q * d <= from /\ from < q * d + d /\ q * d \in Int
    BY <1>1, QuotientOf, Scaled
  <1> HIDE DEF q
  <1>3. start \in Int
    BY <1>1, <1>2
  <1>4. SubqueryTimes(plan, params) =
            IF end < start THEN {} ELSE Steps(OverRange(start, end, d))
    BY DEF SubqueryTimes, AlignedStart, d, end, from, q
  <1>5. ASSUME NEW k \in Nat
        PROVE  start + k * d = (q + 1 + k) * d
    <2>1. (q + 1) * d = q * d + 1 * d /\ 1 * d = d /\ (q + 1) * d \in Int
      BY <1>1, <1>2, Scaled
    <2>2. (q + 1 + k) * d = (q + 1) * d + k * d
      BY <1>1, <1>2, Scaled
    <2> QED
      BY <2>1, <2>2
  <1> HIDE DEF start
  <1> DEFINE window == {t \in Int : from < t /\ t <= end /\ \E k \in Int : t = k * d}
             steps == {start + k * d : k \in {k \in Nat : start + k * d <= end}}
  <1>6. start <= end => window \subseteq steps
    <2> SUFFICES ASSUME start <= end, NEW t \in Int, from < t, t <= end,
                        NEW j \in Int, t = j * d
                 PROVE  t \in steps
      OBVIOUS
    <2>1. q * d < j * d
      BY <1>1, <1>2
    <2>2. q < j
      BY <2>1, <1>1, <1>2, Scaled
    <2> DEFINE k == j - q - 1
    <2>3. k \in Nat /\ q + 1 + k = j
      BY <2>2, <1>2
    <2>4. start + k * d = t
      BY <2>3, <1>5
    <2> QED
      BY <2>3, <2>4
  <1>7. start <= end => steps \subseteq window
    <2> SUFFICES ASSUME NEW k \in Nat, start + k * d <= end
                 PROVE  start + k * d \in window
      OBVIOUS
    <2>1. k * d \in Int /\ 0 <= k * d
      <3>1. 0 * d <= k * d /\ 0 * d = 0 /\ k * d \in Int
        BY <1>1, Scaled
      <3> QED
        BY <3>1
    <2>2. start + k * d \in Int /\ from < start + k * d
      BY <2>1, <1>1, <1>2, <1>3 DEF start
    <2>3. q + 1 + k \in Int
      BY <1>2
    <2> QED
      BY <2>2, <2>3, <1>5
  <1>8. end < start => window = {}
    <2> SUFFICES ASSUME end < start, NEW t \in Int, from < t, t <= end,
                        NEW j \in Int, t = j * d
                 PROVE  FALSE
      OBVIOUS
    <2>1. q * d < j * d
      BY <1>1, <1>2
    <2>2. q + 1 <= j
      BY <2>1, <1>1, <1>2, Scaled
    <2>3. (q + 1) * d <= j * d /\ (q + 1) * d = q * d + 1 * d /\ 1 * d = d
      BY <2>2, <1>1, <1>2, Scaled
    <2> QED
      BY <2>3, <1>1, <1>2, <1>3 DEF start
  <1>9. start <= end => Steps(OverRange(start, end, d)) = steps
    BY <1>1, <1>3, StepsOfRange
  <1>10. end < start \/ (start <= end /\ ~(end < start))
    BY <1>1, <1>3
  <1> HIDE DEF window, steps
  <1>11. SubqueryTimes(plan, params) = window
    BY <1>4, <1>6, <1>7, <1>8, <1>9, <1>10
  <1> QED
    BY <1>11 DEF d, end, from, window

(* Two windows of a subquery end to end are evaluated at the times of one   *)
(* of their joint length: no step falls between them and none is in both,   *)
(* wherever the border lies.                                                *)
THEOREM SubqueryWindowsTile ==
    ASSUME NEW earlier, NEW later, NEW whole, NEW before, NEW now,
           IsWindow(earlier, before), IsWindow(later, now),
           Resolution(earlier) = Resolution(later), Resolution(whole) = Resolution(later),
           whole.range = earlier.range + later.range,
           WindowEnd(whole, now) = WindowEnd(later, now),
           WindowEnd(earlier, before) = WindowEnd(later, now) - later.range
    PROVE  /\ SubqueryTimes(whole, now) =
                   SubqueryTimes(earlier, before) \cup SubqueryTimes(later, now)
           /\ SubqueryTimes(earlier, before) \cap SubqueryTimes(later, now) = {}
PROOF
  <1>1. IsWindow(whole, now)
    BY DEF IsWindow
  <1> QED
    BY <1>1, SubqueryWindow DEF IsWindow

-----------------------------------------------------------------------------
(* The order of label sets                                                  *)

LabelSets == [Labels -> Nat]

(* The labels are numbers from 1 on.                                        *)
LEMMA LabelsAreNumbers ==
    /\ Labels \subseteq Nat \ {0}
    /\ \A l \in Labels : \A k \in Int : 1 <= k /\ k <= l => k \in Labels
PROOF
  <1> DEFINE n == Cardinality(Labels)
  <1>1. n \in Nat
    BY LabelsAssumption, FS_CardinalityType
  <1>2. Labels = 1 .. n
    BY LabelsAssumption
  <1> QED
    BY <1>1, <1>2

(* Of some labels there is a first.                                         *)
LEMMA FirstLabel ==
    ASSUME NEW S \in SUBSET Labels, S # {}
    PROVE  \E l \in S : \A k \in S : l <= k
PROOF
  <1>1. S \subseteq Nat
    BY LabelsAreNumbers
  <1>2. PICK x \in S : \A y \in S : ~ (<<y, x>> \in OpToRel(<, Nat))
    BY <1>1, WFMin, NatLessThanWellFounded
  <1>3. ASSUME NEW y \in S PROVE x <= y
    <2>1. <<y, x>> \in Nat \X Nat
      BY <1>1
    <2>2. ~ (<<y, x>> \in {ss \in Nat \X Nat : ss[1] < ss[2]})
      BY <1>2 DEF OpToRel
    <2>3. ~ (y < x)
      BY <2>1, <2>2
    <2> QED
      BY <1>1, <2>3
  <1> QED
    BY <1>3

(* Two label sets are the same before a label.                              *)
SameBefore(a, b, l) == \A k \in Labels : k < l => a[k] = b[k]

(* Nothing of a label set comes after a label.                              *)
Ends(a, l) == \A k \in Labels : l < k => a[k] = Absent

(* How two label sets stand that differ at a label for the first time: the  *)
(* one whose string ends there is less, and one that goes on with a later   *)
(* label's name is greater.                                                 *)
LessAt(a, b, l) ==
    \/ a[l] # Absent /\ b[l] # Absent /\ a[l] < b[l]
    \/ a[l] = Absent /\ b[l] # Absent /\ Ends(a, l)
    \/ a[l] # Absent /\ b[l] = Absent /\ ~Ends(b, l)

(* Different label sets differ at some label for the first time.            *)
LEMMA FirstDifference ==
    ASSUME NEW a \in LabelSets, NEW b \in LabelSets, a # b
    PROVE  \E l \in Labels : a[l] # b[l] /\ SameBefore(a, b, l)
PROOF
  <1> DEFINE S == {l \in Labels : a[l] # b[l]}
  <1>1. S # {} /\ S \in SUBSET Labels
    BY DEF LabelSets
  <1>2. PICK l \in S : \A k \in S : l <= k
    BY <1>1, FirstLabel
  <1> QED
    BY <1>2, LabelsAreNumbers DEF SameBefore

(* What KeyLess says, at the first difference.                              *)
LEMMA KeyLessAt ==
    ASSUME NEW a \in LabelSets, NEW b \in LabelSets
    PROVE  KeyLess(a, b) <=>
               \E l \in Labels : a[l] # b[l] /\ SameBefore(a, b, l) /\ LessAt(a, b, l)
PROOF
  <1>1. ASSUME NEW l \in Labels
        PROVE  (\A k \in 1 .. l - 1 : a[k] = b[k]) <=> SameBefore(a, b, l)
    BY LabelsAreNumbers DEF SameBefore
  <1>2. ASSUME NEW l \in Labels, a[l] # b[l]
        PROVE  LessAt(a, b, l) <=>
                   IF Absent \in {a[l], b[l]}
                   THEN LET shorter == IF a[l] = Absent THEN a ELSE b
                            ended == \A k \in Labels : k > l => shorter[k] = Absent
                        IN  (shorter = a) <=> ended
                   ELSE a[l] < b[l]
    <2>1. a # b
      BY <1>2
    <2>2. \A k \in Labels : k > l <=> l < k
      BY LabelsAreNumbers
    <2>3. CASE a[l] = Absent
      BY <1>2, <2>1, <2>2, <2>3 DEF LessAt, Ends
    <2>4. CASE b[l] = Absent
      BY <1>2, <2>1, <2>2, <2>4 DEF LessAt, Ends
    <2>5. CASE a[l] # Absent /\ b[l] # Absent
      BY <2>5 DEF LessAt
    <2> QED
      BY <2>3, <2>4, <2>5
  <1> QED
    BY <1>1, <1>2 DEF KeyLess

(* At the first difference one of the two is less, and only one.            *)
LEMMA OneIsLess ==
    ASSUME NEW a \in LabelSets, NEW b \in LabelSets, NEW l \in Labels, a[l] # b[l]
    PROVE  LessAt(a, b, l) <=> ~LessAt(b, a, l)
PROOF
  <1>1. a[l] \in Nat /\ b[l] \in Nat
    BY DEF LabelSets
  <1> QED
    BY <1>1 DEF LessAt, Absent

(* LabelsKey: the keys of label sets are ordered, each two one way only, and *)
(* a key that is less than one less than a third is less than that: what is *)
(* sorted by key comes in one order, whichever it had before.               *)
THEOREM KeyOrder ==
    ASSUME NEW a \in LabelSets, NEW b \in LabelSets, NEW c \in LabelSets
    PROVE  /\ ~KeyLess(a, a)
           /\ a # b => (KeyLess(a, b) <=> ~KeyLess(b, a))
           /\ KeyLess(a, b) /\ KeyLess(b, c) => KeyLess(a, c)
PROOF
  <1>1. ~KeyLess(a, a)
    BY KeyLessAt
  <1>2. a # b => (KeyLess(a, b) <=> ~KeyLess(b, a))
    <2> SUFFICES ASSUME a # b PROVE KeyLess(a, b) <=> ~KeyLess(b, a)
      OBVIOUS
    <2>1. PICK l \in Labels : a[l] # b[l] /\ SameBefore(a, b, l)
      BY FirstDifference
    <2>2. ASSUME NEW k \in Labels, a[k] # b[k], SameBefore(a, b, k) \/ SameBefore(b, a, k)
          PROVE  k = l
      BY <2>1, <2>2, LabelsAreNumbers DEF SameBefore
    <2>3. SameBefore(b, a, l)
      BY <2>1 DEF SameBefore
    <2>4. KeyLess(a, b) <=> LessAt(a, b, l)
      BY <2>1, <2>2, KeyLessAt
    <2>5. KeyLess(b, a) <=> LessAt(b, a, l)
      BY <2>1, <2>2, <2>3, KeyLessAt
    <2> QED
      BY <2>1, <2>4, <2>5, OneIsLess
  <1>3. ASSUME KeyLess(a, b), KeyLess(b, c) PROVE KeyLess(a, c)
    <2>1. PICK i \in Labels : a[i] # b[i] /\ SameBefore(a, b, i) /\ LessAt(a, b, i)
      BY <1>3, KeyLessAt
    <2>2. PICK j \in Labels : b[j] # c[j] /\ SameBefore(b, c, j) /\ LessAt(b, c, j)
      BY <1>3, KeyLessAt
    <2>3. i \in Nat /\ j \in Nat
      BY LabelsAreNumbers
    <2>4. \A k \in Labels : a[k] \in Nat /\ b[k] \in Nat /\ c[k] \in Nat /\ k \in Nat
      BY LabelsAreNumbers DEF LabelSets
    <2>5. CASE i < j
      <3>1. a[i] # c[i] /\ SameBefore(a, c, i)
        BY <2>1, <2>2, <2>3, <2>4, <2>5 DEF SameBefore
      <3>2. b[i] = c[i]
        BY <2>2, <2>5 DEF SameBefore
      <3>3. b[i] = Absent /\ ~Ends(b, i) => ~Ends(c, i)
        <4> SUFFICES ASSUME b[i] = Absent, NEW k \in Labels, i < k, b[k] # Absent, Ends(c, i)
                     PROVE  FALSE
          BY DEF Ends
        <4>1. c[j] = Absent /\ c[k] = Absent
          BY <2>5 DEF Ends
        <4>2. Ends(c, j)
          BY <2>3, <2>4, <2>5 DEF Ends
        <4> QED
          BY <2>2, <4>1, <4>2 DEF LessAt
      <3>4. LessAt(a, c, i)
        BY <2>1, <3>2, <3>3 DEF LessAt
      <3> QED
        BY <3>1, <3>4, KeyLessAt
    <2>6. CASE j < i
      <3>1. a[j] # c[j] /\ SameBefore(a, c, j)
        BY <2>1, <2>2, <2>3, <2>4, <2>6 DEF SameBefore
      <3>2. a[j] = b[j]
        BY <2>1, <2>6 DEF SameBefore
      <3>3. b[j] = Absent /\ Ends(b, j) => Ends(a, j)
        <4> SUFFICES ASSUME b[j] = Absent, Ends(b, j), NEW k \in Labels, j < k, a[k] # Absent
                     PROVE  FALSE
          BY DEF Ends
        <4>1. b[i] = Absent /\ b[k] = Absent
          BY <2>6 DEF Ends
        <4>2. Ends(b, i)
          BY <2>3, <2>4, <2>6 DEF Ends
        <4> QED
          BY <2>1, <4>1, <4>2 DEF LessAt
      <3>4. LessAt(a, c, j)
        BY <2>2, <3>2, <3>3 DEF LessAt
      <3> QED
        BY <3>1, <3>4, KeyLessAt
    <2>7. CASE i = j
      <3>1. SameBefore(a, c, i)
        BY <2>1, <2>2, <2>7 DEF SameBefore
      <3>2. CASE a[i] # c[i]
        <4>1. LessAt(a, c, i)
          BY <2>1, <2>2, <2>4, <2>7, <3>2 DEF LessAt, Absent
        <4> QED
          BY <3>1, <3>2, <4>1, KeyLessAt
      <3>3. CASE a[i] = c[i]
        <4>1. a[i] = Absent /\ Ends(a, i) /\ ~Ends(c, i)
          BY <2>1, <2>2, <2>4, <2>7, <3>3 DEF LessAt, Absent
        <4>2. a # c
          BY <4>1 DEF Ends
        <4>3. PICK l \in Labels : a[l] # c[l] /\ SameBefore(a, c, l)
          BY <4>2, FirstDifference
        <4>4. i < l
          BY <2>3, <2>4, <3>1, <3>3, <4>3 DEF SameBefore
        <4>5. LessAt(a, c, l)
          BY <4>1, <4>3, <4>4, <2>3, <2>4 DEF LessAt, Ends
        <4> QED
          BY <4>3, <4>5, KeyLessAt
      <3> QED
        BY <3>2, <3>3
    <2> QED
      BY <2>3, <2>5, <2>6, <2>7
  <1> QED
    BY <1>1, <1>2, <1>3

-----------------------------------------------------------------------------
(* What is put in order                                                     *)

(* A relation that orders the members of a set, each two one way.           *)
Orders(R, S) ==
    /\ \A x \in S : <<x, x>> \notin R
    /\ \A x, y \in S : x # y => <<x, y>> \in R \/ <<y, x>> \in R
    /\ \A x, y, z \in S : <<x, y>> \in R /\ <<y, z>> \in R => <<x, z>> \in R

Below(x, S, R) == {y \in S : <<y, x>> \in R}

(* A finite set in an order: the member of a position is the one with as    *)
(* many before it.  Each member has its position, and the order is kept.    *)
LEMMA Positions ==
    ASSUME NEW S, IsFiniteSet(S), NEW R, Orders(R, S),
           NEW seq,
           \A i \in 1 .. Cardinality(S) :
               (\E x \in S : Cardinality(Below(x, S, R)) = i - 1) =>
                   seq[i] \in S /\ Cardinality(Below(seq[i], S, R)) = i - 1
    PROVE  /\ Cardinality(S) \in Nat
           /\ \A i \in 1 .. Cardinality(S) : seq[i] \in S
           /\ \A i, j \in 1 .. Cardinality(S) : i < j => <<seq[i], seq[j]>> \in R
           /\ \A x \in S : \E i \in 1 .. Cardinality(S) : seq[i] = x
PROOF
  <1> DEFINE n == Cardinality(S)
             before(x) == Below(x, S, R)
             rank == [x \in S |-> Cardinality(before(x))]
  <1>1. n \in Nat
    BY FS_CardinalityType
  <1>2. ASSUME NEW x \in S
        PROVE  IsFiniteSet(before(x)) /\ rank[x] \in 0 .. n - 1 /\ x \notin before(x)
    <2>1. before(x) \in SUBSET S /\ x \notin before(x)
      BY DEF Below, Orders
    <2>2. IsFiniteSet(before(x)) /\ Cardinality(before(x)) <= n /\ Cardinality(before(x)) # n
      BY <2>1, FS_Subset
    <2>3. Cardinality(before(x)) \in Nat
      BY <2>2, FS_CardinalityType
    <2> QED
      BY <1>1, <2>1, <2>2, <2>3
  <1>3. ASSUME NEW x \in S, NEW y \in S, <<x, y>> \in R
        PROVE  rank[x] < rank[y]
    <2>1. before(x) \cup {x} \in SUBSET before(y)
      BY <1>3 DEF Below, Orders
    <2>2. IsFiniteSet(before(x) \cup {x}) /\ Cardinality(before(x) \cup {x}) = rank[x] + 1
      BY <1>2, FS_AddElement
    <2>3. Cardinality(before(x) \cup {x}) <= rank[y]
      BY <1>2, <2>1, FS_Subset
    <2> QED
      BY <1>1, <1>2, <2>2, <2>3
  <1> HIDE DEF n
  <1>4. rank \in [S -> 0 .. n - 1]
    BY <1>2
  <1>5. \A x, y \in S : rank[x] = rank[y] => x = y
    <2> SUFFICES ASSUME NEW x \in S, NEW y \in S, rank[x] = rank[y], x # y PROVE FALSE
      OBVIOUS
    <2>1. rank[x] < rank[y] \/ rank[y] < rank[x]
      BY <1>3 DEF Orders
    <2> QED
      BY <1>1, <1>4, <2>1
  <1>6. IsFiniteSet(0 .. n - 1) /\ Cardinality(0 .. n - 1) = n
    BY <1>1, FS_Interval
  <1>7. \A i \in 0 .. n - 1 : \E x \in S : rank[x] = i
    <2>1. rank \in Injection(S, 0 .. n - 1)
      BY <1>4, <1>5 DEF Injection, IsInjective
    <2>2. rank \in Surjection(S, 0 .. n - 1)
      BY <1>6, <2>1, FS_Injection DEF n
    <2> QED
      BY <2>2 DEF Surjection
  <1>8. ASSUME NEW i \in 1 .. n
        PROVE  seq[i] \in S /\ rank[seq[i]] = i - 1
    <2>1. i - 1 \in 0 .. n - 1
      BY <1>1
    <2>2. \E x \in S : Cardinality(Below(x, S, R)) = i - 1
      BY <1>7, <2>1
    <2>3. seq[i] \in S /\ Cardinality(Below(seq[i], S, R)) = i - 1
      BY <2>2 DEF n
    <2> QED
      BY <2>3
  <1>9. ASSUME NEW i \in 1 .. n, NEW j \in 1 .. n, i < j
        PROVE  <<seq[i], seq[j]>> \in R
    <2>1. seq[i] \in S /\ seq[j] \in S /\ rank[seq[i]] = i - 1 /\ rank[seq[j]] = j - 1
      BY <1>8
    <2>2. i - 1 # j - 1 /\ ~(j - 1 < i - 1)
      BY <1>1, <1>9
    <2>3. seq[i] # seq[j] /\ ~(<<seq[j], seq[i]>> \in R)
      BY <1>3, <2>1, <2>2
    <2> QED
      BY <2>1, <2>3 DEF Orders
  <1>10. ASSUME NEW x \in S
         PROVE  \E i \in 1 .. n : seq[i] = x
    <2>1. rank[x] \in 0 .. n - 1 /\ rank[x] + 1 \in 1 .. n
      BY <1>1, <1>2
    <2>2. seq[rank[x] + 1] \in S /\ rank[seq[rank[x] + 1]] = rank[x]
      BY <1>1, <1>8, <2>1
    <2> QED
      BY <1>5, <2>1, <2>2
  <1> QED
    BY <1>1, <1>8, <1>9, <1>10 DEF n

InOrder(S) == Ordered(S, KeyLess)

(* Label sets in the order of their keys: each once.                        *)
LEMMA OrderedKeys ==
    ASSUME NEW S \in SUBSET LabelSets, IsFiniteSet(S),
           NEW keys, keys = InOrder(S)
    PROVE  /\ Cardinality(S) \in Nat /\ DOMAIN keys = 1 .. Cardinality(S)
           /\ \A i \in DOMAIN keys : keys[i] \in S
           /\ \A i, j \in DOMAIN keys : i < j => KeyLess(keys[i], keys[j])
           /\ \A i, j \in DOMAIN keys : i # j => keys[i] # keys[j]
           /\ \A x \in S : \E i \in DOMAIN keys : keys[i] = x
PROOF
  <1> DEFINE R == {p \in S \X S : KeyLess(p[1], p[2])}
  <1>1. \A x, y \in S : <<x, y>> \in R <=> KeyLess(x, y)
    OBVIOUS
  <1>2. Orders(R, S)
    BY <1>1, KeyOrder DEF Orders
  <1>3. \A x \in S : Below(x, S, R) = {y \in S : KeyLess(y, x)}
    BY <1>1 DEF Below
  <1> HIDE DEF R
  <1>4. ASSUME NEW i \in 1 .. Cardinality(S),
               \E x \in S : Cardinality(Below(x, S, R)) = i - 1
        PROVE  keys[i] \in S /\ Cardinality(Below(keys[i], S, R)) = i - 1
    <2>1. keys[i] = CHOOSE x \in S : Cardinality({y \in S : KeyLess(y, x)}) = i - 1
      BY DEF InOrder, Ordered
    <2>2. \E x \in S : Cardinality({y \in S : KeyLess(y, x)}) = i - 1
      BY <1>3, <1>4
    <2>3. keys[i] \in S /\ Cardinality({y \in S : KeyLess(y, keys[i])}) = i - 1
      BY <2>1, <2>2
    <2> QED
      BY <1>3, <2>3
  <1>5. /\ Cardinality(S) \in Nat
        /\ \A i \in 1 .. Cardinality(S) : keys[i] \in S
        /\ \A i, j \in 1 .. Cardinality(S) : i < j => <<keys[i], keys[j]>> \in R
        /\ \A x \in S : \E i \in 1 .. Cardinality(S) : keys[i] = x
    BY <1>2, <1>4, Positions
  <1>6. DOMAIN keys = 1 .. Cardinality(S)
    BY DEF InOrder, Ordered
  <1>7. \A i, j \in DOMAIN keys : i < j => KeyLess(keys[i], keys[j])
    BY <1>1, <1>5, <1>6
  <1>8. ASSUME NEW i \in DOMAIN keys, NEW j \in DOMAIN keys, i # j
        PROVE  keys[i] # keys[j]
    <2>1. i < j \/ j < i
      BY <1>5, <1>6, <1>8
    <2>2. KeyLess(keys[i], keys[j]) \/ KeyLess(keys[j], keys[i])
      BY <1>7, <2>1
    <2>3. keys[i] \in LabelSets /\ ~KeyLess(keys[i], keys[i])
      BY <1>5, <1>6, KeyOrder
    <2> QED
      BY <2>2, <2>3
  <1> QED
    BY <1>5, <1>6, <1>7, <1>8

(* Samples and series, as far as they tell label sets and values apart.     *)
Samples == [metric : LabelSets, t : Int, v : Int]

(* Every sample of a vector has a label set.                                *)
LEMMA SampleMetrics ==
    ASSUME NEW samples \in Seq(Samples)
    PROVE  /\ Len(samples) \in Nat /\ DOMAIN samples = 1 .. Len(samples)
           /\ \A i \in 1 .. Len(samples) : samples[i].metric \in LabelSets
PROOF
  <1>1. /\ Len(samples) \in Nat /\ DOMAIN samples = 1 .. Len(samples)
        /\ \A i \in 1 .. Len(samples) : samples[i] \in Samples
    OBVIOUS
  <1>2. \A s \in Samples : s.metric \in LabelSets
    BY DEF Samples
  <1> QED
    BY <1>1, <1>2

(* The label sets of finitely many things are finitely many.                *)
LEMMA FiniteMetrics ==
    ASSUME NEW n \in Nat, NEW items, DOMAIN items = 1 .. n,
           \A i \in 1 .. n : items[i].metric \in LabelSets
    PROVE  IsFiniteSet(Metrics(items)) /\ Metrics(items) \in SUBSET LabelSets
PROOF
  <1> DEFINE f == [i \in 1 .. n |-> items[i].metric]
  <1>1. f \in Surjection(1 .. n, Metrics(items))
    BY DEF Metrics, Surjection
  <1>2. IsFiniteSet(1 .. n)
    BY FS_Interval
  <1>3. IsFiniteSet(Metrics(items))
    BY <1>1, <1>2, FS_Surjection
  <1>4. Metrics(items) \in SUBSET LabelSets
    BY DEF Metrics
  <1> QED
    BY <1>3, <1>4

(* What is left of a label set is one.                                      *)
LEMMA GroupMetric ==
    ASSUME NEW metric \in LabelSets, NEW grouping, NEW without
    PROVE  AggregationMetric(metric, grouping, without) \in LabelSets
PROOF
  BY DEF AggregationMetric, Keep, Absent, LabelSets

GroupsOf(items, agg) ==
    {AggregationMetric(m, agg.grouping, agg.without) : m \in Metrics(items)}

(* The groups of finitely many things are finitely many.                    *)
LEMMA FiniteGroups ==
    ASSUME NEW n \in Nat, NEW items, DOMAIN items = 1 .. n,
           \A i \in 1 .. n : items[i].metric \in LabelSets,
           NEW agg
    PROVE  IsFiniteSet(GroupsOf(items, agg)) /\ GroupsOf(items, agg) \in SUBSET LabelSets
PROOF
  <1>1. IsFiniteSet(Metrics(items)) /\ Metrics(items) \in SUBSET LabelSets
    BY FiniteMetrics
  <1> DEFINE f == [m \in Metrics(items) |-> AggregationMetric(m, agg.grouping, agg.without)]
  <1>2. f \in Surjection(Metrics(items), GroupsOf(items, agg))
    BY DEF Surjection, GroupsOf
  <1>3. IsFiniteSet(GroupsOf(items, agg))
    BY <1>1, <1>2, FS_Surjection
  <1>4. GroupsOf(items, agg) \in SUBSET LabelSets
    BY <1>1, GroupMetric DEF GroupsOf
  <1> QED
    BY <1>3, <1>4

(* aggregateInstantSamples: an aggregation answers with one sample for each *)
(* label set its grouping leaves, of however many samples, and with no two  *)
(* samples of one label set, which it leaves in the order of their keys.    *)
THEOREM AggregatesOncePerGroup ==
    ASSUME NEW samples \in Seq(Samples), NEW agg, NEW t,
           NEW result, result = AggregateInstant(samples, agg, t)
    PROVE  /\ ~HasTwins(result)
           /\ \A i, j \in DOMAIN result :
                  i < j => KeyLess(result[i].metric, result[j].metric)
           /\ Metrics(result) = GroupsOf(samples, agg)
PROOF
  <1> DEFINE groups == GroupsOf(samples, agg)
             keys == BucketKeys(samples, agg)
  <1>1. /\ Len(samples) \in Nat /\ DOMAIN samples = 1 .. Len(samples)
        /\ \A i \in 1 .. Len(samples) : samples[i].metric \in LabelSets
    BY SampleMetrics
  <1>2. IsFiniteSet(groups) /\ groups \in SUBSET LabelSets
    BY <1>1, FiniteGroups
  <1>3. keys = InOrder(groups)
    BY DEF BucketKeys, InOrder, GroupsOf
  <1> HIDE DEF keys, groups
  <1>4. /\ \A i \in DOMAIN keys : keys[i] \in groups
        /\ \A i, j \in DOMAIN keys : i < j => KeyLess(keys[i], keys[j])
        /\ \A i, j \in DOMAIN keys : i # j => keys[i] # keys[j]
        /\ \A x \in groups : \E i \in DOMAIN keys : keys[i] = x
    BY <1>2, <1>3, OrderedKeys
  <1>5. /\ DOMAIN result = DOMAIN keys
        /\ \A i \in DOMAIN keys : result[i].metric = keys[i]
    BY DEF AggregateInstant, Sample, keys
  <1>6. ~HasTwins(result)
    BY <1>4, <1>5 DEF HasTwins
  <1>7. Metrics(result) = groups
    BY <1>4, <1>5 DEF Metrics
  <1> QED
    BY <1>4, <1>5, <1>6, <1>7 DEF groups

(* AggregateRangeSeries and the gathering of samples into series: a matrix  *)
(* that is put together has one series for each label set, in key order.    *)
THEOREM SeriesOncePerLabelset ==
    ASSUME NEW samples \in Seq(Samples),
           NEW result, result = SeriesOf(samples)
    PROVE  /\ ~HasTwins(result)
           /\ \A i, j \in DOMAIN result :
                  i < j => KeyLess(result[i].metric, result[j].metric)
           /\ Metrics(result) = Metrics(samples)
PROOF
  <1> DEFINE known == Metrics(samples)
             keys == InOrder(known)
  <1>1. /\ Len(samples) \in Nat /\ DOMAIN samples = 1 .. Len(samples)
        /\ \A i \in 1 .. Len(samples) : samples[i].metric \in LabelSets
    BY SampleMetrics
  <1>2. IsFiniteSet(known) /\ known \in SUBSET LabelSets
    BY <1>1, FiniteMetrics
  <1> HIDE DEF keys, known
  <1>3. /\ \A i \in DOMAIN keys : keys[i] \in known
        /\ \A i, j \in DOMAIN keys : i < j => KeyLess(keys[i], keys[j])
        /\ \A i, j \in DOMAIN keys : i # j => keys[i] # keys[j]
        /\ \A x \in known : \E i \in DOMAIN keys : keys[i] = x
    BY <1>2, OrderedKeys DEF keys
  <1>4. /\ DOMAIN result = DOMAIN keys
        /\ \A i \in DOMAIN keys : result[i].metric = keys[i]
    BY DEF SeriesOf, Series, InOrder, keys, known
  <1>5. ~HasTwins(result)
    BY <1>3, <1>4 DEF HasTwins
  <1>6. Metrics(result) = known
    BY <1>3, <1>4 DEF Metrics
  <1> QED
    BY <1>3, <1>4, <1>5, <1>6 DEF known

-----------------------------------------------------------------------------
(* Vectors matched with vectors                                             *)

(* What a match group keeps of a label set it was made from is all of it.   *)
LEMMA GroupOfGroup ==
    ASSUME NEW metric, NEW m
    PROVE  GroupLabels(GroupLabels(metric, m), m) = GroupLabels(metric, m)
PROOF
  <1>1. CASE m.on
    BY <1>1 DEF GroupLabels, Keep
  <1>2. CASE ~m.on
    BY <1>2 DEF GroupLabels, Keep
  <1> QED
    BY <1>1, <1>2

(* A filled partner is of the match group of the sample it is filled in for.*)
LEMMA FilledInGroup ==
    ASSUME NEW one, NEW answered, NEW m
    PROVE  \A i \in DOMAIN FilledPairs(one, answered, m) :
               LET p == FilledPairs(one, answered, m)[i]
               IN  GroupLabels(p.left.metric, m) = GroupLabels(p.right.metric, m)
PROOF
  BY GroupOfGroup DEF FilledPairs, Sample

(* A matching as the parser lets it through: labels are included only where *)
(* one side may have several samples, and none of those matched on.         *)
IsMatching(m) ==
    /\ m.card \in {"one-to-one", "many-to-one", "one-to-many"}
    /\ m.on \in BOOLEAN
    /\ m.card = "one-to-one" => m.include = {}
    /\ m.on => m.include \cap m.labels = {}

(* Two samples of one match group.                                          *)
IsPair(p, m) ==
    /\ p.left.metric \in LabelSets /\ p.right.metric \in LabelSets
    /\ GroupLabels(p.left.metric, m) = GroupLabels(p.right.metric, m)

(* The name is gone from a result although it was matched on.               *)
LosesItsGroup(op, m, bool) ==
    m.on /\ MetricName \in m.labels /\ ~(IsComparison(op) /\ ~bool)

(* The label set of a result has what its match group is told by.           *)
LEMMA ResultShowsGroup ==
    ASSUME NEW op, NEW m, IsMatching(m), NEW bool, ~LosesItsGroup(op, m, bool),
           NEW p, IsPair(p, m)
    PROVE  GroupLabels(PairResult(op, p, m, bool).sample.metric, m) =
               PairResult(op, p, m, bool).sig
PROOF
  <1> DEFINE L == p.left.metric
             R == p.right.metric
             M == ResultMetric(L, R, op, m, bool)
             named == ScalarResultMetric(L, op, bool)
             told == IF m.on THEN m.labels ELSE Labels \ (m.labels \cup {MetricName})
  <1>1. \A metric : GroupLabels(metric, m) = Keep(metric, told)
    BY DEF GroupLabels
  <1>2. \A l \in Labels \cap told : L[l] = R[l]
    <2>1. Keep(L, told) = Keep(R, told)
      BY <1>1 DEF IsPair
    <2> QED
      BY <2>1 DEF Keep
  <1>3. \A l \in Labels \cap told : named[l] = L[l]
    BY DEF ScalarResultMetric, DropMetricName, Keep, LosesItsGroup
  <1>4. \A l \in Labels \cap told : M[l] = L[l]
    <2> TAKE l \in Labels \cap told
    <2>1. CASE l \in m.include
      BY <1>2, <2>1 DEF ResultMetric
    <2>2. CASE l \notin m.include
      <3>1. M[l] = IF m.card # "one-to-one" THEN named[l]
                   ELSE IF m.on THEN Keep(named, m.labels)[l]
                   ELSE Keep(named, Labels \ m.labels)[l]
        BY <2>2 DEF ResultMetric
      <3> QED
        BY <1>3, <3>1 DEF Keep
    <2> QED
      BY <2>1, <2>2
  <1>5. Keep(M, told) = Keep(L, told)
    BY <1>4 DEF Keep
  <1>6. /\ PairResult(op, p, m, bool).sample.metric = M
        /\ PairResult(op, p, m, bool).sig = GroupLabels(L, m)
    BY DEF PairResult, Sample
  <1> QED
    BY <1>1, <1>5, <1>6

(* applyVectorVectorBinaryInstant: results that do not clash within their   *)
(* match groups are of different label sets altogether, although the code   *)
(* looks at one group at a time.  The exception is a result that loses the  *)
(* name it was matched on: on(__name__) without a filtering comparison.     *)
THEOREM MatchedResultsUnique ==
    ASSUME NEW op, NEW m, IsMatching(m), NEW bool, ~LosesItsGroup(op, m, bool),
           NEW pairs, \A i \in DOMAIN pairs : IsPair(pairs[i], m),
           NEW results, results = [i \in DOMAIN pairs |-> PairResult(op, pairs[i], m, bool)],
           ~Clash(results, m)
    PROVE  ~HasTwins([i \in DOMAIN results |-> results[i].sample])
PROOF
  <1> SUFFICES ASSUME NEW i \in DOMAIN pairs, NEW j \in DOMAIN pairs, i # j,
                      results[i].sample.metric = results[j].sample.metric
               PROVE  FALSE
    BY DEF HasTwins
  <1>1. \A k \in DOMAIN pairs : GroupLabels(results[k].sample.metric, m) = results[k].sig
    BY ResultShowsGroup
  <1>2. results[i].sig = results[j].sig
    BY <1>1
  <1> QED
    BY <1>2 DEF Clash

(* A comparison with its sides turned round, and a sum and a product.       *)
LEMMA ScalarsMirrored ==
    ASSUME NEW op, op \in {"+", "*"} \/ IsComparison(op), NEW a \in Int, NEW b \in Int
    PROVE  /\ ApplyScalarBinary(op, a, b) = ApplyScalarBinary(Mirrored(op), b, a)
           /\ IsComparison(op) <=> IsComparison(Mirrored(op))
PROOF
  <1>1. CASE op = "+"
    BY <1>1, NaNAssumption DEF ApplyScalarBinary, Mirrored, IsComparison
  <1>2. CASE op = "*"
    BY <1>2, NaNAssumption DEF ApplyScalarBinary, Mirrored, IsComparison
  <1>3. CASE op = "=="
    BY <1>3 DEF ApplyScalarBinary, Mirrored, IsComparison, BoolToFloat
  <1>4. CASE op = "!="
    BY <1>4 DEF ApplyScalarBinary, Mirrored, IsComparison, BoolToFloat
  <1>5. CASE op = ">"
    BY <1>5 DEF ApplyScalarBinary, Mirrored, IsComparison, BoolToFloat
  <1>6. CASE op = "<"
    BY <1>6 DEF ApplyScalarBinary, Mirrored, IsComparison, BoolToFloat
  <1>7. CASE op = ">="
    BY <1>7 DEF ApplyScalarBinary, Mirrored, IsComparison, BoolToFloat
  <1>8. CASE op = "<="
    BY <1>8 DEF ApplyScalarBinary, Mirrored, IsComparison, BoolToFloat
  <1> QED
    BY <1>1, <1>2, <1>3, <1>4, <1>5, <1>6, <1>7, <1>8 DEF IsComparison

(* applyVectorVectorBinaryInstant swaps the sides of a group_right and back *)
(* again for the value: a pair of it comes to what the pair comes to when   *)
(* the operation is written the other way round with group_left, in value,  *)
(* label set and match group, and clashes with the same others.             *)
THEOREM PairsMirror ==
    ASSUME NEW op, NEW bool \in BOOLEAN,
           op \in {"+", "*"} \/ (IsComparison(op) /\ bool),
           NEW right, right.card = "one-to-many",
           NEW left, left.card = "many-to-one", left.on = right.on,
           left.labels = right.labels, left.include = right.include,
           NEW p, p.left \in Samples, p.right \in Samples, p.left.t = p.right.t
    PROVE  /\ PairFilteredOut(op, p, right, bool) <=> PairFilteredOut(Mirrored(op), p, left, bool)
           /\ PairResult(op, p, right, bool) = PairResult(Mirrored(op), p, left, bool)
           /\ \A results : Clash(results, right) <=> Clash(results, left)
PROOF
  <1>1. p.left.v \in Int /\ p.right.v \in Int
    BY DEF Samples
  <1>2. /\ ApplyScalarBinary(op, p.right.v, p.left.v) =
               ApplyScalarBinary(Mirrored(op), p.left.v, p.right.v)
        /\ IsComparison(op) <=> IsComparison(Mirrored(op))
    BY <1>1, ScalarsMirrored
  <1>3. IsComparison(op) => bool
    BY DEF IsComparison
  <1>4. /\ ~PairFilteredOut(op, p, right, bool)
        /\ ~PairFilteredOut(Mirrored(op), p, left, bool)
    BY <1>2, <1>3 DEF PairFilteredOut, FilteredOut
  <1>5. ScalarResult(op, p.right.v, p.left.v, FALSE, bool) =
            ScalarResult(Mirrored(op), p.left.v, p.right.v, FALSE, bool)
    BY <1>2, <1>3 DEF ScalarResult, Compared
  <1>6. \A metric : GroupLabels(metric, right) = GroupLabels(metric, left)
    BY DEF GroupLabels
  <1>7. ResultMetric(p.left.metric, p.right.metric, op, right, bool) =
            ResultMetric(p.left.metric, p.right.metric, Mirrored(op), left, bool)
    BY <1>2, <1>3 DEF ResultMetric, ScalarResultMetric
  <1>8. PairResult(op, p, right, bool) = PairResult(Mirrored(op), p, left, bool)
    BY <1>5, <1>6, <1>7 DEF PairResult, LeftOperand, RightOperand
  <1>9. ASSUME NEW results PROVE Clash(results, right) <=> Clash(results, left)
    BY DEF Clash
  <1> QED
    BY <1>4, <1>8, <1>9

(* countValuesInstant: however the values become labels, and whatever those *)
(* overwrite, one sample answers for each label set.                        *)
COROLLARY CountedOncePerGroup ==
    ASSUME NEW samples \in Seq(Samples), NEW agg, agg.param \in Labels, NEW t
    PROVE  ~HasTwins(CountValuesInstant(samples, agg, t))
PROOF
  <1> DEFINE labelled == [i \in DOMAIN samples |->
                             [samples[i] EXCEPT !.metric[agg.param] = FormatValue(samples[i].v)]]
             counted == [agg EXCEPT !.op = "count",
                                    !.grouping = IF agg.without THEN @ ELSE @ \cup {agg.param}]
  <1>1. \A v \in Int : FormatValue(v) \in Nat
    BY DEF FormatValue
  <1>2. ASSUME NEW s \in Samples
        PROVE  [s EXCEPT !.metric[agg.param] = FormatValue(s.v)] \in Samples
    <2>1. s.metric \in [Labels -> Nat] /\ FormatValue(s.v) \in Nat
      BY <1>1 DEF Samples, LabelSets
    <2>2. [s.metric EXCEPT ![agg.param] = FormatValue(s.v)] \in LabelSets
      BY <2>1 DEF LabelSets
    <2> QED
      BY <2>2 DEF Samples
  <1>3. labelled \in Seq(Samples)
    BY <1>2
  <1>4. CountValuesInstant(samples, agg, t) = AggregateInstant(labelled, counted, t)
    BY DEF CountValuesInstant
  <1> HIDE DEF labelled, counted
  <1> QED
    BY <1>3, <1>4, AggregatesOncePerGroup

-----------------------------------------------------------------------------
(* Two minus signs                                                          *)

Nameless(samples) == \A i \in DOMAIN samples : samples[i].metric[MetricName] = Absent

(* Taking the name off leaves alone the label sets that have none, and only *)
(* those.                                                                   *)
LEMMA NameDropped ==
    ASSUME NEW metric \in LabelSets
    PROVE  /\ DropMetricName(metric) \in LabelSets
           /\ DropMetricName(DropMetricName(metric)) = DropMetricName(metric)
           /\ DropMetricName(metric) = metric <=> metric[MetricName] = Absent
PROOF
  <1>1. MetricName \in Labels
    <2>1. PICK l \in Labels : TRUE
      BY LabelsAssumption
    <2>2. l \in Nat /\ 1 <= l
      BY <2>1, LabelsAreNumbers
    <2> QED
      BY <2>1, <2>2, LabelsAreNumbers DEF MetricName
  <1>2. DropMetricName(metric) =
            [l \in Labels |-> IF l = MetricName THEN Absent ELSE metric[l]]
    BY DEF DropMetricName, Keep
  <1>3. DropMetricName(DropMetricName(metric)) =
            [l \in Labels |-> IF l = MetricName THEN Absent ELSE DropMetricName(metric)[l]]
    BY DEF DropMetricName, Keep
  <1>4. metric = [l \in Labels |-> metric[l]] /\ \A l \in Labels : metric[l] \in Nat
    BY DEF LabelSets
  <1>5. DropMetricName(metric) \in LabelSets
    BY <1>2, <1>4 DEF LabelSets, Absent
  <1>6. DropMetricName(DropMetricName(metric)) = DropMetricName(metric)
    BY <1>2, <1>3
  <1>7. DropMetricName(metric) = metric <=> metric[MetricName] = Absent
    BY <1>1, <1>2, <1>4
  <1> QED
    BY <1>5, <1>6, <1>7

(* constantFoldUnaryNegation puts x for -(-x).  When the signs fall on a    *)
(* vector that may be answered at all, that is right exactly for a vector   *)
(* without names; the pass does not look whether there are any.  (No value  *)
(* is the opposite of the number that stands for NaN.)                      *)
THEOREM DoubleNegation ==
    ASSUME NEW samples \in Seq(Samples),
           \A i \in DOMAIN samples : samples[i].v # -NaN,
           NEW once, once = ApplyUnary("-", Vector(samples))
    PROVE  /\ Failed(once) <=> HasTwins(ApplyUnarySamples("-", samples))
           /\ ~Failed(once) =>
                  (ApplyUnary("-", once) = Vector(samples) <=> Nameless(samples))
PROOF
  <1> DEFINE minus == ApplyUnarySamples("-", samples)
             twice == ApplyUnarySamples("-", minus)
  <1>1. /\ DOMAIN samples = 1 .. Len(samples) /\ Len(samples) \in Nat
        /\ \A i \in DOMAIN samples : samples[i] \in Samples
    OBVIOUS
  <1>2. /\ DOMAIN minus = DOMAIN samples
        /\ \A i \in DOMAIN samples :
               minus[i] = Sample(DropMetricName(samples[i].metric), samples[i].t,
                                 Negated(samples[i].v))
    BY DEF ApplyUnarySamples
  <1>3. /\ DOMAIN twice = DOMAIN minus
        /\ \A i \in DOMAIN minus :
               twice[i] = Sample(DropMetricName(minus[i].metric), minus[i].t,
                                 Negated(minus[i].v))
    BY DEF ApplyUnarySamples
  <1>4. twice = [i \in DOMAIN twice |-> twice[i]] /\ samples = [i \in DOMAIN samples |-> samples[i]]
    <2>1. twice = [i \in DOMAIN twice |-> twice[i]]
      BY DEF ApplyUnarySamples
    <2> QED
      BY <2>1
  <1>5. once = IF HasTwins(minus) THEN Error("bad_data") ELSE Vector(minus)
    BY DEF ApplyUnary, Vector, EnsureUniqueInstant
  <1> HIDE DEF minus, twice
  <1>6. Failed(once) <=> HasTwins(minus)
    BY <1>5 DEF Failed, Error, Vector
  <1>7. ASSUME NEW i \in DOMAIN samples
        PROVE  /\ twice[i] = Sample(DropMetricName(samples[i].metric), samples[i].t, samples[i].v)
               /\ minus[i].metric = twice[i].metric
               /\ twice[i] = samples[i] <=> samples[i].metric[MetricName] = Absent
    <2>1. /\ samples[i].metric \in LabelSets /\ samples[i].v \in Int
          /\ samples[i] = Sample(samples[i].metric, samples[i].t, samples[i].v)
      BY <1>1 DEF Samples, Sample
    <2>2. Negated(Negated(samples[i].v)) = samples[i].v
      BY <2>1, NaNAssumption DEF Negated
    <2>3. /\ minus[i].metric = DropMetricName(samples[i].metric)
          /\ minus[i].t = samples[i].t /\ minus[i].v = Negated(samples[i].v)
      BY <1>2 DEF Sample
    <2>4. twice[i] = Sample(DropMetricName(samples[i].metric), samples[i].t, samples[i].v)
      BY <1>2, <1>3, <2>1, <2>2, <2>3, NameDropped
    <2>5. twice[i] = samples[i] <=> DropMetricName(samples[i].metric) = samples[i].metric
      BY <2>1, <2>4 DEF Sample
    <2> QED
      BY <2>1, <2>3, <2>4, <2>5, NameDropped DEF Sample
  <1>8. twice = samples <=> Nameless(samples)
    <2>1. twice = samples <=> \A i \in DOMAIN samples : twice[i] = samples[i]
      BY <1>2, <1>3, <1>4
    <2> QED
      BY <1>7, <2>1 DEF Nameless
  <1>9. HasTwins(twice) <=> HasTwins(minus)
    BY <1>2, <1>3, <1>7 DEF HasTwins
  <1>10. ASSUME ~Failed(once)
         PROVE  ApplyUnary("-", once) = Vector(twice)
    <2>1. once = Vector(minus) /\ ~HasTwins(twice)
      BY <1>5, <1>6, <1>9, <1>10
    <2>2. ApplyUnary("-", Vector(minus)) = EnsureUniqueInstant(twice)
      BY DEF ApplyUnary, Vector, twice
    <2> QED
      BY <2>1, <2>2 DEF EnsureUniqueInstant
  <1>11. Vector(twice) = Vector(samples) <=> twice = samples
    <2>1. Vector(twice).samples = twice /\ Vector(samples).samples = samples
      BY DEF Vector
    <2> QED
      BY <2>1
  <1> QED
    BY <1>6, <1>8, <1>10, <1>11 DEF minus

-----------------------------------------------------------------------------
(* The timestamps of a request, in SQL                                      *)

(* A request for a range: it starts and ends at some time, in whole steps.  *)
IsRange(params) ==
    /\ params.start \in Int /\ params.end \in Int /\ params.step \in Nat \ {0}
    /\ params.start <= params.end

(* The quotient and the rest of a number.                                   *)
LEMMA RestOf ==
    ASSUME NEW n \in Int, NEW d \in Nat \ {0}
    PROVE  n % d = n - (n \div d) * d /\ 0 <= n % d /\ n % d < d
PROOF
  BY SMT

(* There is one multiple between two that are two steps apart.              *)
LEMMA OneBetween ==
    ASSUME NEW k \in Int, NEW q \in Int, NEW d \in Nat \ {0}
    PROVE  /\ (q - 1) * d < k * d /\ k * d < (q + 1) * d => k = q
           /\ (q - 1) * d = q * d - d /\ (q + 1) * d = q * d + d
           /\ k * d \in Int /\ q * d \in Int
PROOF
  <1>1. /\ (q - 1) * d < k * d <=> q - 1 < k
        /\ k * d < (q + 1) * d <=> k < q + 1
        /\ k * d \in Int /\ q * d \in Int
    BY Scaled
  <1>2. (q - 1) * d = q * d - d /\ (q + 1) * d = q * d + d
    <2>1. 1 * d = d
      BY SMT
    <2> QED
      BY <2>1, Scaled
  <1> QED
    BY <1>1, <1>2

(* The larger of two numbers.                                               *)
LEMMA LargerOf ==
    ASSUME NEW a \in Int, NEW b \in Int
    PROVE  Max({a, b}) = IF a >= b THEN a ELSE b
PROOF
  BY DEF Max

(* The multiples that are not after a number are those up to its quotient.  *)
LEMMA MultiplesUpTo ==
    ASSUME NEW n \in Int, NEW d \in Nat \ {0}, NEW j \in Int
    PROVE  j * d <= n <=> j <= n \div d
PROOF
  <1> DEFINE q == n \div d
  <1>1. q \in Int /\ q * d <= n /\ n < q * d + d
    BY QuotientOf
  <1> HIDE DEF q
  <1>2. /\ j <= q <=> j * d <= q * d
        /\ q + 1 <= j <=> (q + 1) * d <= j * d
        /\ j * d \in Int /\ q * d \in Int
    BY <1>1, Scaled
  <1>3. (q + 1) * d = q * d + d
    BY <1>1, OneBetween
  <1>4. j <= q \/ q + 1 <= j
    BY <1>1
  <1>5. j <= q => j * d <= n
    BY <1>1, <1>2
  <1>6. q + 1 <= j => ~(j * d <= n)
    BY <1>1, <1>2, <1>3
  <1>7. ~(j <= q /\ q + 1 <= j)
    BY <1>1
  <1> QED
    BY <1>4, <1>5, <1>6, <1>7 DEF q

(* GridEvalTSParams ends its range() one step after the end, so that the end *)
(* is in it; one step too far when the end is no whole number of steps after *)
(* the start: then the grid has one timestamp more than the request, which  *)
(* is after its end.                                                        *)
THEOREM GridOfRange ==
    ASSUME NEW params, IsRange(params),
           NEW after, after = params.start + ((params.end - params.start) \div params.step + 1)
                                                 * params.step
    PROVE  /\ Grid(params) = IF (params.end - params.start) % params.step = 0 THEN Steps(params)
                             ELSE Steps(params) \cup {after}
           /\ params.end < after
           /\ \A t \in Steps(params) : t <= params.end
PROOF
  <1> DEFINE a == params.start
             e == params.end
             d == params.step
             n == e - a
             q == n \div d
             g == (e + d - 1 - a) \div d
  <1>1. a \in Int /\ e \in Int /\ d \in Nat \ {0} /\ a <= e /\ n \in Nat
    BY DEF IsRange
  <1>0. /\ Grid(params) = {a + k * d : k \in 0 .. g}
        /\ Steps(params) = {a + k * d : k \in 0 .. q}
        /\ after = a + (q + 1) * d
    BY DEF Grid, Steps
  <1> HIDE DEF a, e, d
  <1>2. q \in Int /\ q * d <= n /\ n < q * d + d
    BY <1>1, QuotientOf
  <1>3. e + d - 1 - a \in Int
    BY <1>1
  <1>4. g \in Int /\ g * d <= n + d - 1 /\ n + d - 1 < g * d + d
    BY <1>1, <1>3, QuotientOf
  <1> HIDE DEF n, g
  <1>5. n % d = n - q * d
    BY <1>1, RestOf
  <1> HIDE DEF q
  <1>6. q \in Nat
    <2>1. 0 * d = 0 /\ (0 < (q + 1) <=> 0 * d < (q + 1) * d) /\ (q + 1) * d = q * d + d
          /\ q * d \in Int
      BY <1>1, <1>2, Scaled, OneBetween
    <2> QED
      BY <1>1, <1>2, <2>1
  <1>7. q * d \in Int /\ g * d \in Int /\ (q + 1) * d = q * d + d
    BY <1>1, <1>2, <1>4, OneBetween
  <1>8. e < after
    BY <1>0, <1>1, <1>2, <1>7 DEF n
  <1>9. ASSUME NEW t \in Steps(params) PROVE t <= e
    <2>1. PICK k \in 0 .. q : t = a + k * d
      BY <1>0
    <2>2. k \in Int /\ k <= q
      BY <1>2, <2>1
    <2>3. k * d <= q * d /\ k * d \in Int
      BY <1>1, <1>2, <2>2, Scaled
    <2> QED
      BY <1>1, <1>2, <1>7, <2>1, <2>3 DEF n
  <1>10. ASSUME n % d = 0 PROVE Grid(params) = Steps(params)
    <2>1. (q - 1) * d = q * d - d
      BY <1>1, <1>2, OneBetween
    <2>2. (q - 1) * d < g * d /\ g * d < (q + 1) * d
      BY <1>1, <1>2, <1>4, <1>5, <1>7, <1>10, <2>1
    <2>3. g = q
      BY <1>1, <1>2, <1>4, <2>2, OneBetween
    <2> QED
      BY <1>0, <2>3
  <1>11. ASSUME n % d # 0 PROVE Grid(params) = Steps(params) \cup {after}
    <2>1. /\ ((q + 1) - 1) * d = (q + 1) * d - d
          /\ ((q + 1) + 1) * d = (q + 1) * d + d
      BY <1>1, <1>2, OneBetween
    <2>2. n % d \in Int /\ 0 <= n % d
      BY <1>1, <1>2, <1>5, <1>7
    <2>3. ((q + 1) - 1) * d < g * d /\ g * d < ((q + 1) + 1) * d
      BY <1>1, <1>2, <1>4, <1>5, <1>7, <1>11, <2>1, <2>2
    <2>4. g = q + 1
      BY <1>1, <1>2, <1>4, <2>3, OneBetween
    <2>5. 0 .. g = (0 .. q) \cup {q + 1}
      BY <1>6, <2>4
    <2> QED
      BY <1>0, <2>5
  <1> QED
    BY <1>8, <1>9, <1>10, <1>11 DEF n, a, e, d

(* sparseStepPhasePredicate and bucketed_argmax: when the step is longer    *)
(* than the lookback, a sample counts at one timestamp at most, which is    *)
(* the one bucketed_argmax gives it to, and it does exactly when it is near *)
(* the grid.  So none that counts is left unread, and the two strategies of *)
(* a selector's statement read the same samples for each timestamp.         *)
THEOREM SparseSamplesSuffice ==
    ASSUME NEW params, params.start \in Int, params.step \in Nat \ {0}, Lookback < params.step,
           NEW p, p.t \in Int, NEW offset \in Int, NEW k \in Int,
           NEW t, t = params.start + k * params.step
    PROVE  t - offset - Lookback <= p.t /\ p.t <= t - offset <=>
               IsNearGrid(p, offset, params) /\ t = NextTimestamp(p, offset, params)
PROOF
  <1> DEFINE d == params.step
             x == p.t + offset - params.start
             q == x \div d
             r == x % d
             late == x + d - 1
             n == late \div d
  <1>1. d \in Nat \ {0} /\ x \in Int /\ late \in Int /\ Lookback \in Nat /\ Lookback < d
    BY LookbackAssumption
  <1>2. t - offset - Lookback <= p.t /\ p.t <= t - offset <=>
            k * d - Lookback <= x /\ x <= k * d
    <2>1. k * d \in Int
      BY <1>1, Scaled
    <2> QED
      BY <1>1, <2>1
  <1>0. t = params.start + k * d
    OBVIOUS
  <1>3. IsNearGrid(p, offset, params) <=> r = 0 \/ r >= d - Lookback
    BY DEF IsNearGrid
  <1>4. NextTimestamp(p, offset, params) = params.start + n * d
    <2>1. late = p.t + offset - params.start + params.step - 1
      OBVIOUS
    <2> QED
      BY <2>1 DEF NextTimestamp
  <1> HIDE DEF d, x
  <1>5. q \in Int /\ r = x - q * d /\ 0 <= r /\ r < d
    BY <1>1, QuotientOf, RestOf
  <1>6. n \in Int /\ n * d <= late /\ late < n * d + d
    BY <1>1, QuotientOf
  <1> HIDE DEF q, r, n
  <1>7. k * d \in Int /\ q * d \in Int /\ n * d \in Int
    BY <1>1, <1>5, <1>6, OneBetween
  <1>8. t = params.start + n * d <=> k = n
    <2>1. k * d = n * d => k = n
      <3>1. (n - 1) * d = n * d - d /\ (n + 1) * d = n * d + d
        BY <1>1, <1>6, OneBetween
      <3> QED
        BY <1>1, <1>6, <1>7, <3>1, OneBetween
    <2> QED
      BY <1>7, <1>0, <2>1
  <1>9. ASSUME k * d - Lookback <= x, x <= k * d PROVE k = n
    <2>1. (n - 1) * d < k * d /\ k * d < (n + 1) * d
      <3>1. (n - 1) * d = n * d - d /\ (n + 1) * d = n * d + d
        BY <1>1, <1>6, OneBetween
      <3> QED
        BY <1>1, <1>6, <1>7, <1>9, <3>1
    <2> QED
      BY <1>1, <1>6, <2>1, OneBetween
  <1>10. n * d = IF r = 0 THEN q * d ELSE q * d + d
    <2>1. (q - 1) * d = q * d - d /\ (q + 1) * d = q * d + d
      BY <1>1, <1>5, OneBetween
    <2>2. CASE r = 0
      <3>1. (q - 1) * d < n * d /\ n * d < (q + 1) * d
        BY <1>1, <1>5, <1>6, <1>7, <2>1, <2>2
      <3>2. n = q
        BY <1>1, <1>5, <1>6, <3>1, OneBetween
      <3> QED
        BY <2>2, <3>2
    <2>3. CASE r # 0
      <3>1. /\ ((q + 1) - 1) * d = (q + 1) * d - d
            /\ ((q + 1) + 1) * d = (q + 1) * d + d
        BY <1>1, <1>5, OneBetween
      <3>2. ((q + 1) - 1) * d < n * d /\ n * d < ((q + 1) + 1) * d
        BY <1>1, <1>5, <1>6, <1>7, <2>1, <2>3, <3>1
      <3>3. n = q + 1
        BY <1>1, <1>5, <1>6, <3>2, OneBetween
      <3> QED
        BY <2>1, <2>3, <3>3
    <2> QED
      BY <2>2, <2>3
  <1>11. n * d - Lookback <= x /\ x <= n * d <=> r = 0 \/ r >= d - Lookback
    BY <1>1, <1>5, <1>7, <1>10
  <1> QED
    BY <1>2, <1>3, <1>4, <1>8, <1>9, <1>11

(* buildRangeWindowSelectorDirectAggregateSparsePerStepQuery: where          *)
(* ChooseRangeWindowAggregate has samples given to their timestamps by      *)
(* arithmetic, a sample is given to exactly the timestamps in whose windows *)
(* it is, a sample on the border between two windows to both.               *)
THEOREM SparseTimesAreWindows ==
    ASSUME NEW params, IsRange(params), NEW p, p.t \in Int, NEW func,
           NEW window, window.node = "window", window.range \in Nat,
           WindowStrategy(func, window, params) = "sparse"
    PROVE  SparseTimes(p, window.range, params) =
               {t \in Steps(params) : InWindow(p, t, window)}
PROOF
  <1> DEFINE a == params.start
             e == params.end
             d == params.step
             R == window.range
             x == p.t - a
             L == Max({x, 0})
             n == (L + d - 1) \div d
             next == a + n * d
             boundary == R = d /\ p.t >= a /\ x % d = 0
  <1>1. /\ a \in Int /\ e \in Int /\ d \in Nat \ {0} /\ a <= e
        /\ x \in Int /\ p.t = a + x
    BY DEF IsRange
  <1>2. window.offset = 0 /\ R <= d
    BY DEF WindowStrategy
  <1>3. SparseTimes(p, R, params) =
            {t \in {next} \cup {t \in {next + d} : boundary} :
                a <= t /\ t <= e /\ t - R <= p.t /\ p.t <= t}
    BY DEF SparseTimes
  <1>4. Steps(params) = {a + k * d : k \in {k \in Nat : a + k * d <= e}}
    <2>1. Steps(params) = Steps(OverRange(a, e, d))
      BY DEF Steps, OverRange
    <2> QED
      BY <1>1, <2>1, StepsOfRange
  <1>5. \A t \in Int : InWindow(p, t, window) <=> t - R <= p.t /\ p.t <= t
    BY <1>2 DEF InWindow
  <1>6. R \in Nat
    OBVIOUS
  <1> HIDE DEF a, e, d, R, x
  <1>7. L = (IF x >= 0 THEN x ELSE 0) /\ L \in Nat
    BY <1>1, LargerOf
  <1> HIDE DEF L
  <1>8. n \in Int /\ n * d <= L + d - 1 /\ L + d - 1 < n * d + d
    BY <1>1, <1>7, QuotientOf
  <1> HIDE DEF n
  <1>9. n * d \in Int /\ (n - 1) * d = n * d - d /\ (n + 1) * d = n * d + d
    BY <1>1, <1>8, OneBetween
  <1>10. n \in Nat
    <2>1. 0 * d = 0 /\ (-1 < n <=> (-1) * d < n * d) /\ (-1) * d = 0 - d
      <3>1. (0 - 1) * d = 0 * d - d /\ 0 * d = 0
        BY <1>1, OneBetween
      <3> QED
        BY <1>1, <1>8, <3>1, Scaled
    <2> QED
      BY <1>1, <1>7, <1>8, <1>9, <2>1
  <1>11. next \in Int /\ next + d = a + (n + 1) * d
    BY <1>1, <1>9
  <1>12. ASSUME NEW t \in SparseTimes(p, R, params)
         PROVE  t \in Steps(params) /\ InWindow(p, t, window)
    <2>1. /\ t = a + n * d \/ t = a + (n + 1) * d
          /\ t <= e /\ t - R <= p.t /\ p.t <= t
      BY <1>3, <1>11
    <2>2. t \in Int
      BY <1>1, <1>9, <2>1
    <2>3. n + 1 \in Nat
      BY <1>10
    <2>4. t \in Steps(params)
      BY <1>4, <1>10, <2>1, <2>3
    <2> QED
      BY <1>5, <2>1, <2>2, <2>4
  <1>13. ASSUME NEW t \in Steps(params), InWindow(p, t, window)
         PROVE  t \in SparseTimes(p, R, params)
    <2>1. PICK k \in Nat : t = a + k * d /\ a + k * d <= e
      BY <1>4
    <2>2. k * d \in Int /\ (0 <= k <=> 0 * d <= k * d) /\ 0 * d = 0
      BY <1>1, Scaled
    <2>3. 0 <= k * d
      BY <2>2
    <2>4. t \in Int /\ a <= t /\ t <= e /\ t - R <= p.t /\ p.t <= t
      BY <1>1, <1>5, <1>13, <2>1, <2>2, <2>3
    <2>5. k * d - R <= x /\ x <= k * d
      BY <1>1, <1>6, <2>1, <2>2, <2>4
    <2>6. (n - 1) * d < k * d
      BY <1>1, <1>7, <1>8, <1>9, <2>2, <2>3, <2>5
    <2>7. n - 1 < k
      BY <1>1, <1>8, <2>6, Scaled
    <2>8. k * d <= (n + 1) * d
      BY <1>1, <1>2, <1>6, <1>7, <1>8, <1>9, <2>2, <2>5
    <2>9. k <= n + 1
      BY <1>1, <1>8, <2>8, Scaled
    <2>10. CASE k = n
      BY <1>3, <2>1, <2>4, <2>10
    <2>11. CASE k = n + 1
      <3>1. x = n * d /\ R = d
        BY <1>1, <1>2, <1>6, <1>7, <1>8, <1>9, <1>10, <2>2, <2>3, <2>5, <2>11
      <3>2. x % d = 0
        <4> DEFINE q == x \div d
        <4>1. q \in Int /\ q * d <= x /\ x < q * d + d /\ x % d = x - q * d
          BY <1>1, QuotientOf, RestOf
        <4> HIDE DEF q
        <4>2. q * d \in Int /\ (q - 1) * d = q * d - d /\ (q + 1) * d = q * d + d
          BY <1>1, <4>1, OneBetween
        <4>3. (q - 1) * d < n * d /\ n * d < (q + 1) * d
          BY <1>1, <1>9, <3>1, <4>1, <4>2
        <4>4. n = q
          BY <1>1, <1>8, <4>1, <4>3, OneBetween
        <4> QED
          BY <1>1, <3>1, <4>1, <4>2, <4>4
      <3>3. x >= 0
        <4>1. 0 * d <= n * d /\ 0 * d = 0
          BY <1>1, <1>10, Scaled
        <4> QED
          BY <3>1, <4>1
      <3>4. boundary
        BY <1>1, <3>1, <3>2, <3>3
      <3>5. t = next + d
        BY <1>11, <2>1, <2>11
      <3> QED
        BY <1>3, <2>4, <3>4, <3>5
    <2> QED
      BY <1>8, <2>7, <2>9, <2>10, <2>11
  <1>14. SparseTimes(p, R, params) = {t \in Steps(params) : InWindow(p, t, window)}
    BY <1>12, <1>13
  <1> QED
    BY <1>14 DEF R

(* The timestamps a subquery's child is rendered over are the multiples of  *)
(* its resolution in the envelope of its windows.                           *)
LEMMA EnvelopeGrid ==
    ASSUME NEW plan, NEW params, Resolution(plan) \in Nat \ {0},
           NEW first, first = (IF params.mode = "range" THEN params.start ELSE params.t),
           NEW last, last = (IF params.mode = "range" THEN params.end ELSE params.t),
           NEW from \in Int, from = Anchor(plan.at, first, params) - plan.offset - plan.range,
           NEW to \in Int, to = Anchor(plan.at, last, params) - plan.offset
    PROVE  Grid(Envelope(plan, params)) =
               {u \in Int : from < u /\ u <= to /\ \E j \in Int : u = j * Resolution(plan)}
PROOF
  <1> DEFINE d == Resolution(plan)
             f == from \div d
             g == to \div d
             start == f * d + d
             end == g * d
             h == (end + d - 1 - start) \div d
  <1>1. Grid(Envelope(plan, params)) = {start + k * d : k \in 0 .. h}
    BY DEF Envelope, Resolution, OverRange, Grid
  <1>2. d \in Nat \ {0}
    OBVIOUS
  <1> HIDE DEF d
  <1>3. /\ f \in Int /\ g \in Int
        /\ \A j \in Int : j * d <= from <=> j <= f
        /\ \A j \in Int : j * d <= to <=> j <= g
    BY <1>2, QuotientOf, MultiplesUpTo
  <1> HIDE DEF f, g
  <1>4. /\ f * d \in Int /\ g * d \in Int /\ (f + 1) * d = f * d + d
        /\ (g - f) * d = g * d - f * d
    BY <1>2, <1>3, OneBetween, Scaled
  <1>5. end + d - 1 - start \in Int /\ end + d - 1 - start = (g - f) * d - 1
    BY <1>2, <1>4
  <1>6. h = g - f - 1
    <2> DEFINE c == g - f - 1
    <2>1. c \in Int /\ g - f \in Int /\ c + 1 = g - f
      BY <1>3
    <2>2. (c + 1) * d = c * d + d /\ c * d \in Int /\ (c - 1) * d = c * d - d
      BY <1>2, <2>1, OneBetween
    <2> DEFINE m == end + d - 1 - start
    <2>6. m \in Int /\ m = (g - f) * d - 1
      BY <1>5
    <2>7. h = m \div d
      OBVIOUS
    <2> HIDE DEF m
    <2>8. h \in Int /\ h * d <= m /\ m < h * d + d
      BY <1>2, <2>6, <2>7, QuotientOf
    <2> HIDE DEF h, c
    <2>3. /\ h \in Int /\ h * d <= (g - f) * d - 1 /\ (g - f) * d - 1 < h * d + d
          /\ h * d \in Int /\ (h + 1) * d = h * d + d
      BY <1>2, <2>1, <2>6, <2>8, OneBetween
    <2>4. h * d < (c + 1) * d /\ (c - 1) * d < h * d
      BY <1>2, <2>1, <2>2, <2>3
    <2>5. h = c
      BY <1>2, <2>1, <2>3, <2>4, OneBetween
    <2> QED
      BY <2>5 DEF c
  <1>7. ASSUME NEW k \in Int
        PROVE  start + k * d = (f + 1 + k) * d
    <2>1. (f + 1 + k) * d = (f + 1) * d + k * d
      BY <1>2, <1>3, Scaled
    <2> QED
      BY <1>4, <2>1
  <1> HIDE DEF h, start, end
  <1>8. ASSUME NEW j \in Int
        PROVE  /\ j * d \in Int
               /\ from < j * d /\ j * d <= to <=> f < j /\ j <= g
    <2>1. j * d \in Int
      BY <1>2, Scaled
    <2> QED
      BY <1>3, <2>1
  <1>9. ASSUME NEW k \in 0 .. h
        PROVE  /\ start + k * d \in Int /\ from < start + k * d /\ start + k * d <= to
               /\ \E j \in Int : start + k * d = j * d
    <2>1. k \in Int /\ f + 1 + k \in Int /\ f < f + 1 + k /\ f + 1 + k <= g
      BY <1>3, <1>6
    <2> QED
      BY <1>7, <1>8, <2>1
  <1>10. ASSUME NEW u \in Int, from < u, u <= to, NEW j \in Int, u = j * d
         PROVE  \E k \in 0 .. h : u = start + k * d
    <2>1. f < j /\ j <= g
      BY <1>8, <1>10
    <2>2. j - f - 1 \in 0 .. h /\ j - f - 1 \in Int /\ f + 1 + (j - f - 1) = j
      BY <1>3, <1>6, <2>1
    <2> QED
      BY <1>7, <1>10, <2>2
  <1>11. {start + k * d : k \in 0 .. h} =
             {u \in Int : from < u /\ u <= to /\ \E j \in Int : u = j * d}
    BY <1>9, <1>10
  <1> QED
    BY <1>1, <1>11 DEF d, start, h

(* A subquery as the parser lets it through, without an @ modifier.         *)
IsSubquery(plan) ==
    /\ plan.node = "subquery" /\ plan.at.kind = "none"
    /\ Resolution(plan) \in Nat \ {0} /\ plan.range \in Nat /\ plan.offset \in Int

(* subqueryRenderEnvelopeLogical: the statement evaluates a subquery's      *)
(* child once for all the windows of a request, and gives each timestamp    *)
(* those of the times that are in its window.  They are the times the local *)
(* executor, which goes through the windows one by one, evaluates the child *)
(* at: for one time, and for each of a range.                               *)
THEOREM SubqueryEnvelope ==
    ASSUME NEW plan, IsSubquery(plan)
    PROVE  /\ \A t \in Int : Grid(Envelope(plan, Instant(t))) = SubqueryTimes(plan, Instant(t))
           /\ \A params :
                  IsRange(params) /\ params.mode = "range" =>
                      \A t \in Steps(params) :
                          {u \in Grid(Envelope(plan, params)) : InWindow([t |-> u], t, plan)} =
                              SubqueryTimes(plan, Instant(t))
PROOF
  <1>1. ASSUME NEW t \in Int
        PROVE  SubqueryTimes(plan, Instant(t)) =
                   {u \in Int : /\ t - plan.offset - plan.range < u /\ u <= t - plan.offset
                                /\ \E j \in Int : u = j * Resolution(plan)}
    <2>1. WindowEnd(plan, Instant(t)) = t - plan.offset
      BY DEF WindowEnd, Anchor, Instant, IsSubquery
    <2>2. IsWindow(plan, Instant(t))
      BY <2>1 DEF IsWindow, IsSubquery
    <2> QED
      BY <2>1, <2>2, SubqueryWindow
  <1>2. ASSUME NEW t \in Int
        PROVE  Grid(Envelope(plan, Instant(t))) = SubqueryTimes(plan, Instant(t))
    <2>1. /\ Instant(t).mode = "instant" /\ Instant(t).t = t
          /\ Anchor(plan.at, t, Instant(t)) = t
      BY DEF Instant, Anchor, IsSubquery
    <2>2. t - plan.offset - plan.range \in Int /\ t - plan.offset \in Int
      BY DEF IsSubquery
    <2>3. Resolution(plan) \in Nat \ {0}
      BY DEF IsSubquery
    <2>4. Grid(Envelope(plan, Instant(t))) =
              {u \in Int : /\ t - plan.offset - plan.range < u /\ u <= t - plan.offset
                           /\ \E j \in Int : u = j * Resolution(plan)}
      BY <2>1, <2>2, <2>3, EnvelopeGrid
    <2> QED
      BY <1>1, <2>4
  <1>3. ASSUME NEW params, IsRange(params), params.mode = "range", NEW t \in Steps(params)
        PROVE  {u \in Grid(Envelope(plan, params)) : InWindow([t |-> u], t, plan)} =
                   SubqueryTimes(plan, Instant(t))
    <2> DEFINE from == params.start - plan.offset - plan.range
               to == params.end - plan.offset
    <2>1. t \in Int /\ params.start <= t /\ t <= params.end
      <3>1. Steps(params) = Steps(OverRange(params.start, params.end, params.step))
        BY DEF Steps, OverRange
      <3>4. Steps(params) = {params.start + k * params.step :
                                 k \in {k \in Nat : params.start + k * params.step <= params.end}}
        BY <1>3, <3>1, StepsOfRange DEF IsRange
      <3>2. PICK k \in Nat : t = params.start + k * params.step /\ t <= params.end
        BY <1>3, <3>4
      <3>3. k * params.step \in Int /\ 0 * params.step <= k * params.step /\ 0 * params.step = 0
        BY <1>3, Scaled DEF IsRange
      <3> QED
        BY <1>3, <3>2, <3>3 DEF IsRange
    <2>2. from \in Int /\ to \in Int /\ Resolution(plan) \in Nat \ {0}
      BY <1>3 DEF IsSubquery, IsRange
    <2>3. \A x : Anchor(plan.at, x, params) = x
      BY DEF Anchor, IsSubquery
    <2>4. Grid(Envelope(plan, params)) =
              {u \in Int : from < u /\ u <= to /\ \E j \in Int : u = j * Resolution(plan)}
      BY <1>3, <2>2, <2>3, EnvelopeGrid
    <2>5. \A u \in Int : InWindow([t |-> u], t, plan) <=>
                             t - plan.offset - plan.range < u /\ u <= t - plan.offset
      BY <2>1 DEF InWindow, IsSubquery
    <2>6. \A u \in Int : /\ t - plan.offset - plan.range < u => from < u
                         /\ u <= t - plan.offset => u <= to
      BY <1>3, <2>1 DEF IsSubquery, IsRange
    <2> HIDE DEF from, to
    <2> QED
      BY <1>1, <2>1, <2>4, <2>5, <2>6
  <1> QED
    BY <1>2, <1>3

-----------------------------------------------------------------------------
(* The recording rules that are loaded                                      *)

NamesOf(rules) == {rule.name : rule \in rules}

(* The names that one rule alone has, and that rule.                        *)
SingleNames(rules) ==
    {n \in NamesOf(rules) : \A a, b \in rules : a.name = n /\ b.name = n => a = b}

RuleNamed(rules, name) == CHOOSE rule \in rules : rule.name = name

(* What the registry has to hold of a set of rules: those that are alone    *)
(* with their name, and the names of the others.                            *)
RegistryOf(rules) ==
    [byName |-> [n \in SingleNames(rules) |-> RuleNamed(rules, n)],
     conflicts |-> NamesOf(rules) \ SingleNames(rules)]

(* Registry.add: a registry that holds what it has to of some rules still   *)
(* does when it is given one more, whichever it is.  So it depends on which *)
(* rules were loaded and on nothing else: not on the order of the files,    *)
(* not on how often a rule was met; and a conflict is reported of a name    *)
(* exactly when two rules have it.                                          *)
THEOREM RegistryIsOfItsRules ==
    ASSUME NEW rules, NEW rule
    PROVE  /\ RegistryOf({}) = EmptyRegistry
           /\ AddRule(RegistryOf(rules), rule) = RegistryOf(rules \cup {rule})
PROOF
  <1> DEFINE name == rule.name
             before == RegistryOf(rules)
             more == rules \cup {rule}
             after == RegistryOf(more)
  <1>0. \A S : SingleNames(S) \subseteq NamesOf(S)
    BY DEF SingleNames
  <1>1. RegistryOf({}) = EmptyRegistry
    <2>1. NamesOf({}) = {}
      BY DEF NamesOf
    <2>2. SingleNames({}) = {}
      BY <2>1 DEF SingleNames
    <2>3. [n \in {} |-> RuleNamed({}, n)] = <<>>
      OBVIOUS
    <2> QED
      BY <2>1, <2>2, <2>3 DEF RegistryOf, EmptyRegistry
  <1>2. /\ DOMAIN before.byName = SingleNames(rules)
        /\ before.conflicts = NamesOf(rules) \ SingleNames(rules)
        /\ before.byName = [n \in SingleNames(rules) |-> RuleNamed(rules, n)]
    BY DEF RegistryOf
  <1>3. /\ after.byName = [n \in SingleNames(more) |-> RuleNamed(more, n)]
        /\ after.conflicts = NamesOf(more) \ SingleNames(more)
        /\ after = [byName |-> after.byName, conflicts |-> after.conflicts]
    BY DEF RegistryOf
  <1>4. NamesOf(more) = NamesOf(rules) \cup {name}
    BY DEF NamesOf
  <1>5. ASSUME NEW n \in NamesOf(rules), n # name
        PROVE  (n \in SingleNames(more) <=> n \in SingleNames(rules)) /\ RuleNamed(more, n) = RuleNamed(rules, n)
    <2>1. n \in NamesOf(more)
      BY <1>4
    <2>2. n \in SingleNames(more) <=> n \in SingleNames(rules)
      BY <1>5, <2>1 DEF SingleNames
    <2>3. \A r : (r \in more /\ r.name = n) <=> (r \in rules /\ r.name = n)
      BY <1>5
    <2>4. RuleNamed(more, n) = RuleNamed(rules, n)
      BY <2>3 DEF RuleNamed
    <2> QED
      BY <2>1, <2>2, <2>4
  <1>6. ASSUME NEW n \in SingleNames(rules)
        PROVE  /\ RuleNamed(rules, n) \in rules /\ RuleNamed(rules, n).name = n
               /\ \A r \in rules : r.name = n => r = RuleNamed(rules, n)
    <2>1. PICK r \in rules : r.name = n
      BY DEF NamesOf, SingleNames
    <2>2. RuleNamed(rules, n) \in rules /\ RuleNamed(rules, n).name = n
      BY <2>1 DEF RuleNamed
    <2> QED
      BY <2>2 DEF SingleNames
  <1> HIDE DEF before, after
  <1>7. CASE name \in SingleNames(rules) /\ RuleNamed(rules, name) = rule
    <2>1. rule \in rules /\ more = rules
      BY <1>6, <1>7
    <2>2. before.byName[name] = rule
      BY <1>2, <1>7
    <2>3. AddRule(before, rule) = before
      BY <1>2, <1>7, <2>2 DEF AddRule
    <2> QED
      BY <1>1, <2>1, <2>3 DEF before
  <1>8. CASE name \in SingleNames(rules) /\ RuleNamed(rules, name) # rule
    <2>1. name \notin SingleNames(more)
      BY <1>6, <1>8 DEF SingleNames
    <2>2. SingleNames(more) = SingleNames(rules) \ {name}
      BY <1>0, <1>4, <1>5, <1>8, <2>1
    <2>3. before.byName[name] # rule
      BY <1>0, <1>2, <1>8
    <2>4. AddRule(before, rule) =
              [byName |-> [n \in SingleNames(rules) \ {name} |-> before.byName[n]],
               conflicts |-> before.conflicts \cup {name}]
      BY <1>0, <1>2, <1>8, <2>3 DEF AddRule
    <2>5. [n \in SingleNames(rules) \ {name} |-> before.byName[n]] = after.byName
      <3>1. \A n \in SingleNames(rules) \ {name} : before.byName[n] = RuleNamed(more, n)
        BY <1>0, <1>2, <1>5
      <3> QED
        BY <1>3, <2>2, <3>1
    <2>6. before.conflicts \cup {name} = after.conflicts
      BY <1>0, <1>2, <1>3, <1>4, <2>2
    <2> QED
      BY <1>1, <1>3, <2>4, <2>5, <2>6 DEF before, after
  <1>9. CASE name \notin SingleNames(rules) /\ name \in NamesOf(rules)
    <2>1. name \notin SingleNames(more)
      BY <1>9 DEF SingleNames
    <2>2. SingleNames(more) = SingleNames(rules)
      BY <1>0, <1>4, <1>5, <1>9, <2>1
    <2>3. AddRule(before, rule) = before
      BY <1>0, <1>2, <1>9 DEF AddRule
    <2>4. before.byName = after.byName
      <3>1. \A n \in SingleNames(rules) : RuleNamed(rules, n) = RuleNamed(more, n)
        BY <1>0, <1>5, <1>9
      <3> QED
        BY <1>0, <1>2, <1>3, <2>2, <3>1
    <2>5. before.conflicts = after.conflicts
      BY <1>0, <1>2, <1>3, <1>4, <1>9, <2>2
    <2>6. before = [byName |-> before.byName, conflicts |-> before.conflicts]
      BY DEF before, RegistryOf
    <2> QED
      BY <1>1, <1>3, <2>3, <2>4, <2>5, <2>6 DEF before, after
  <1>10. CASE name \notin NamesOf(rules)
    <2>1. \A r \in rules : r.name # name
      BY <1>10 DEF NamesOf
    <2>2. name \in SingleNames(more)
      BY <1>4, <2>1 DEF SingleNames
    <2>3. SingleNames(more) = SingleNames(rules) \cup {name}
      BY <1>0, <1>4, <1>5, <2>2
    <2>4. RuleNamed(more, name) = rule
      BY <2>1 DEF RuleNamed
    <2>5. AddRule(before, rule) =
              [before EXCEPT !.byName =
                  [n \in SingleNames(rules) \cup {name} |->
                      IF n = name THEN rule ELSE before.byName[n]]]
      BY <1>0, <1>2, <1>10 DEF AddRule
    <2>6. [n \in SingleNames(rules) \cup {name} |-> IF n = name THEN rule ELSE before.byName[n]]
              = after.byName
      <3>1. \A n \in SingleNames(rules) \cup {name} :
                (IF n = name THEN rule ELSE before.byName[n]) = RuleNamed(more, n)
        BY <1>0, <1>2, <1>5, <2>4
      <3> QED
        BY <1>3, <2>3, <3>1
    <2>7. before.conflicts = after.conflicts
      BY <1>0, <1>2, <1>3, <1>4, <2>3, <1>10
    <2>8. before = [byName |-> before.byName, conflicts |-> before.conflicts]
      BY DEF before, RegistryOf
    <2>9. AddRule(before, rule) = [byName |-> after.byName, conflicts |-> before.conflicts]
      BY <2>5, <2>6, <2>8
    <2> QED
      BY <1>1, <1>3, <2>7, <2>9 DEF before, after
  <1> QED
    BY <1>7, <1>8, <1>9, <1>10

(* A registry loaded in another order, or once more, is the same.           *)
COROLLARY LoadedInAnyOrder ==
    ASSUME NEW rules, NEW a, NEW b
    PROVE  /\ AddRule(AddRule(RegistryOf(rules), a), b) =
                  AddRule(AddRule(RegistryOf(rules), b), a)
           /\ a \in rules => AddRule(RegistryOf(rules), a) = RegistryOf(rules)
PROOF
  <1>1. (rules \cup {a}) \cup {b} = (rules \cup {b}) \cup {a}
    OBVIOUS
  <1>2. a \in rules => rules \cup {a} = rules
    OBVIOUS
  <1>3. /\ AddRule(RegistryOf(rules), a) = RegistryOf(rules \cup {a})
        /\ AddRule(RegistryOf(rules), b) = RegistryOf(rules \cup {b})
    BY RegistryIsOfItsRules
  <1>4. /\ AddRule(RegistryOf(rules \cup {a}), b) = RegistryOf((rules \cup {a}) \cup {b})
        /\ AddRule(RegistryOf(rules \cup {b}), a) = RegistryOf((rules \cup {b}) \cup {a})
    BY RegistryIsOfItsRules
  <1> QED
    BY <1>1, <1>2, <1>3, <1>4

(* The name is one of the labels.                                           *)
LEMMA NameIsLabel == MetricName \in Labels
PROOF
  <1> DEFINE n == Cardinality(Labels)
  <1>1. n \in Nat /\ Labels = 1 .. n /\ Labels # {}
    BY LabelsAssumption, FS_CardinalityType
  <1> QED
    BY <1>1 DEF MetricName

(* A rule as rulefmt lets it through: it sets labels that there are, and    *)
(* none of them is the name.                                                *)
IsRule(rule) ==
    /\ rule.name \in Nat
    /\ DOMAIN rule.labels \subseteq Labels \ {MetricName}
    /\ DOMAIN rule.groupLabels \subseteq Labels \ {MetricName}
    /\ \A l \in DOMAIN rule.labels : rule.labels[l] \in Nat
    /\ \A l \in DOMAIN rule.groupLabels : rule.groupLabels[l] \in Nat

(* The label set of a series once some of the labels of its rule are set.   *)
SetSoFar(metric, static, set) ==
    [l \in Labels |-> IF l \in set THEN static[l] ELSE metric[l]]

(* The label set a series is recorded with: the rule's name, the rule's own *)
(* labels before those of its group, and the series' own where the rule     *)
(* sets none.                                                               *)
RecordedAs(rule, metric) ==
    [l \in Labels |-> IF l = MetricName THEN rule.name
                      ELSE IF l \in DOMAIN rule.labels THEN rule.labels[l]
                      ELSE IF l \in DOMAIN rule.groupLabels THEN rule.groupLabels[l]
                      ELSE metric[l]]

(* The label_replace that sets a label, whatever was there.                 *)
SetTo(l, value) == [dst |-> l, src |-> Absent, except |-> {}, to |-> value]

(* wrapRuleExpression puts a label_replace around the rule's expression for *)
(* each label of the rule.  They set these labels in any order, and with    *)
(* the last of them a series has the labels it would have been recorded     *)
(* with.                                                                    *)
THEOREM RuleRelabels ==
    ASSUME NEW rule, IsRule(rule), NEW metric \in LabelSets,
           NEW static, static = StaticLabels(rule)
    PROVE  /\ SetSoFar(metric, static, {}) = metric
           /\ \A set : \A l \in DOMAIN static :
                  Relabelled(SetSoFar(metric, static, set), SetTo(l, static[l])) =
                      SetSoFar(metric, static, set \cup {l})
           /\ SetSoFar(metric, static, DOMAIN static) = RecordedAs(rule, metric)
PROOF
  <1>1. SetSoFar(metric, static, {}) = metric
    BY DEF SetSoFar, LabelSets
  <1>2. /\ DOMAIN static = {MetricName} \cup DOMAIN rule.labels \cup DOMAIN rule.groupLabels
        /\ \A l \in DOMAIN static :
               static[l] = IF l = MetricName THEN rule.name
                           ELSE IF l \in DOMAIN rule.labels THEN rule.labels[l]
                           ELSE rule.groupLabels[l]
        /\ \A l \in DOMAIN static : static[l] \in Nat
    BY DEF StaticLabels, IsRule
  <1>3. ASSUME NEW set, NEW l \in DOMAIN static
        PROVE  Relabelled(SetSoFar(metric, static, set), SetTo(l, static[l])) =
                   SetSoFar(metric, static, set \cup {l})
    <2> DEFINE M == SetSoFar(metric, static, set)
    <2>1. static[l] # -1
      BY <1>2
    <2>2. Relabelled(M, SetTo(l, static[l])) = [M EXCEPT ![l] = static[l]]
      BY <2>1 DEF Relabelled, SetTo
    <2>3. [M EXCEPT ![l] = static[l]] = [k \in Labels |-> IF k = l THEN static[l] ELSE M[k]]
      BY DEF SetSoFar
    <2>4. \A k \in Labels : (IF k = l THEN static[l] ELSE M[k]) =
                                (IF k \in set \cup {l} THEN static[k] ELSE metric[k])
      BY DEF SetSoFar
    <2> QED
      BY <2>2, <2>3, <2>4 DEF SetSoFar
  <1>4. SetSoFar(metric, static, DOMAIN static) = RecordedAs(rule, metric)
    BY <1>2 DEF SetSoFar, RecordedAs
  <1> QED
    BY <1>1, <1>3, <1>4

(* selectorStaticMismatch and applySelectorMatchers between them ask of a   *)
(* series what the selector asks of the recorded one: the matchers on the   *)
(* rule's labels without evaluating anything, the others of the labels the  *)
(* series has of its own.                                                   *)
THEOREM MatchersSplit ==
    ASSUME NEW static, DOMAIN static \subseteq Labels, NEW metric \in LabelSets,
           NEW matchers, \A i \in DOMAIN matchers : matchers[i].label \in Labels
    PROVE  (\A i \in DOMAIN matchers :
                Matches(matchers[i], SetSoFar(metric, static, DOMAIN static)))
           <=> /\ ~StaticMismatch(matchers, static)
               /\ \A i \in DOMAIN matchers :
                      matchers[i].label \notin DOMAIN static => Matches(matchers[i], metric)
PROOF
  <1> DEFINE recorded == SetSoFar(metric, static, DOMAIN static)
  <1>1. ASSUME NEW i \in DOMAIN matchers
        PROVE  Matches(matchers[i], recorded) <=>
                   IF matchers[i].label \in DOMAIN static THEN Matches(matchers[i], static)
                   ELSE Matches(matchers[i], metric)
    BY DEF Matches, SetSoFar
  <1> HIDE DEF recorded
  <1>2. StaticMismatch(matchers, static) <=>
            \E i \in DOMAIN matchers :
                matchers[i].label \in DOMAIN static /\ ~Matches(matchers[i], static)
    BY DEF StaticMismatch
  <1> QED
    BY <1>1, <1>2 DEF recorded

(* applySelectorMatchers: the join it makes of an equality matcher lets     *)
(* through just the samples the matcher matches.                            *)
THEOREM MatcherJoin ==
    ASSUME NEW label \in Labels, NEW value \in Nat, NEW samples, NEW t, NEW v,
           NEW m, m = [OneToOne EXCEPT !.card = "many-to-many", !.on = TRUE, !.labels = {label}],
           NEW one, one = <<Sample(Relabelled(NoLabels, SetTo(label, value)), t, v)>>,
           NEW sigs, sigs = {GroupLabels(metric, m) : metric \in Metrics(one)}
    PROVE  /\ ApplySetOperator("and", samples, one, m) =
                  Vector(SelectSeq(samples, LAMBDA s : GroupLabels(s.metric, m) \in sigs))
           /\ \A metric : GroupLabels(metric, m) \in sigs <=>
                              Matches([label |-> label, type |-> "=", values |-> {value}], metric)
PROOF
  <1> DEFINE told == Relabelled(NoLabels, SetTo(label, value))
  <1>1. \A metric : GroupLabels(metric, m) = Keep(metric, {label})
    BY DEF GroupLabels, OneToOne
  <1>2. told[label] = value
    <2>1. value # -1
      OBVIOUS
    <2>2. told = [NoLabels EXCEPT ![label] = value]
      BY <2>1 DEF Relabelled, SetTo
    <2> QED
      BY <2>2 DEF NoLabels
  <1>3. Metrics(one) = {told}
    BY DEF Metrics, Sample
  <1> HIDE DEF told
  <1>4. sigs = {Keep(told, {label})}
    BY <1>1, <1>3
  <1>5. ASSUME NEW metric
        PROVE  GroupLabels(metric, m) \in sigs <=>
                   Matches([label |-> label, type |-> "=", values |-> {value}], metric)
    <2>1. Keep(metric, {label})[label] = metric[label] /\ Keep(told, {label})[label] = value
      BY <1>2 DEF Keep
    <2>2. metric[label] = value => Keep(metric, {label}) = Keep(told, {label})
      BY <1>2 DEF Keep
    <2>3. Matches([label |-> label, type |-> "=", values |-> {value}], metric) <=>
              metric[label] = value
      BY DEF Matches
    <2> QED
      BY <1>1, <1>4, <2>1, <2>2, <2>3
  <1>6. m.card = "many-to-many" /\ m.fillLHS \o m.fillRHS = <<>>
    BY DEF OneToOne
  <1>7. ApplySetOperator("and", samples, one, m) =
            Vector(SelectSeq(samples, LAMBDA s : GroupLabels(s.metric, m) \in sigs))
    BY <1>6 DEF ApplySetOperator
  <1> QED
    BY <1>5, <1>7

-----------------------------------------------------------------------------
(* Operators written down twice: in Go, and in SQL                          *)

(* A set of naturals that is not empty has a least number.                 *)
LEMMA LeastNumber ==
    ASSUME NEW S \in SUBSET Nat, S # {}
    PROVE  Min(S) \in S /\ \A y \in S : Min(S) <= y
PROOF
  <1>1. PICK x \in S : \A y \in S : ~ (<<y, x>> \in OpToRel(<, Nat))
    BY WFMin, NatLessThanWellFounded
  <1>2. ASSUME NEW y \in S PROVE x <= y
    <2>1. ~ (<<y, x>> \in {ss \in Nat \X Nat : ss[1] < ss[2]})
      BY <1>1 DEF OpToRel
    <2>2. <<y, x>> \in Nat \X Nat
      OBVIOUS
    <2> QED
      BY <2>1, <2>2
  <1> QED
    BY <1>2 DEF Min

(* buildBinaryResultTagsExpr, buildBinaryValueExpr: the row a statement has *)
(* for two rows it joins is what the local executor makes of their pair:    *)
(* the same match group, the same labels, the same value, and no row just   *)
(* where the pair is filtered out.  The code takes the name off before the  *)
(* matched labels are kept in the one and after it in the other, and says   *)
(* in another way which side is which.                                      *)
THEOREM RowIsPairResult ==
    ASSUME NEW op, NEW m, NEW bool \in BOOLEAN, NEW p,
           NEW result, result = PairResult(op, p, m, bool)
    PROVE  /\ \A metric : JoinGroup(metric, m) = GroupLabels(metric, m)
           /\ JoinResultTags(p.left.metric, p.right.metric, op, m, bool) = result.sample.metric
           /\ JoinedValue(op, LeftOperand(p, m).v, RightOperand(p, m).v, bool) =
                  IF PairFilteredOut(op, p, m, bool) THEN <<>> ELSE <<result.sample.v>>
PROOF
  <1> DEFINE L == p.left.metric
             R == p.right.metric
             a == LeftOperand(p, m).v
             b == RightOperand(p, m).v
  <1>1. \A metric : JoinGroup(metric, m) = GroupLabels(metric, m)
    BY DEF JoinGroup, GroupLabels
  <1>2. result.sample.metric = ResultMetric(L, R, op, m, bool)
    BY DEF PairResult, Sample
  <1>3. JoinResultTags(L, R, op, m, bool) = ResultMetric(L, R, op, m, bool)
    <2>1. \A S : DropMetricName(Keep(L, S)) = Keep(DropMetricName(L), S)
      BY DEF DropMetricName, Keep
    <2> QED
      BY <2>1 DEF JoinResultTags, ResultMetric, ScalarResultMetric
  <1>4. result.sample.v = ScalarResult(op, a, b, FALSE, bool)
    BY DEF PairResult, Sample
  <1>5. PairFilteredOut(op, p, m, bool) <=> FilteredOut(op, a, b, FALSE, bool)
    BY DEF PairFilteredOut
  <1> HIDE DEF L, R, a, b
  <1>6. IsComparison(op) => ApplyScalarBinary(op, a, b) \in {0, 1}
    BY DEF ApplyScalarBinary, BoolToFloat
  <1>7. JoinedValue(op, a, b, bool) =
            IF FilteredOut(op, a, b, FALSE, bool) THEN <<>>
            ELSE <<ScalarResult(op, a, b, FALSE, bool)>>
    BY <1>6 DEF JoinedValue, FilteredOut, ScalarResult, Compared
  <1> QED
    BY <1>1, <1>2, <1>3, <1>4, <1>5, <1>7 DEF L, R, a, b

(* Pairs of two vectors' samples by their match groups, none of them twice. *)
ArePairsOf(pairs, many, one, m) ==
    \E at : /\ DOMAIN at = DOMAIN pairs
            /\ \A i \in DOMAIN pairs :
                   /\ at[i] \in (DOMAIN many) \X (DOMAIN one)
                   /\ pairs[i].left = many[at[i][1]]
                   /\ pairs[i].right = one[at[i][2]]
                   /\ IsPair(pairs[i], m)
            /\ \A i, j \in DOMAIN pairs : at[i] = at[j] => i = j

(* BuildInstantVectorJoinSQL refuses two rows of one label set, wherever    *)
(* they come from; the local executor refuses two results of one match      *)
(* group, of one label set or, when one is matched with one, of any.  Where *)
(* no side is ambiguous for the statement the two refuse the same joins.    *)
(* (The exception is that of MatchedResultsUnique.)  So what the statement  *)
(* alone refuses is ambiguous sides.                                        *)
THEOREM JoinsRefuseAlike ==
    ASSUME NEW op, NEW m, IsMatching(m), NEW bool, ~LosesItsGroup(op, m, bool),
           NEW many, NEW one, NEW pairs, ArePairsOf(pairs, many, one, m),
           NEW results, results = [i \in DOMAIN pairs |-> PairResult(op, pairs[i], m, bool)],
           IF m.card = "one-to-many" THEN ~AmbiguousSides(one, many, m)
                                     ELSE ~AmbiguousSides(many, one, m)
    PROVE  Clash(results, m) <=> HasTwins([i \in DOMAIN results |-> results[i].sample])
PROOF
  <1> DEFINE samples == [i \in DOMAIN results |-> results[i].sample]
  <1>1. \A metric : JoinGroup(metric, m) = GroupLabels(metric, m)
    BY DEF JoinGroup, GroupLabels
  <1>2. PICK at : /\ DOMAIN at = DOMAIN pairs
                  /\ \A i \in DOMAIN pairs :
                         /\ at[i] \in (DOMAIN many) \X (DOMAIN one)
                         /\ pairs[i].left = many[at[i][1]]
                         /\ pairs[i].right = one[at[i][2]]
                         /\ IsPair(pairs[i], m)
                  /\ \A i, j \in DOMAIN pairs : at[i] = at[j] => i = j
    BY DEF ArePairsOf
  <1>3. HasTwins(samples) => Clash(results, m)
    BY <1>2, MatchedResultsUnique
  <1>4. ASSUME m.card # "one-to-one", Clash(results, m)
        PROVE  HasTwins(samples)
    BY <1>4 DEF Clash, HasTwins
  <1>5. ASSUME m.card = "one-to-one", NEW i \in DOMAIN pairs, NEW j \in DOMAIN pairs, i # j,
               results[i].sig = results[j].sig
        PROVE  FALSE
    <2>1. ~Ambiguous(many, m) /\ ~Ambiguous(one, m)
      BY <1>5 DEF AmbiguousSides
    <2>2. \A k \in DOMAIN pairs :
              /\ results[k].sig = GroupLabels(pairs[k].left.metric, m)
              /\ results[k].sig = GroupLabels(pairs[k].right.metric, m)
      BY <1>2 DEF PairResult, IsPair
    <2>3. at[i][1] = at[j][1]
      BY <1>1, <1>2, <1>5, <2>1, <2>2 DEF Ambiguous
    <2>4. at[i][2] = at[j][2]
      BY <1>1, <1>2, <1>5, <2>1, <2>2 DEF Ambiguous
    <2>5. at[i] = at[j]
      BY <1>2, <2>3, <2>4
    <2> QED
      BY <1>2, <1>5, <2>5
  <1>6. DOMAIN results = DOMAIN pairs
    OBVIOUS
  <1>7. m.card = "one-to-one" => ~Clash(results, m)
    BY <1>5, <1>6 DEF Clash
  <1> QED
    BY <1>3, <1>4, <1>7

(* BuildInstantVectorSetSQL answers a set operation as the local executor   *)
(* does, sample for sample.                                                 *)
THEOREM SetOperationsAgree ==
    ASSUME NEW op \in {"and", "or", "unless"}, NEW lhs, NEW rhs,
           NEW m, m.card = "many-to-many", m.fillLHS = <<>>, m.fillRHS = <<>>
    PROVE  SetRows(op, lhs, rhs, m) = ApplySetOperator(op, lhs, rhs, m)
PROOF
  <1>1. m.fillLHS \o m.fillRHS = <<>>
    OBVIOUS
  <1> QED
    BY <1>1 DEF SetRows, ApplySetOperator, JoinGroup, GroupLabels

(* buildAggregationTagsExpr: rows are grouped as samples are bucketed: the  *)
(* same groups in the same order with the same members, each in the order   *)
(* it came in.  So count and group, which ask nothing of the values, are    *)
(* answered alike.                                                          *)
THEOREM GroupsAgree ==
    ASSUME NEW rows, NEW agg
    PROVE  /\ Grouped(rows, agg) =
                  [i \in DOMAIN BucketKeys(rows, agg) |->
                      [tags |-> BucketKeys(rows, agg)[i],
                       rows |-> Bucket(rows, BucketKeys(rows, agg)[i], agg)]]
           /\ \A t : agg.op \in {"count", "group"} =>
                  GroupedRows(rows, agg, t) = Vector(AggregateInstant(rows, agg, t))
PROOF
  <1> DEFINE groups == Ordered({AggregationTags(metric, agg) : metric \in Metrics(rows)}, KeyLess)
             own(key) == SelectSeq(rows, LAMBDA r : AggregationTags(r.metric, agg) = key)
             keys == BucketKeys(rows, agg)
  <1>1. groups = keys
    BY DEF BucketKeys, AggregationTags, AggregationMetric
  <1>2. Grouped(rows, agg) =
            [i \in DOMAIN groups |-> [tags |-> groups[i], rows |-> own(groups[i])]]
    BY DEF Grouped
  <1>3. \A key : own(key) = Bucket(rows, key, agg)
    BY DEF Bucket, AggregationTags, AggregationMetric
  <1> HIDE DEF groups, own, keys
  <1>4. Grouped(rows, agg) =
            [i \in DOMAIN keys |-> [tags |-> keys[i], rows |-> Bucket(rows, keys[i], agg)]]
    BY <1>1, <1>2, <1>3
  <1>5. ASSUME NEW t, agg.op \in {"count", "group"}
        PROVE  GroupedRows(rows, agg, t) = Vector(AggregateInstant(rows, agg, t))
    <2> DEFINE answer(i) == Sample(keys[i], t, Reduce(agg.op, Values(Bucket(rows, keys[i], agg))))
               G == Grouped(rows, agg)
    <2>1. \A values : AggregationValue(agg.op, values) = Reduce(agg.op, values)
      BY <1>5 DEF AggregationValue, Reduce
    <2>2. DOMAIN G = DOMAIN keys
      BY <1>4
    <2>3. \A i \in DOMAIN keys :
              G[i].tags = keys[i] /\ G[i].rows = Bucket(rows, keys[i], agg)
      BY <1>4
    <2> HIDE DEF G
    <2>4. GroupedRows(rows, agg, t) =
              Vector([i \in DOMAIN G |->
                  Sample(G[i].tags, t, AggregationValue(agg.op, Values(G[i].rows)))])
      BY DEF GroupedRows, G
    <2>5. [i \in DOMAIN G |-> Sample(G[i].tags, t, AggregationValue(agg.op, Values(G[i].rows)))] =
              [i \in DOMAIN keys |-> answer(i)]
      BY <2>1, <2>2, <2>3
    <2>6. AggregateInstant(rows, agg, t) = [i \in DOMAIN keys |-> answer(i)]
      BY DEF AggregateInstant, keys
    <2> QED
      BY <2>4, <2>5, <2>6
  <1> QED
    BY <1>4, <1>5 DEF keys

(* buildCountValuesMutatedTagsExpr: a row is counted with the group the     *)
(* sample is counted with, unless they are grouped by the name, which the   *)
(* statement takes off: then it is the same only for a sample without one.  *)
THEOREM ValueGroupsAgree ==
    ASSUME NEW metric \in LabelSets, NEW v \in Int, NEW label \in Labels,
           NEW agg, agg.without \in BOOLEAN,
           NEW counted, counted = [metric EXCEPT ![label] = FormatValue(v)],
           NEW tags, tags = WithValueLabel(metric, v, label)
    PROVE  AggregationTags(tags, agg) = AggregationMetric(counted, agg.grouping, agg.without) <=>
               \/ agg.without \/ MetricName \notin agg.grouping
               \/ label = MetricName \/ metric[MetricName] = Absent
PROOF
  <1> DEFINE kept == IF agg.without THEN Labels \ (agg.grouping \cup {MetricName}) ELSE agg.grouping
             mine == AggregationTags(tags, agg)
             theirs == AggregationMetric(counted, agg.grouping, agg.without)
  <1>1. MetricName \in Labels
    BY NameIsLabel
  <1>2. mine = [l \in Labels |-> IF l \in kept THEN tags[l] ELSE Absent]
    BY DEF AggregationTags, Keep
  <1>3. theirs = [l \in Labels |-> IF l \in kept THEN counted[l] ELSE Absent]
    BY DEF AggregationMetric, Keep
  <1>4. \A l \in Labels : counted[l] = IF l = label THEN FormatValue(v) ELSE metric[l]
    BY DEF LabelSets
  <1>5. \A l \in Labels : tags[l] = IF l = label THEN FormatValue(v)
                                    ELSE IF l = MetricName THEN Absent ELSE metric[l]
    BY DEF WithValueLabel, DropMetricName, Keep
  <1> HIDE DEF kept, mine, theirs
  <1>6. mine = theirs <=> \A l \in Labels : l \in kept => tags[l] = counted[l]
    BY <1>2, <1>3
  <1>7. mine = theirs <=> (MetricName \in kept /\ label # MetricName => metric[MetricName] = Absent)
    BY <1>1, <1>4, <1>5, <1>6
  <1>8. MetricName \in kept <=> ~agg.without /\ MetricName \in agg.grouping
    BY <1>1 DEF kept
  <1> QED
    BY <1>7, <1>8 DEF mine, theirs

(* selectionAggregationOrder and buildSortOrderBy order rows as the local   *)
(* executor's comparisons order samples.  The one difference is what a      *)
(* sort_desc does with equal values: the statement turns the order of the   *)
(* labels round with that of the values, the executor does not.             *)
THEOREM OrdersAgree ==
    ASSUME NEW a \in Samples, NEW b \in Samples,
           NEW labels \in Seq(Labels)
    PROVE  /\ \A op \in {"topk", "bottomk"} : SelectionOrder(op, a, b) <=> SampleLess(op, a, b)
           /\ SelectionOrder("limitk", a, b) <=> KeyLess(a.metric, b.metric)
           /\ RowsBefore("sort", labels, a, b) <=> ByValue(a, b, FALSE)
           /\ RowsBefore("sort_desc", labels, a, b) <=>
                  IF a.v = b.v THEN KeyLess(b.metric, a.metric) ELSE ByValue(a, b, TRUE)
           /\ RowsBefore("sort_by_label", labels, a, b) <=> ByLabels(a, b, labels, FALSE)
           /\ RowsBefore("sort_by_label_desc", labels, a, b) <=> ByLabels(a, b, labels, TRUE)
PROOF
  <1> DEFINE differing == {i \in DOMAIN labels : a.metric[labels[i]] # b.metric[labels[i]]}
             first == labels[Min(differing)]
  <1>1. \A op \in {"topk", "bottomk"} : SelectionOrder(op, a, b) <=> SampleLess(op, a, b)
    BY DEF SelectionOrder, SampleLess
  <1>2. SelectionOrder("limitk", a, b) <=> KeyLess(a.metric, b.metric)
    BY DEF SelectionOrder
  <1>3. RowsBefore("sort", labels, a, b) <=> ByValue(a, b, FALSE)
    BY DEF RowsBefore, ByValue, SortsByValue
  <1>4. RowsBefore("sort_desc", labels, a, b) <=>
            IF a.v = b.v THEN KeyLess(b.metric, a.metric) ELSE ByValue(a, b, TRUE)
    BY DEF RowsBefore, ByValue, SortsByValue
  <1>5. a.metric \in LabelSets /\ b.metric \in LabelSets
    BY DEF Samples
  <1>6. /\ ~KeyLess(a.metric, a.metric)
        /\ a.metric # b.metric => (KeyLess(b.metric, a.metric) <=> ~KeyLess(a.metric, b.metric))
    BY <1>5, KeyOrder
  <1>7. /\ RowsBefore("sort_by_label", labels, a, b) <=>
               IF differing = {} THEN KeyLess(a.metric, b.metric)
               ELSE a.metric[first] < b.metric[first]
        /\ RowsBefore("sort_by_label_desc", labels, a, b) <=>
               IF differing = {} THEN KeyLess(b.metric, a.metric)
               ELSE a.metric[first] > b.metric[first]
    BY DEF RowsBefore, SortsByValue
  <1>8. ASSUME differing # {}
        PROVE  /\ a.metric # b.metric
               /\ a.metric[first] \in Nat /\ b.metric[first] \in Nat
               /\ a.metric[first] # b.metric[first]
    <2>1. Min(differing) \in differing
      <3>1. differing \in SUBSET Nat
        BY DEF differing
      <3> HIDE DEF differing
      <3> QED
        BY <1>8, <3>1, LeastNumber
    <2> QED
      <3>1. \A i \in differing : /\ labels[i] \in Labels
                                 /\ a.metric[labels[i]] # b.metric[labels[i]]
        OBVIOUS
      <3> HIDE DEF differing
      <3>2. first \in Labels /\ a.metric[first] # b.metric[first]
        BY <2>1, <3>1 DEF first
      <3> QED
        BY <1>5, <3>2 DEF LabelSets
  <1> HIDE DEF first
  <1>9. \A descending \in BOOLEAN :
            ByLabels(a, b, labels, descending) <=>
                /\ a.metric # b.metric
                /\ IF differing = {} THEN KeyLess(a.metric, b.metric) # descending
                   ELSE (a.metric[first] < b.metric[first]) # descending
    BY DEF ByLabels, first
  <1> HIDE DEF differing
  <1>10. ASSUME differing = {}
         PROVE  /\ RowsBefore("sort_by_label", labels, a, b) <=> ByLabels(a, b, labels, FALSE)
                /\ RowsBefore("sort_by_label_desc", labels, a, b) <=> ByLabels(a, b, labels, TRUE)
    <2>1. CASE a.metric = b.metric
      BY <1>6, <1>7, <1>9, <1>10, <2>1
    <2>2. CASE a.metric # b.metric
      <3>1. KeyLess(b.metric, a.metric) \in BOOLEAN /\ KeyLess(a.metric, b.metric) \in BOOLEAN
        BY DEF KeyLess
      <3>2. ByLabels(a, b, labels, FALSE) <=> KeyLess(a.metric, b.metric)
        BY <1>9, <1>10, <2>2, <3>1
      <3>3. ByLabels(a, b, labels, TRUE) <=> ~KeyLess(a.metric, b.metric)
        BY <1>9, <1>10, <2>2, <3>1
      <3> QED
        BY <1>6, <1>7, <1>10, <2>2, <3>2, <3>3
    <2> QED
      BY <2>1, <2>2
  <1>11. ASSUME differing # {}
         PROVE  /\ RowsBefore("sort_by_label", labels, a, b) <=> ByLabels(a, b, labels, FALSE)
                /\ RowsBefore("sort_by_label_desc", labels, a, b) <=> ByLabels(a, b, labels, TRUE)
    <2> DEFINE x == a.metric[first]
               y == b.metric[first]
    <2>1. a.metric # b.metric /\ x \in Nat /\ y \in Nat /\ x # y
      BY <1>8, <1>11
    <2>2. /\ ByLabels(a, b, labels, FALSE) <=> ((x < y) # FALSE)
          /\ ByLabels(a, b, labels, TRUE) <=> ((x < y) # TRUE)
      BY <1>9, <1>11, <2>1
    <2>3. /\ RowsBefore("sort_by_label", labels, a, b) <=> x < y
          /\ RowsBefore("sort_by_label_desc", labels, a, b) <=> x > y
      BY <1>7, <1>11
    <2> HIDE DEF x, y
    <2>4. CASE x < y
      <3>1. (x < y) = TRUE /\ ~(x > y)
        BY <2>1, <2>4
      <3> QED
        BY <2>2, <2>3, <3>1
    <2>5. CASE x > y
      <3>1. (x < y) = FALSE
        BY <2>1, <2>5
      <3> QED
        BY <2>2, <2>3, <2>5, <3>1
    <2>6. x < y \/ x > y
      BY <2>1
    <2> QED
      BY <2>4, <2>5, <2>6
  <1> QED
    BY <1>1, <1>2, <1>3, <1>4, <1>10, <1>11
=============================================================================
