------------------------------ MODULE DataLemmas ------------------------------
(***************************************************************************)
(* Induction over data, for the proofs about what a fold or a largest      *)
(* element of a set is.  The induction theorems of the library have an     *)
(* operator as their parameter; these lemmas have a set instead, so that   *)
(* they can be cited like any other fact.  They rest on the                *)
(* well-foundedness of strict inclusion between finite sets.               *)
(***************************************************************************)
EXTENDS Integers, FiniteSetsExt, FiniteSetTheorems, WellFoundedInduction, TLAPS

\* A set of numbers that is not empty has a least one.
LEMMA LeastNumber ==
  ASSUME NEW S, S \subseteq Nat, S # {}
  PROVE  \E n \in S : \A k \in S : n <= k
<1> DEFINE T == {0..n : n \in S}
           R == StrictSubsetOrdering(Nat)
<1>1. IsWellFoundedOn(R, FiniteSubsetsOf(Nat))
  BY FS_StrictSubsetOrderingWellFounded
<1>2. \A n \in S : 0..n \in FiniteSubsetsOf(Nat)
  BY FS_Interval DEF FiniteSubsetsOf
<1>3. T \subseteq FiniteSubsetsOf(Nat) /\ T # {}
  BY <1>2
<1> HIDE DEF T, R
<1>4. PICK t \in T : \A u \in T : ~ (<<u, t>> \in R)
  BY <1>1, <1>3, WFMin
<1>5. PICK n \in S : t = 0..n
  BY DEF T
<1>6. ASSUME NEW k \in S PROVE n <= k
  <2>1. <<0..k, 0..n>> \notin R
    BY <1>4, <1>5 DEF T
  <2>2. SUFFICES ASSUME k < n PROVE FALSE
    OBVIOUS
  <2>3. 0..k \subseteq 0..n /\ 0..k # 0..n
    <3>1. n \in 0..n /\ n \notin 0..k
      BY <2>2
    <3> QED BY <2>2, <3>1
  <2>4. 0..k \in SUBSET Nat /\ 0..n \in SUBSET Nat
    OBVIOUS
  <2> QED BY <2>1, <2>3, <2>4 DEF R, StrictSubsetOrdering
<1> QED BY <1>6

\* Induction: a set with 0 and with the successor of each of its numbers has them all.
LEMMA SetInduction ==
  ASSUME NEW S, 0 \in S, \A n \in Nat : n \in S => n + 1 \in S
  PROVE  Nat \subseteq S
<1> SUFFICES ASSUME Nat \ S # {} PROVE FALSE
  OBVIOUS
<1>1. PICK n \in Nat \ S : \A k \in Nat \ S : n <= k
  BY LeastNumber
<1>2. n # 0
  BY <1>1
<1>3. n - 1 \in Nat /\ n - 1 \notin Nat \ S
  BY <1>1, <1>2
<1>4. n - 1 + 1 \in S
  BY <1>3
<1> QED BY <1>1, <1>3, <1>4

\* Max is the largest element of a bounded set of numbers.
LEMMA LargestNumber ==
  ASSUME NEW S, S \subseteq Nat, S # {}, NEW b \in Nat, \A k \in S : k <= b
  PROVE  Max(S) \in S /\ \A k \in S : Max(S) >= k
<1> DEFINE B == {n \in Nat : \A k \in S : k <= n}
<1>1. B \subseteq Nat /\ b \in B
  OBVIOUS
<1>2. PICK n \in B : \A m \in B : n <= m
  <2> HIDE DEF B
  <2> QED BY <1>1, LeastNumber
<1>3. n \in S
  <2>1. SUFFICES ASSUME n \notin S PROVE FALSE
    OBVIOUS
  <2>2. PICK k \in S : TRUE
    OBVIOUS
  <2>3. n # 0
    BY <2>1, <2>2
  <2>4. n - 1 \in Nat /\ \A j \in S : j <= n - 1
    BY <2>1, <2>3
  <2> QED BY <1>2, <2>4
<1>4. \A k \in S : n >= k
  OBVIOUS
<1> QED BY <1>3, <1>4 DEF Max

\* The largest of the first n numbers' subsets, and the set without it.
LEMMA LargestBelow ==
  ASSUME NEW n \in Nat, NEW s \in SUBSET (1..n), s # {}
  PROVE  /\ Max(s) \in s /\ Max(s) \in 1..n
         /\ s \ {Max(s)} \in SUBSET (1..(Max(s) - 1))
<1>1. s \subseteq Nat /\ \A k \in s : k <= n
  OBVIOUS
<1>2. Max(s) \in s /\ \A k \in s : Max(s) >= k
  BY <1>1, LargestNumber
<1>3. PICK m \in 1..n : m = Max(s) /\ m \in s /\ \A k \in s : m >= k
  BY <1>2
<1>4. ASSUME NEW j \in s, j # m PROVE j \in 1..(m - 1)
  <2>1. j \in 1..n /\ m >= j
    BY <1>3
  <2> QED BY <1>4, <2>1
<1> QED BY <1>3, <1>4

LEMMA LargestOfFirst ==
  ASSUME NEW n \in Nat, n # 0
  PROVE  Max(1..n) = n /\ (1..n) \ {n} = 1..(n - 1)
<1>1. 1..n \in SUBSET (1..n) /\ n \in 1..n
  OBVIOUS
<1>2. Max(1..n) \in 1..n /\ (1..n) \ {Max(1..n)} \subseteq 1..(Max(1..n) - 1)
  BY <1>1, LargestBelow
<1>3. PICK m \in 1..n : m = Max(1..n)
  BY <1>2
<1>4. n = m \/ n \in 1..(m - 1)
  BY <1>1, <1>2, <1>3
<1> QED BY <1>3, <1>4

\* The function a fold from the left computes on, on the subsets of its indices.
FoldOn(g, n, base, step) ==
  g = [s \in SUBSET (1..n) |->
         IF s = {} THEN base ELSE step[<<g[s \ {Max(s)}], Max(s)>>]]

\* There is one.
LEMMA FoldExists ==
  ASSUME NEW N \in Nat, NEW T, NEW base \in T, NEW step \in [T \X (1..N) -> T]
  PROVE  \E g \in [SUBSET (1..N) -> T] : FoldOn(g, N, base, step)
<1> DEFINE Can(n) == \E g \in [SUBSET (1..n) -> T] : FoldOn(g, n, base, step)
           S == {n \in Nat : n <= N => Can(n)}
<1>1. Can(0)
  <2> DEFINE g == [s \in SUBSET (1..0) |-> base]
  <2>1. \A s \in SUBSET (1..0) : s = {}
    OBVIOUS
  <2>2. g \in [SUBSET (1..0) -> T]
    OBVIOUS
  <2>3. g = [s \in SUBSET (1..0) |->
              IF s = {} THEN base ELSE step[<<g[s \ {Max(s)}], Max(s)>>]]
    BY <2>1
  <2> HIDE DEF g
  <2> QED BY <2>2, <2>3 DEF FoldOn
<1>2. ASSUME NEW n \in Nat, n + 1 <= N, Can(n) PROVE Can(n + 1)
  <2>1. PICK h \in [SUBSET (1..n) -> T] : FoldOn(h, n, base, step)
    BY <1>2
  <2> DEFINE g == [s \in SUBSET (1..(n + 1)) |->
                     IF s = {} THEN base ELSE step[<<h[s \ {Max(s)}], Max(s)>>]]
  <2>2. \A s \in SUBSET (1..(n + 1)) : s # {} =>
          /\ Max(s) \in 1..(n + 1) /\ Max(s) \in 1..N
          /\ s \ {Max(s)} \in SUBSET (1..n)
    <3> TAKE s \in SUBSET (1..(n + 1))
    <3> HAVE s # {}
    <3>1. Max(s) \in 1..(n + 1) /\ s \ {Max(s)} \in SUBSET (1..(Max(s) - 1))
      BY LargestBelow, n + 1 \in Nat
    <3>2. PICK m \in 1..(n + 1) : m = Max(s)
      BY <3>1
    <3>3. 1..(m - 1) \subseteq 1..n
      OBVIOUS
    <3> QED BY <1>2, <3>1, <3>2, <3>3
  <2>3. \A s \in SUBSET (1..(n + 1)) : s # {} =>
          h[s \ {Max(s)}] \in T /\ <<h[s \ {Max(s)}], Max(s)>> \in T \X (1..N)
    BY <2>1, <2>2
  <2>4. g \in [SUBSET (1..(n + 1)) -> T]
    BY <2>3
  <2>5. \A s \in SUBSET (1..n) : s \in SUBSET (1..(n + 1)) /\ g[s] = h[s]
    <3> TAKE s \in SUBSET (1..n)
    <3>1. s \in SUBSET (1..(n + 1))
      OBVIOUS
    <3>2. h[s] = IF s = {} THEN base ELSE step[<<h[s \ {Max(s)}], Max(s)>>]
      BY <2>1 DEF FoldOn
    <3>3. g[s] = IF s = {} THEN base ELSE step[<<h[s \ {Max(s)}], Max(s)>>]
      BY <3>1
    <3> QED BY <3>1, <3>2, <3>3
  <2> DEFINE e(s) == IF s = {} THEN base ELSE step[<<g[s \ {Max(s)}], Max(s)>>]
  <2>6. \A s \in SUBSET (1..(n + 1)) : g[s] = e(s)
    <3> TAKE s \in SUBSET (1..(n + 1))
    <3>1. CASE s = {}
      BY <3>1
    <3>2. CASE s # {}
      <4>1. g[s] = step[<<h[s \ {Max(s)}], Max(s)>>]
        BY <3>2
      <4>2. h[s \ {Max(s)}] = g[s \ {Max(s)}]
        <5> HIDE DEF g
        <5> QED BY <2>2, <2>5, <3>2
      <4> HIDE DEF g
      <4> QED BY <3>2, <4>1, <4>2
    <3> QED BY <3>1, <3>2
  <2>7. g = [s \in SUBSET (1..(n + 1)) |-> e(s)]
    <3>1. g = [s \in SUBSET (1..(n + 1)) |-> g[s]]
      BY <2>4
    <3> HIDE DEF g, e
    <3> QED BY <2>6, <3>1
  <2>8. FoldOn(g, n + 1, base, step)
    <3> HIDE DEF g
    <3> QED BY <2>7 DEF FoldOn
  <2> HIDE DEF g
  <2> QED BY <2>4, <2>8
<1>3. 0 \in S /\ \A n \in Nat : n \in S => n + 1 \in S
  <2> HIDE DEF Can
  <2> QED BY <1>1, <1>2
<1>4. N \in S
  <2> HIDE DEF S
  <2> QED BY <1>3, SetInduction
<1>5. Can(N)
  <2> HIDE DEF Can
  <2> QED BY <1>4
<1> QED BY <1>5
===============================================================================
