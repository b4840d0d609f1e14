------------------------- MODULE SupplierTableProofs -------------------------
(***************************************************************************)
(* For any number of consumers and requests: a consumer has one entry in   *)
(* consumerDeque; the wait of the supplier thread is long enough; and an   *)
(* entry that was left without a thread is never made good.                *)
(*                                                                         *)
(* Threads and entries are not paired: a thread may serve and mark an      *)
(* entry that is not its own.  Balance counts them instead: every step     *)
(* keeps, or raises, the number of unmarked entries over that of living    *)
(* threads.  A thread that ends marks at most one entry; an erasure takes  *)
(* a marked entry only, however many it moves.                             *)
(***************************************************************************)
EXTENDS SupplierTable, FiniteSetTheorems, TLAPS

Ends == first <= last + 1
Fresh == \A t \in Thread : t > made => place[t] = "none"

\* There are at least as many unmarked entries as threads.
Counted == Cardinality(Unmarked) >= Cardinality(Live)

IInv == TypeOK /\ Ends /\ Fresh /\ OneEntry /\ Counted

Cell == [UID : Consumer \union {Gone}, nextTrans : BOOLEAN]

-----------------------------------------------------------------------------

LEMMA InitInv == ASSUME TableAssumption, Init PROVE IInv
<1>1. NConsumer \in Nat /\ MaxRequest \in Nat /\ MaxRequest > 0
  BY DEF TableAssumption
<1>2. Empty \in Cell
  BY DEF Empty, Cell
<1>3. 1 \in 1..(MaxRequest + 1) /\ 0 \in 0..MaxRequest
  BY <1>1
<1>4. cell \in [Address -> Cell]
  BY <1>2 DEF Init
<1>5. TypeOK
  BY <1>3, <1>4 DEF Init, TypeOK, Cell
<1>6. Unmarked = {} /\ Live = {}
  BY DEF Init, Unmarked, Live, consumerDeque
<1>7. Counted
  BY <1>6, FS_EmptySet DEF Counted
<1> QED
  BY <1>1, <1>5, <1>7 DEF Init, IInv, Ends, Fresh, OneEntry, consumerDeque

\* A request that is queued changes no UID.
LEMMA QueuedUID ==
  ASSUME TypeOK, NEW u \in Consumer
  PROVE  /\ Queued(u) \in [Address -> Cell]
         /\ \A a \in Address : Queued(u)[a].UID = cell[a].UID
<1>1. \A a \in Address : /\ cell[a] \in Cell
                         /\ [cell[a] EXCEPT !.nextTrans = TRUE] \in Cell
                         /\ [cell[a] EXCEPT !.nextTrans = TRUE].UID = cell[a].UID
  BY DEF TypeOK, Cell
<1> QED BY <1>1 DEF Queued

\* The addresses of the deque.
LEMMA DequeAddress ==
  ASSUME TableAssumption, TypeOK, NEW a \in consumerDeque
  PROVE  a \in Address /\ first <= a /\ a <= last
BY DEF TypeOK, consumerDeque, Address, TableAssumption

\* What an erasure does to the UIDs: none, or the entries before a move up, or those
\* behind it move down.
LEMMA Erasure ==
  ASSUME TableAssumption, TypeOK, Ends, NEW u \in Consumer, NextTrans(u)
  PROVE  /\ cell' \in [Address -> Cell]
         /\ \/ /\ \A b \in Address : cell'[b].UID = cell[b].UID
               /\ UNCHANGED <<first, last>>
            \/ \E a \in consumerDeque :
                 /\ cell[a].UID = Gone
                 /\ \/ /\ first' = first + 1 /\ last' = last
                       /\ \A b \in (first + 1)..a : cell'[b].UID = cell[b - 1].UID
                       /\ \A b \in (a + 1)..last : cell'[b].UID = cell[b].UID
                    \/ /\ first' = first /\ last' = last - 1
                       /\ \A b \in a..(last - 1) : cell'[b].UID = cell[b + 1].UID
                       /\ \A b \in first..(a - 1) : cell'[b].UID = cell[b].UID
<1> DEFINE c == Queued(u)
<1>1. c \in [Address -> Cell] /\ \A a \in Address : c[a].UID = cell[a].UID
  BY QueuedUID
<1>2. CASE /\ cell' = c
           /\ UNCHANGED <<first, last>>
  BY <1>1, <1>2
<1>3. ASSUME NEW a \in consumerDeque, Finds(Gone, a),
             cell' = MovedUp(c, a), first' = first + 1, UNCHANGED last
      PROVE  /\ cell' \in [Address -> Cell]
             /\ \A b \in (first + 1)..a : cell'[b].UID = cell[b - 1].UID
             /\ \A b \in (a + 1)..last : cell'[b].UID = cell[b].UID
  <2> HIDE DEF c
  <2>0. PICK n \in Nat : n = MaxRequest
    BY DEF TableAssumption
  <2>1. a \in 1..n /\ first \in 1..n /\ last \in 1..n /\ a <= last /\ first <= a
    BY <2>0, DequeAddress DEF TypeOK, Address
  <2>2. \A b \in (first + 1)..a : b \in 1..n /\ b - 1 \in 1..n
    BY <2>1
  <2>3. \A b \in (a + 1)..last : b \in 1..n /\ b \notin (first + 1)..a
    BY <2>1
  <2> QED BY <1>1, <1>3, <2>0, <2>2, <2>3 DEF MovedUp, Address
<1>4. ASSUME NEW a \in consumerDeque, Finds(Gone, a),
             cell' = MovedDown(c, a), last' = last - 1, UNCHANGED first
      PROVE  /\ cell' \in [Address -> Cell]
             /\ \A b \in a..(last - 1) : cell'[b].UID = cell[b + 1].UID
             /\ \A b \in first..(a - 1) : cell'[b].UID = cell[b].UID
  <2> HIDE DEF c
  <2>0. PICK n \in Nat : n = MaxRequest
    BY DEF TableAssumption
  <2>1. a \in 1..n /\ first \in 1..n /\ last \in 1..n /\ a <= last /\ first <= a
    BY <2>0, DequeAddress DEF TypeOK, Address
  <2>2. \A b \in a..(last - 1) : b \in 1..n /\ b + 1 \in 1..n
    BY <2>1
  <2>3. \A b \in first..(a - 1) : b \in 1..n /\ b \notin a..(last - 1)
    BY <2>1
  <2> QED BY <1>1, <1>4, <2>0, <2>2, <2>3 DEF MovedDown, Address
<1>5. CASE \E a \in Address :
             /\ Finds(Gone, a)
             /\ \/ cell' = MovedUp(c, a) /\ first' = first + 1 /\ UNCHANGED last
                \/ cell' = MovedDown(c, a) /\ last' = last - 1 /\ UNCHANGED first
  <2> HIDE DEF c
  <2>1. PICK a \in Address :
             /\ Finds(Gone, a)
             /\ \/ cell' = MovedUp(c, a) /\ first' = first + 1 /\ UNCHANGED last
                \/ cell' = MovedDown(c, a) /\ last' = last - 1 /\ UNCHANGED first
    BY <1>5
  <2>2. a \in consumerDeque /\ cell[a].UID = Gone
    BY <2>1 DEF Finds
  <2> QED BY <1>3, <1>4, <2>1, <2>2
<1>6. \/ cell' = c /\ UNCHANGED <<first, last>>
      \/ \E a \in consumerDeque :
           /\ Finds(Gone, a)
           /\ \/ cell' = MovedUp(c, a) /\ first' = first + 1 /\ UNCHANGED last
              \/ cell' = MovedDown(c, a) /\ last' = last - 1 /\ UNCHANGED first
  BY DEF NextTrans, Erased
<1> QED BY <1>2, <1>5, <1>6, DequeAddress

\* The sets that are counted are finite.
LEMMA Finite ==
  ASSUME TableAssumption, TypeOK
  PROVE  /\ IsFiniteSet(Unmarked) /\ Cardinality(Unmarked) \in Nat
         /\ IsFiniteSet(Live) /\ Cardinality(Live) \in Nat
<1>1. first \in Int /\ last \in Int /\ MaxRequest \in Int /\ 1 \in Int
  BY DEF TypeOK, TableAssumption
<1>2. IsFiniteSet(consumerDeque) /\ IsFiniteSet(Thread)
  BY <1>1, FS_Interval DEF consumerDeque, Thread
<1>3. Unmarked \in SUBSET consumerDeque /\ Live \in SUBSET Thread
  BY DEF Unmarked, Live
<1>4. IsFiniteSet(Unmarked) /\ IsFiniteSet(Live)
  BY <1>2, <1>3, FS_Subset
<1> QED BY <1>4, FS_CardinalityType

\* The same in the next state.
LEMMA FiniteNext ==
  ASSUME TableAssumption, TypeOK'
  PROVE  /\ IsFiniteSet(Unmarked') /\ Cardinality(Unmarked') \in Nat
         /\ IsFiniteSet(Live') /\ Cardinality(Live') \in Nat
<1>1. first' \in Int /\ last' \in Int /\ MaxRequest \in Int /\ 1 \in Int
  BY DEF TypeOK, TableAssumption
<1>2. IsFiniteSet(consumerDeque') /\ IsFiniteSet(Thread)
  BY <1>1, FS_Interval DEF consumerDeque, Thread
<1>3. Unmarked' \in SUBSET consumerDeque' /\ Live' \in SUBSET Thread
  BY DEF Unmarked, Live
<1>4. IsFiniteSet(Unmarked') /\ IsFiniteSet(Live')
  BY <1>2, <1>3, FS_Subset
<1> QED BY <1>4, FS_CardinalityType

\* When no UID of the deque changes, the same entries are unmarked.
LEMMA SameUnmarked ==
  ASSUME UNCHANGED <<first, last>>, \A a \in consumerDeque : cell'[a].UID = cell[a].UID
  PROVE  Unmarked' = Unmarked
BY DEF Unmarked, consumerDeque

\* NEXT_TRANS, with its erasure: no unmarked entry is lost.
LEMMA NextTransStep ==
  ASSUME TableAssumption, TypeOK, Ends, Fresh, OneEntry, NEW u \in Consumer, NextTrans(u)
  PROVE  /\ TypeOK' /\ Ends' /\ Fresh' /\ OneEntry'
         /\ Live' = Live
         /\ Cardinality(Unmarked') >= Cardinality(Unmarked)
<1>1. UNCHANGED <<para, made, place, pConsumer, supplier>>
  BY DEF NextTrans, threadVars
<1>2. cell' \in [Address -> Cell]
  BY Erasure
<1>3. Live' = Live
  BY <1>1 DEF Live
<1>4. PICK n \in Nat : n = MaxRequest /\ n > 0
  BY DEF TableAssumption
<1>5. first \in 1..(n + 1) /\ last \in 0..n /\ first <= last + 1
  BY <1>4 DEF TypeOK, Ends
<1>6. CASE /\ \A b \in Address : cell'[b].UID = cell[b].UID
           /\ UNCHANGED <<first, last>>
  <2>1. TypeOK' /\ Ends' /\ Fresh'
    BY <1>1, <1>2, <1>6 DEF TypeOK, Ends, Fresh, Cell
  <2>2. consumerDeque' = consumerDeque /\ \A b \in consumerDeque : cell'[b].UID = cell[b].UID
    BY <1>6, DequeAddress DEF consumerDeque
  <2>3. OneEntry'
    BY <2>2 DEF OneEntry
  <2>4. Unmarked' = Unmarked /\ Cardinality(Unmarked) \in Nat
    BY <1>6, <2>2, SameUnmarked, Finite
  <2> QED BY <1>3, <2>1, <2>3, <2>4
<1>7. ASSUME NEW a \in consumerDeque, cell[a].UID = Gone,
             first' = first + 1, last' = last,
             \A b \in (first + 1)..a : cell'[b].UID = cell[b - 1].UID,
             \A b \in (a + 1)..last : cell'[b].UID = cell[b].UID
      PROVE  /\ TypeOK' /\ Ends' /\ Fresh' /\ OneEntry'
             /\ Cardinality(Unmarked') >= Cardinality(Unmarked)
  <2>1. first <= a /\ a <= last /\ a \in Nat
    BY <1>5 DEF consumerDeque
  <2>2. first' \in 1..(n + 1) /\ first' <= last' + 1
    BY <1>5, <1>7, <2>1
  <2>4. TypeOK' /\ Ends' /\ Fresh'
    BY <1>1, <1>2, <1>4, <1>7, <2>2 DEF TypeOK, Ends, Fresh, Cell
  <2> DEFINE from(b) == IF b <= a THEN b - 1 ELSE b
  <2>5. \A b \in consumerDeque' : from(b) \in consumerDeque /\ cell'[b].UID = cell[from(b)].UID
    BY <1>5, <1>7, <2>1 DEF consumerDeque
  <2>6. \A b, d \in consumerDeque' : from(b) = from(d) => b = d \/ from(b) = a
    BY <1>5, <1>7, <2>1 DEF consumerDeque
  <2>7. OneEntry'
    <3> HIDE DEF from
    <3> QED BY <1>7, <2>5, <2>6 DEF OneEntry
  <2> DEFINE to == [d \in Unmarked |-> IF d < a THEN d + 1 ELSE d]
  <2>8. \A d \in Unmarked : to[d] \in consumerDeque' /\ from(to[d]) = d
    <3>1. \A d \in Unmarked : d \in Nat /\ first <= d /\ d <= last /\ d # a
      BY <1>5, <1>7 DEF Unmarked, consumerDeque
    <3> QED BY <1>5, <1>7, <2>1, <3>1 DEF consumerDeque
  <2>9. to \in Injection(Unmarked, Unmarked')
    <3> HIDE DEF from
    <3>1. \A d \in Unmarked : to[d] \in Unmarked'
      BY <2>5, <2>8 DEF Unmarked
    <3>2. to \in [Unmarked -> Unmarked']
      BY <3>1
    <3>3. \A d, e \in Unmarked : to[d] = to[e] => d = e
      BY <2>8
    <3> QED BY <3>2, <3>3 DEF Injection, IsInjective
  <2>10. IsFiniteSet(Unmarked') /\ Cardinality(Unmarked') \in Nat /\ Cardinality(Unmarked) \in Nat
    BY <2>4, Finite, FiniteNext
  <2>11. Cardinality(Unmarked) <= Cardinality(Unmarked')
    BY <2>9, <2>10, FS_Injection
  <2> QED BY <2>4, <2>7, <2>10, <2>11
<1>8. ASSUME NEW a \in consumerDeque, cell[a].UID = Gone,
             first' = first, last' = last - 1,
             \A b \in a..(last - 1) : cell'[b].UID = cell[b + 1].UID,
             \A b \in first..(a - 1) : cell'[b].UID = cell[b].UID
      PROVE  /\ TypeOK' /\ Ends' /\ Fresh' /\ OneEntry'
             /\ Cardinality(Unmarked') >= Cardinality(Unmarked)
  <2>1. first <= a /\ a <= last /\ a \in Nat
    BY <1>5 DEF consumerDeque
  <2>2. last' \in 0..n /\ first' <= last' + 1
    BY <1>5, <1>8, <2>1
  <2>4. TypeOK' /\ Ends' /\ Fresh'
    BY <1>1, <1>2, <1>4, <1>8, <2>2 DEF TypeOK, Ends, Fresh, Cell
  <2> DEFINE from(b) == IF b >= a THEN b + 1 ELSE b
  <2>5. \A b \in consumerDeque' : from(b) \in consumerDeque /\ cell'[b].UID = cell[from(b)].UID
    BY <1>5, <1>8, <2>1 DEF consumerDeque
  <2>6. \A b, d \in consumerDeque' : from(b) = from(d) => b = d
    BY <1>5, <1>8, <2>1 DEF consumerDeque
  <2>7. OneEntry'
    <3> HIDE DEF from
    <3> QED BY <1>8, <2>5, <2>6 DEF OneEntry
  <2> DEFINE to == [d \in Unmarked |-> IF d > a THEN d - 1 ELSE d]
  <2>8. \A d \in Unmarked : to[d] \in consumerDeque' /\ from(to[d]) = d
    <3>1. \A d \in Unmarked : d \in Nat /\ first <= d /\ d <= last /\ d # a
      BY <1>5, <1>8 DEF Unmarked, consumerDeque
    <3> QED BY <1>5, <1>8, <2>1, <3>1 DEF consumerDeque
  <2>9. to \in Injection(Unmarked, Unmarked')
    <3> HIDE DEF from
    <3>1. \A d \in Unmarked : to[d] \in Unmarked'
      BY <2>5, <2>8 DEF Unmarked
    <3>2. to \in [Unmarked -> Unmarked']
      BY <3>1
    <3>3. \A d, e \in Unmarked : to[d] = to[e] => d = e
      BY <2>8
    <3> QED BY <3>2, <3>3 DEF Injection, IsInjective
  <2>10. IsFiniteSet(Unmarked') /\ Cardinality(Unmarked') \in Nat /\ Cardinality(Unmarked) \in Nat
    BY <2>4, Finite, FiniteNext
  <2>11. Cardinality(Unmarked) <= Cardinality(Unmarked')
    BY <2>9, <2>10, FS_Injection
  <2> QED BY <2>4, <2>7, <2>10, <2>11
<1> QED BY <1>3, <1>6, <1>7, <1>8, Erasure

\* PLEASE_START_TRANS of a consumer that has no entry: one entry and one thread more.
LEMMA UpdateStep ==
  ASSUME TableAssumption, TypeOK, Ends, Fresh, OneEntry, NEW u \in Consumer,
         updateSupplierTask(u)
  PROVE  /\ TypeOK' /\ Ends' /\ Fresh' /\ OneEntry'
         /\ Cardinality(Unmarked') = Cardinality(Unmarked) + 1
         /\ Cardinality(Live') = Cardinality(Live) + 1
<1>1. PICK n \in Nat : n = MaxRequest /\ n > 0
  BY DEF TableAssumption
<1>2. first \in 1..(n + 1) /\ last \in 0..n /\ first <= last + 1 /\ made \in 0..n
  BY <1>1 DEF TypeOK, Ends
<1>3. /\ last' = last + 1 /\ made' = made + 1 /\ last < n /\ made < n
      /\ first' = first /\ para' = last + 1
      /\ cell' = [cell EXCEPT ![last + 1] = [UID |-> u, nextTrans |-> FALSE]]
      /\ place' = [place EXCEPT ![made + 1] = "new"]
      /\ UNCHANGED <<pConsumer, supplier>>
      /\ \A a \in consumerDeque : cell[a].UID # u
  BY <1>1 DEF updateSupplierTask, NewPara, Known
<1>4. PICK k \in Thread : k = made + 1 /\ last + 1 \in Address
  BY <1>1, <1>2, <1>3 DEF Thread, Address
<1>5. [UID |-> u, nextTrans |-> FALSE] \in Cell
  BY DEF Cell
<1>6. u # Gone
  BY DEF Consumer, Gone, TableAssumption
<1>7. cell' \in [Address -> Cell]
  BY <1>3, <1>5 DEF TypeOK, Cell
<1>8. /\ first' \in 1..(n + 1) /\ last' \in 0..n /\ para' \in 0..n /\ made' \in 0..n
      /\ first' <= last' + 1
  BY <1>2, <1>3
<1>9. TypeOK'
  BY <1>1, <1>3, <1>7, <1>8 DEF TypeOK, Cell
<1>10. Ends' /\ Fresh'
  <2>1. \A t \in Thread : t > made + 1 => t > made /\ t # made + 1
    BY <1>2 DEF Thread, TableAssumption
  <2> QED BY <1>3, <1>8, <2>1 DEF Ends, Fresh, TypeOK
<1>11. /\ consumerDeque' = consumerDeque \union {last + 1}
       /\ last + 1 \notin consumerDeque
  BY <1>2, <1>3 DEF consumerDeque
<1>12. /\ \A a \in consumerDeque : cell'[a].UID = cell[a].UID
       /\ cell'[last + 1].UID = u
  <2>1. \A a \in consumerDeque : a # last + 1 /\ a \in Address
    BY <1>11, DequeAddress
  <2> QED BY <1>3, <1>4, <2>1 DEF TypeOK
<1>13. OneEntry'
  BY <1>3, <1>11, <1>12 DEF OneEntry
<1>14. Unmarked' = Unmarked \union {last + 1} /\ last + 1 \notin Unmarked
  BY <1>6, <1>11, <1>12 DEF Unmarked
<1>15. k \notin Live
  BY <1>2, <1>4 DEF Fresh, Live
<1>16. Live' = Live \union {k}
  BY <1>3, <1>4 DEF Live, TypeOK
<1> QED BY <1>9, <1>10, <1>13, <1>14, <1>15, <1>16, Finite, FS_AddElement

\* Steps of a resend thread: one that ends marks at most one entry.
LEMMA ThreadStep ==
  ASSUME TableAssumption, TypeOK, Ends, Fresh, OneEntry, NEW t \in Thread, ThreadNext(t)
  PROVE  /\ TypeOK' /\ Ends' /\ Fresh' /\ OneEntry'
         /\ \/ Unmarked' = Unmarked /\ Live' = Live
            \/ /\ Cardinality(Unmarked') >= Cardinality(Unmarked) - 1
               /\ Cardinality(Live') = Cardinality(Live) - 1
<1>1. CASE ThreadStarts(t) \/ Silence(t) \/ Told(t)
  <2>1. /\ pConsumer' = pConsumer \/ pConsumer' = [pConsumer EXCEPT ![t] = para]
        /\ \E p \in {"runs", "ends"} : place' = [place EXCEPT ![t] = p]
        /\ place[t] \in {"new", "runs"}
        /\ UNCHANGED <<cell, first, last, para, made, supplier>>
    BY <1>1 DEF ThreadStarts, Silence, Told, tableVars
  <2>2. TypeOK' /\ Ends' /\ Fresh'
    BY <2>1 DEF TypeOK, Ends, Fresh
  <2>3. Unmarked' = Unmarked /\ consumerDeque' = consumerDeque
    BY <2>1 DEF Unmarked, consumerDeque
  <2>4. Live' = Live
    BY <2>1 DEF Live, TypeOK
  <2> QED BY <2>1, <2>2, <2>3, <2>4 DEF OneEntry
<1>3. CASE Answer(t)
  <2>1. PICK p \in {"runs", "ends"} : place' = [place EXCEPT ![t] = p]
    BY <1>3 DEF Answer
  <2>2. /\ cell' = [cell EXCEPT ![pConsumer[t]].nextTrans = FALSE]
        /\ place[t] = "runs"
        /\ UNCHANGED <<first, last, para, made, pConsumer, supplier>>
    BY <1>3 DEF Answer
  <2>3. cell \in [Address -> Cell]
    BY DEF TypeOK, Cell
  <2>4. \A a \in Address : /\ [cell[a] EXCEPT !.nextTrans = FALSE] \in Cell
                           /\ [cell[a] EXCEPT !.nextTrans = FALSE].UID = cell[a].UID
    BY <2>3 DEF Cell
  <2>5. cell' \in [Address -> Cell] /\ \A a \in Address : cell'[a].UID = cell[a].UID
    BY <2>2, <2>3, <2>4
  <2>6. TypeOK' /\ Ends' /\ Fresh'
    BY <2>1, <2>2, <2>5 DEF TypeOK, Ends, Fresh, Cell
  <2>7. consumerDeque' = consumerDeque /\ \A a \in consumerDeque : cell'[a].UID = cell[a].UID
    BY <2>2, <2>5, DequeAddress DEF consumerDeque
  <2>8. Live' = Live
    BY <2>1, <2>2 DEF Live, TypeOK
  <2>9. Unmarked' = Unmarked
    BY <2>2, <2>7, SameUnmarked
  <2> QED BY <2>6, <2>7, <2>8, <2>9 DEF OneEntry
<1>4. CASE ThreadEnds(t)
  <2>1. /\ cell' = Marked(t)
        /\ place' = [place EXCEPT ![t] = "gone"]
        /\ place[t] = "ends"
        /\ UNCHANGED <<first, last, para, made, pConsumer, supplier>>
    BY <1>4 DEF ThreadEnds
  <2>2. cell \in [Address -> Cell]
    BY DEF TypeOK, Cell
  <2>3. \A a \in Address : /\ [cell[a] EXCEPT !.UID = Gone] \in Cell
                           /\ [cell[a] EXCEPT !.UID = Gone].UID = Gone
    BY <2>2 DEF Cell
  <2> DEFINE u == cell[pConsumer[t]].UID
  <2> HIDE DEF u
  <2>4. /\ cell' \in [Address -> Cell]
        /\ \A a \in Address : cell'[a].UID = IF Finds(u, a) THEN Gone ELSE cell[a].UID
    BY <2>1, <2>2, <2>3 DEF Marked, u
  <2>5. TypeOK' /\ Ends' /\ Fresh'
    BY <2>1, <2>4 DEF TypeOK, Ends, Fresh, Cell
  <2>6. consumerDeque' = consumerDeque /\ \A a \in consumerDeque : a \in Address
    BY <2>1, DequeAddress DEF consumerDeque
  <2>7. OneEntry'
    BY <2>4, <2>6 DEF OneEntry
  <2>8. t \in Live /\ Live' = Live \ {t}
    BY <2>1 DEF Live, TypeOK
  <2>9. Cardinality(Live') = Cardinality(Live) - 1
    BY <2>8, Finite, FS_RemoveElement
  <2>10. PICK x : \A a \in consumerDeque : Finds(u, a) => a = x
    <3>1. \A a, b \in consumerDeque : Finds(u, a) /\ Finds(u, b) => a = b
      <4>1. \A a, b \in consumerDeque : Finds(u, b) /\ Finds(u, a) => ~(a < b)
        BY DEF Finds, consumerDeque, TypeOK
      <4>2. \A a, b \in consumerDeque : a < b \/ b < a \/ a = b
        BY DEF consumerDeque, TypeOK
      <4> QED BY <4>1, <4>2
    <3> QED BY <3>1
  <2>11. Unmarked' = Unmarked \/ Unmarked' = Unmarked \ {x}
    <3>1. CASE \E a \in consumerDeque : Finds(u, a)
      BY <2>4, <2>6, <2>10, <3>1 DEF Unmarked
    <3>2. CASE \A a \in consumerDeque : ~Finds(u, a)
      BY <2>4, <2>6, <3>2 DEF Unmarked
    <3> QED BY <3>1, <3>2
  <2>12. Cardinality(Unmarked') >= Cardinality(Unmarked) - 1
    <3>1. IsFiniteSet(Unmarked) /\ Cardinality(Unmarked) \in Nat
      BY Finite
    <3>2. Cardinality(Unmarked \ {x}) \in {Cardinality(Unmarked), Cardinality(Unmarked) - 1}
      BY <3>1, FS_RemoveElement
    <3> QED BY <2>11, <3>1, <3>2
  <2> QED BY <2>5, <2>7, <2>9, <2>12
<1> QED BY <1>1, <1>3, <1>4 DEF ThreadNext

\* Every step keeps, or raises, the number of unmarked entries over that of threads.
LEMMA Balance ==
  ASSUME TableAssumption, TypeOK, Ends, Fresh, OneEntry, [Next]_vars
  PROVE  /\ TypeOK' /\ Ends' /\ Fresh' /\ OneEntry'
         /\ Cardinality(Unmarked') - Cardinality(Live')
              >= Cardinality(Unmarked) - Cardinality(Live)
<1>1. Cardinality(Unmarked) \in Nat /\ Cardinality(Live) \in Nat
  BY Finite
<1>2. CASE SupplierExits \/ SupplierChecks \/ SupplierEnds \/ UNCHANGED vars
  <2>1. /\ UNCHANGED <<tableVars, threadVars>>
        /\ supplier' \in {supplier, "exits", "checked", "ended"}
    BY <1>2 DEF SupplierExits, SupplierChecks, SupplierEnds, vars
  <2>2. Unmarked' = Unmarked /\ Live' = Live
    BY <2>1 DEF tableVars, threadVars, Unmarked, Live, consumerDeque
  <2>3. TypeOK' /\ Ends' /\ Fresh' /\ OneEntry'
    BY <2>1 DEF tableVars, threadVars, TypeOK, Ends, Fresh, OneEntry, consumerDeque
  <2> QED BY <1>1, <2>2, <2>3
<1>3. ASSUME NEW u \in Consumer, updateSupplierTask(u)
      PROVE  /\ TypeOK' /\ Ends' /\ Fresh' /\ OneEntry'
             /\ Cardinality(Unmarked') - Cardinality(Live')
                  >= Cardinality(Unmarked) - Cardinality(Live)
  BY <1>1, <1>3, UpdateStep
<1>4. ASSUME NEW u \in Consumer, NextTrans(u)
      PROVE  /\ TypeOK' /\ Ends' /\ Fresh' /\ OneEntry'
             /\ Cardinality(Unmarked') - Cardinality(Live')
                  >= Cardinality(Unmarked) - Cardinality(Live)
  <2>1. /\ TypeOK' /\ Ends' /\ Fresh' /\ OneEntry' /\ Live' = Live
        /\ Cardinality(Unmarked') >= Cardinality(Unmarked)
    BY <1>4, NextTransStep
  <2>2. Cardinality(Unmarked') \in Nat
    BY <2>1, FiniteNext
  <2> QED BY <1>1, <2>1, <2>2
<1>5. ASSUME NEW t \in Thread, ThreadNext(t)
      PROVE  /\ TypeOK' /\ Ends' /\ Fresh' /\ OneEntry'
             /\ Cardinality(Unmarked') - Cardinality(Live')
                  >= Cardinality(Unmarked) - Cardinality(Live)
  <2>1. /\ TypeOK' /\ Ends' /\ Fresh' /\ OneEntry'
        /\ \/ Unmarked' = Unmarked /\ Live' = Live
           \/ /\ Cardinality(Unmarked') >= Cardinality(Unmarked) - 1
              /\ Cardinality(Live') = Cardinality(Live) - 1
    BY <1>5, ThreadStep
  <2>2. Cardinality(Unmarked') \in Nat
    BY <2>1, FiniteNext
  <2> QED BY <1>1, <2>1, <2>2
<1> QED BY <1>2, <1>3, <1>4, <1>5 DEF Next

LEMMA NextInv ==
  ASSUME TableAssumption, IInv, [Next]_vars PROVE IInv'
<1>1. /\ TypeOK' /\ Ends' /\ Fresh' /\ OneEntry'
      /\ Cardinality(Unmarked') - Cardinality(Live')
           >= Cardinality(Unmarked) - Cardinality(Live)
  BY Balance DEF IInv
<1>2. Cardinality(Unmarked) \in Nat /\ Cardinality(Live) \in Nat
  BY Finite DEF IInv
<1>3. Cardinality(Unmarked') \in Nat /\ Cardinality(Live') \in Nat
  BY <1>1, FiniteNext
<1> QED BY <1>1, <1>2, <1>3 DEF IInv, Counted

\* The invariant holds in every reachable state, para overwritten, entries moved and
\* pointers left behind or not: there are at least as many unmarked entries as threads.
THEOREM Invariance == Spec => []IInv
<1>1. Init => IInv
  BY InitInv, TableAssumption
<1>2. IInv /\ [Next]_vars => IInv'
  BY NextInv, TableAssumption
<1> QED BY <1>1, <1>2, PTL DEF Spec

\* The variables have their types, whatever entries move and threads are mixed up.
THEOREM TypeCorrect == Spec => []TypeOK
<1>1. IInv => TypeOK
  BY DEF IInv
<1> QED BY <1>1, Invariance, PTL

\* A consumer has one entry, for any number of consumers, requests and threads.
THEOREM OneEntryCorrect == Spec => []OneEntry
<1>1. IInv => OneEntry
  BY DEF IInv
<1> QED BY <1>1, Invariance, PTL

\* When the supplier thread finds every entry marked, every thread made so far has ended.
THEOREM WaitCorrect == Spec => WaitIsEnough
<1>1. ASSUME IInv, [Next]_vars, supplier = "exits", supplier' = "checked"
      PROVE  Live = {}
  <2>1. SupplierChecks
    <3>1. ~(UNCHANGED supplier)
      BY <1>1
    <3>2. SupplierExits \/ SupplierChecks \/ SupplierEnds
      BY <1>1, <3>1 DEF Next, updateSupplierTask, NextTrans, ThreadNext, ThreadStarts, Answer,
         Silence, Told, ThreadEnds, vars
    <3> QED BY <1>1, <3>2 DEF SupplierExits, SupplierEnds
  <2>2. Unmarked = {}
    BY <2>1 DEF SupplierChecks, AllMarked, Unmarked
  <2>3. Cardinality(Unmarked) = 0
    BY <2>2, FS_EmptySet
  <2>4. IsFiniteSet(Live) /\ Cardinality(Live) \in Nat
    BY <1>1, Finite, TableAssumption DEF IInv
  <2>5. Cardinality(Live) = 0
    BY <1>1, <2>3, <2>4 DEF IInv, Counted
  <2> QED BY <2>4, <2>5, FS_EmptySet
<1>2. IInv /\ [Next]_vars
      => [supplier = "exits" /\ supplier' = "checked" => Live = {}]_vars
  BY <1>1
<1> QED BY <1>2, Invariance, PTL DEF Spec, WaitIsEnough

\* An entry that has lost its thread leaves one without a thread for ever.
THEOREM OrphanCorrect == Spec => OrphanStays
<1>1. ASSUME IInv, [Next]_vars, Orphaned PROVE Orphaned'
  <2>1. /\ TypeOK'
        /\ Cardinality(Unmarked') - Cardinality(Live')
             >= Cardinality(Unmarked) - Cardinality(Live)
    BY <1>1, Balance, TableAssumption DEF IInv
  <2>2. Cardinality(Unmarked) \in Nat /\ Cardinality(Live) \in Nat
    BY <1>1, Finite, TableAssumption DEF IInv
  <2>3. Cardinality(Unmarked') \in Nat /\ Cardinality(Live') \in Nat
    BY <2>1, FiniteNext, TableAssumption
  <2> QED BY <1>1, <2>1, <2>2, <2>3 DEF Orphaned
<1>2. IInv /\ [Next]_vars => [Orphaned => Orphaned']_vars
  BY <1>1
<1> QED BY <1>2, Invariance, PTL DEF Spec, OrphanStays
=============================================================================
