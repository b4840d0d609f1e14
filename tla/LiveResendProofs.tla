--------------------------- MODULE LiveResendProofs ---------------------------
(***************************************************************************)
(* What the consumer asks for again: for every buffer, every choice of old *)
(* packets and all limits, a NEXT_TRANS names missing packets only, in     *)
(* rising order, in no more than MaxPairs ranges of no more than MaxResend *)
(* packets.  The request is computed by a fold over the buffer; ScanInv is *)
(* the invariant of that loop.                                             *)
(***************************************************************************)
EXTENDS LiveTransferProofs, DataLemmas

\* What the scan carries from slot to slot.
Accum == [start : Int, total : Int, pairs : Seq(Int \X Int), done : BOOLEAN]
NothingFound == [start |-> 0, total |-> 0, pairs |-> <<>>, done |-> FALSE]

Size(pair) == pair[2] - pair[1] + 1

\* The ranges hold t packets together.
Counts(pairs, t) ==
  \E f \in [0..Len(pairs) -> Int] :
    /\ f[0] = 0
    /\ \A i \in 1..Len(pairs) : f[i] = f[i - 1] + Size(pairs[i])
    /\ f[Len(pairs)] = t

\* The ranges rise, and name missing packets before number m.
Rising(pairs, m) ==
  \A i \in 1..Len(pairs) :
    /\ pairs[i][1] <= pairs[i][2]
    /\ pairs[i][1]..pairs[i][2] \subseteq Missing
    /\ pairs[i][2] < m
    /\ i > 1 => pairs[i - 1][2] < pairs[i][1]

\* After k slots.
ScanInv(st, k) ==
  /\ st \in Accum
  /\ st.total \in 0..MaxResend /\ Counts(st.pairs, st.total)
  /\ Len(st.pairs) <= MaxPairs /\ (~st.done => Len(st.pairs) < MaxPairs)
  /\ Rising(st.pairs, IF st.start = 0 THEN nextPduSeq + k ELSE st.start)
  /\ st.start # 0 =>
       /\ ~st.done
       /\ st.start \in nextPduSeq..(nextPduSeq + k - 1)
       /\ st.start..(nextPduSeq + k - 1) \subseteq Missing

-----------------------------------------------------------------------------
(* Ranges.                                                                 *)

\* One more range at the end.
LEMMA AppendRange ==
  ASSUME NEW pairs \in Seq(Int \X Int), NEW a \in Int, NEW b \in Int, NEW m \in Int,
         a <= b, b < m, a..b \subseteq Missing, Rising(pairs, a)
  PROVE  /\ Append(pairs, <<a, b>>) \in Seq(Int \X Int)
         /\ Len(Append(pairs, <<a, b>>)) = Len(pairs) + 1
         /\ Rising(Append(pairs, <<a, b>>), m)
<1> DEFINE all == Append(pairs, <<a, b>>)
<1>1. Len(pairs) \in Nat
  BY LenProperties
<1>2. /\ all \in Seq(Int \X Int) /\ Len(all) = Len(pairs) + 1
      /\ \A i \in 1..Len(pairs) : all[i] = pairs[i]
      /\ all[Len(pairs) + 1] = <<a, b>>
  BY AppendProperties
<1>3. \A i \in 1..Len(pairs) : pairs[i] \in Int \X Int
  BY ElementOfSeq
<1> HIDE DEF all
<1>4. ASSUME NEW i \in 1..Len(all)
      PROVE  /\ all[i][1] <= all[i][2]
             /\ all[i][1]..all[i][2] \subseteq Missing
             /\ all[i][2] < m
             /\ i > 1 => all[i - 1][2] < all[i][1]
  <2>1. CASE i = Len(pairs) + 1
    <3>1. all[i][1] = a /\ all[i][2] = b
      BY <1>2, <2>1
    <3>2. ASSUME i > 1 PROVE all[i - 1][2] < a
      <4>1. i - 1 \in 1..Len(pairs)
        BY <1>1, <2>1, <3>2
      <4> QED BY <1>2, <4>1 DEF Rising
    <3> QED BY <3>1, <3>2
  <2>2. CASE i \in 1..Len(pairs)
    <3>1. /\ pairs[i][1] <= pairs[i][2]
          /\ pairs[i][1]..pairs[i][2] \subseteq Missing
          /\ pairs[i][2] < a
          /\ i > 1 => pairs[i - 1][2] < pairs[i][1]
      BY <2>2 DEF Rising
    <3>2. i > 1 => i - 1 \in 1..Len(pairs)
      BY <1>1, <2>2
    <3>3. PICK z \in Int : z = pairs[i][2]
      BY <1>3, <2>2
    <3>4. z < m
      BY <3>1, <3>3
    <3>5. all[i] = pairs[i] /\ (i > 1 => all[i - 1] = pairs[i - 1])
      BY <1>2, <2>2, <3>2
    <3> QED BY <3>1, <3>3, <3>4, <3>5
  <2>3. i = Len(pairs) + 1 \/ i \in 1..Len(pairs)
    BY <1>1, <1>2
  <2> QED BY <2>1, <2>2, <2>3
<1> QED BY <1>2, <1>4 DEF Rising, all

LEMMA AppendCount ==
  ASSUME NEW pairs \in Seq(Int \X Int), NEW a \in Int, NEW b \in Int, NEW t \in Int,
         Counts(pairs, t)
  PROVE  Counts(Append(pairs, <<a, b>>), t + b - a + 1)
<1> DEFINE all == Append(pairs, <<a, b>>)
<1>1. PICK n \in Nat : n = Len(pairs)
  BY LenProperties
<1>2. /\ Len(all) = n + 1
      /\ \A i \in 1..n : all[i] = pairs[i]
      /\ all[n + 1] = <<a, b>>
  BY <1>1, AppendProperties
<1>3. PICK f \in [0..n -> Int] : /\ f[0] = 0
                                 /\ \A i \in 1..n : f[i] = f[i - 1] + Size(pairs[i])
                                 /\ f[n] = t
  BY <1>1 DEF Counts
<1> HIDE DEF all
<1> DEFINE u == t + b - a + 1
           g == [i \in 0..(n + 1) |-> IF i = n + 1 THEN u ELSE f[i]]
<1>4. g \in [0..(n + 1) -> Int]
  <2>1. \A i \in 0..(n + 1) : i = n + 1 \/ i \in 0..n
    OBVIOUS
  <2> QED BY <1>3, <2>1
<1>5. g[0] = 0 /\ g[n + 1] = u
  BY <1>3
<1>6. ASSUME NEW i \in 1..(n + 1) PROVE g[i] = g[i - 1] + Size(all[i])
  <2>1. CASE i = n + 1
    <3>1. g[i] = u /\ g[i - 1] = t
      BY <1>3, <2>1
    <3>2. Size(all[i]) = b - a + 1
      BY <1>2, <2>1 DEF Size
    <3> QED BY <3>1, <3>2
  <2>2. CASE i \in 1..n
    <3>1. g[i] = f[i] /\ g[i - 1] = f[i - 1]
      BY <2>2
    <3> HIDE DEF g
    <3> QED BY <1>2, <1>3, <2>2, <3>1
  <2> QED BY <2>1, <2>2
<1> HIDE DEF g
<1> QED BY <1>2, <1>4, <1>5, <1>6 DEF Counts, all

\* What was found stays in order when the scan goes on.
LEMMA RisingBefore ==
  ASSUME NEW pairs \in Seq(Int \X Int), NEW m \in Int, NEW n \in Int, m <= n,
         Rising(pairs, m)
  PROVE  Rising(pairs, n)
<1>1. \A i \in 1..Len(pairs) : pairs[i] \in Int \X Int
  BY ElementOfSeq
<1>2. ASSUME NEW i \in 1..Len(pairs) PROVE pairs[i][2] < n
  <2>1. PICK z \in Int : z = pairs[i][2]
    BY <1>1
  <2>2. z < m
    BY <2>1 DEF Rising
  <2> QED BY <2>1, <2>2
<1> QED BY <1>2 DEF Rising

-----------------------------------------------------------------------------
(* One slot of the scan.                                                   *)

\* What the buffer's slot k is: empty, and its number is missing, or number k from
\* nextPduSeq on.
LEMMA SlotOfScan ==
  ASSUME StreamInv, NEW k \in 1..Len(arrivedBufDeque)
  PROVE  /\ nextPduSeq \in Nat \ {0}
         /\ \/ arrivedBufDeque[k] = NULL /\ nextPduSeq + k - 1 \in Missing
            \/ arrivedBufDeque[k] # NULL /\ arrivedBufDeque[k].seq = nextPduSeq + k - 1
<1>1. nextPduSeq \in Nat \ {0}
  <2>1. CASE nextPduSeq = 0
    <3>1. Len(arrivedBufDeque) = 0
      BY <2>1, EmptySeq DEF StreamInv
    <3> QED BY <3>1
  <2>2. CASE nextPduSeq # 0
    BY <2>2 DEF StreamInv
  <2> QED BY <2>1, <2>2
<1>2. Placed(arrivedBufDeque, nextPduSeq, lastTsUID)
  BY <1>1 DEF StreamInv
<1> QED BY <1>1, <1>2 DEF Placed, Missing, Stored

\* Where the range ends that precedes the packet of number z, when one is taken, and
\* the ranges with it.
Sum(st, z) == st.total + (z - st.start)
Stop(st, z) == IF Sum(st, z) > MaxResend THEN z - (Sum(st, z) - MaxResend) ELSE z
Found(st, z) ==
  IF Stop(st, z) > st.start THEN Append(st.pairs, LostRange(st.start, Stop(st, z)))
                            ELSE st.pairs
Taken(st, z) ==
  [start |-> 0,
   total |-> IF Sum(st, z) > MaxResend THEN MaxResend ELSE Sum(st, z),
   pairs |-> Found(st, z),
   done  |-> Sum(st, z) > MaxResend \/ Len(Found(st, z)) >= MaxPairs]

LEMMA ScanCases ==
  ASSUME StreamInv, NEW k \in 1..Len(arrivedBufDeque), NEW st \in Accum, NEW old
  PROVE  \/ ScanSlot(st, k, old) = st /\ (st.done \/ st.start = 0)
         \/ ~st.done /\ ScanSlot(st, k, old) = [st EXCEPT !.start = 0]
         \/ /\ ~st.done /\ nextPduSeq + k - 1 \in Missing
            /\ ScanSlot(st, k, old) =
                 [st EXCEPT !.start = IF @ = 0 THEN nextPduSeq + k - 1 ELSE @]
         \/ /\ ~st.done /\ st.start # 0
            /\ ScanSlot(st, k, old) = Taken(st, nextPduSeq + k - 1)
<1>1. CASE st.done
  BY <1>1 DEF ScanSlot
<1>2. CASE ~st.done /\ arrivedBufDeque[k] = NULL
  <2>1. nextPduSeq + k - 1 \in Missing
    BY <1>2, SlotOfScan
  <2>2. ScanSlot(st, k, old) =
          [st EXCEPT !.start = IF @ = 0 THEN nextPduSeq + k - 1 ELSE @]
    BY <1>2 DEF ScanSlot
  <2> QED BY <1>2, <2>1, <2>2
<1>3. CASE ~st.done /\ arrivedBufDeque[k] # NULL /\ st.start = 0
  BY <1>3 DEF ScanSlot
<1>4. CASE ~st.done /\ arrivedBufDeque[k] # NULL /\ st.start # 0 /\ k \notin old
  BY <1>4 DEF ScanSlot
<1>5. CASE ~st.done /\ arrivedBufDeque[k] # NULL /\ st.start # 0 /\ k \in old
  <2>1. arrivedBufDeque[k].seq = nextPduSeq + k - 1
    BY <1>5, SlotOfScan
  <2>2. ScanSlot(st, k, old) = Taken(st, arrivedBufDeque[k].seq)
    BY <1>5 DEF ScanSlot, Taken, Found, Stop, Sum
  <2> QED BY <1>5, <2>1, <2>2
<1> QED BY <1>1, <1>2, <1>3, <1>4, <1>5

\* A new start and nothing else.
LEMMA NewStart ==
  ASSUME NEW st \in Accum, NEW z \in Int
  PROVE  /\ [st EXCEPT !.start = z] \in Accum
         /\ [st EXCEPT !.start = z].start = z
         /\ [st EXCEPT !.start = z].total = st.total
         /\ [st EXCEPT !.start = z].pairs = st.pairs
         /\ [st EXCEPT !.start = z].done = st.done
BY DEF Accum

\* Where a range is cut: before packet z, or where the limit M is reached.
LEMMA Cut ==
  ASSUME NEW M \in Nat \ {0}, NEW total \in 0..M, NEW z \in Int, NEW start \in Int,
         start < z,
         NEW sum, sum = total + (z - start),
         NEW stop, stop = IF sum > M THEN z - (sum - M) ELSE z,
         NEW t, t = IF sum > M THEN M ELSE sum
  PROVE  /\ sum \in Nat /\ stop \in Int /\ t \in 0..M
         /\ stop - start = t - total /\ start <= stop /\ stop <= z
         /\ total + (stop - 1) - start + 1 = t
OBVIOUS

\* The invariant of the scan.
LEMMA ScanStep ==
  ASSUME ConstantsAssumption, StreamInv, NEW k \in 1..Len(arrivedBufDeque), NEW old,
         NEW st \in Accum, ScanInv(st, k - 1)
  PROVE  ScanInv(ScanSlot(st, k, old), k)
<1>1. PICK n \in Nat \ {0} : n = nextPduSeq
  BY SlotOfScan
<1>2. k \in Nat \ {0} /\ MaxResend \in Nat \ {0} /\ MaxPairs \in Nat \ {0}
  BY LenProperties DEF ConstantsAssumption
<1>3. PICK start \in Int, total \in 0..MaxResend, pairs \in Seq(Int \X Int) :
        start = st.start /\ total = st.total /\ pairs = st.pairs
  BY DEF ScanInv, Accum
<1>4. st.done \in BOOLEAN
  BY DEF Accum
<1>5. Len(pairs) \in Nat
  BY LenProperties
<1>6. /\ Counts(pairs, total)
      /\ Len(pairs) <= MaxPairs
      /\ ~st.done => Len(pairs) < MaxPairs
      /\ start = 0 => Rising(pairs, n + k - 1)
      /\ start # 0 => Rising(pairs, start)
      /\ start # 0 =>
           /\ ~st.done
           /\ start \in n..(n + k - 2)
           /\ start..(n + k - 2) \subseteq Missing
  <2>1. n + (k - 1) = n + k - 1 /\ n + (k - 1) - 1 = n + k - 2
    BY <1>2
  <2> QED BY <1>1, <1>2, <1>3, <2>1 DEF ScanInv
<1>7. start # 0 => Rising(pairs, n + k - 1) /\ Rising(pairs, n + k)
  BY <1>2, <1>6, RisingBefore
<1>8. Rising(pairs, n + k - 1) /\ Rising(pairs, n + k)
  BY <1>2, <1>6, <1>7, RisingBefore
<1>9. CASE ScanSlot(st, k, old) = st /\ (st.done \/ st.start = 0)
  <2>1. start = 0
    BY <1>3, <1>6, <1>9
  <2> QED BY <1>1, <1>2, <1>3, <1>6, <1>8, <1>9, <2>1 DEF ScanInv
<1>10. CASE ~st.done /\ ScanSlot(st, k, old) = [st EXCEPT !.start = 0]
  <2>1. PICK new : new = ScanSlot(st, k, old)
    OBVIOUS
  <2>2. /\ new \in Accum
        /\ new.start = 0 /\ new.total = total /\ new.pairs = pairs /\ new.done = st.done
    <3>1. new = [st EXCEPT !.start = 0] /\ 0 \in Int
      BY <1>10, <2>1
    <3> QED BY <1>3, <3>1, NewStart
  <2> QED BY <1>1, <1>2, <1>3, <1>6, <1>8, <1>10, <2>1, <2>2 DEF ScanInv
<1>11. CASE /\ ~st.done /\ nextPduSeq + k - 1 \in Missing
            /\ ScanSlot(st, k, old) =
                 [st EXCEPT !.start = IF @ = 0 THEN nextPduSeq + k - 1 ELSE @]
  <2>1. PICK z \in Nat \ {0} : z = IF start = 0 THEN n + k - 1 ELSE start
    <3>1. n + k - 1 \in Nat \ {0}
      BY <1>2
    <3>2. start # 0 => start \in Nat \ {0}
      BY <1>2, <1>6
    <3> QED BY <3>1, <3>2
  <2>5. PICK new : new = ScanSlot(st, k, old)
    OBVIOUS
  <2>2. /\ new \in Accum
        /\ new.start = z /\ new.total = total /\ new.pairs = pairs /\ new.done = st.done
    <3>1. new = [st EXCEPT !.start = z]
      BY <1>1, <1>3, <1>11, <2>1, <2>5
    <3> QED BY <1>3, <3>1, NewStart
  <2>3. Rising(pairs, z)
    BY <1>6, <1>8, <2>1
  <2>4. z \in n..(n + k - 1) /\ z..(n + k - 1) \subseteq Missing
    <3>1. CASE start = 0
      BY <1>1, <1>2, <1>11, <2>1, <3>1
    <3>2. CASE start # 0
      <4>1. \A m \in start..(n + k - 1) : m = n + k - 1 \/ m \in start..(n + k - 2)
        BY <1>2
      <4>2. z = start /\ start..(n + k - 2) \subseteq Missing /\ n + k - 1 \in Missing
        BY <1>1, <1>6, <1>11, <2>1, <3>2
      <4>3. z \in n..(n + k - 1)
        BY <1>2, <1>6, <3>2, <4>2
      <4> QED BY <4>1, <4>2, <4>3
    <3> QED BY <3>1, <3>2
  <2> QED BY <1>1, <1>2, <1>3, <1>6, <1>11, <2>1, <2>2, <2>3, <2>4, <2>5 DEF ScanInv
<1>12. ASSUME ~st.done, st.start # 0,
              ScanSlot(st, k, old) = Taken(st, nextPduSeq + k - 1)
       PROVE  ScanInv(ScanSlot(st, k, old), k)
  <2>1. start # 0 /\ start \in n..(n + k - 2) /\ start..(n + k - 2) \subseteq Missing
        /\ Rising(pairs, start) /\ Len(pairs) < MaxPairs
    BY <1>3, <1>6, <1>12
  <2> DEFINE z == n + k - 1
             sum == total + (z - start)
             stop == IF sum > MaxResend THEN z - (sum - MaxResend) ELSE z
             t == IF sum > MaxResend THEN MaxResend ELSE sum
  <2>2. z \in Int /\ start < z
    BY <1>2, <2>1
  <2>3. Sum(st, nextPduSeq + k - 1) = sum /\ Stop(st, nextPduSeq + k - 1) = stop
    BY <1>1, <1>3 DEF Sum, Stop
  <2>4. Taken(st, nextPduSeq + k - 1) =
          [start |-> 0, total |-> t, pairs |-> Found(st, nextPduSeq + k - 1),
           done |-> \/ sum > MaxResend
                    \/ Len(Found(st, nextPduSeq + k - 1)) >= MaxPairs]
    BY <2>3 DEF Taken
  <2>5. /\ sum \in Nat /\ stop \in Int /\ t \in 0..MaxResend
        /\ stop - start = t - total /\ start <= stop /\ stop <= z
        /\ total + (stop - 1) - start + 1 = t
    <3> HIDE DEF z
    <3> QED BY <1>2, <2>2, Cut
  <2> HIDE DEF stop, t, sum
  <2>7. Found(st, nextPduSeq + k - 1)
          = IF stop > start THEN Append(pairs, <<start, stop - 1>>) ELSE pairs
    BY <1>3, <2>3 DEF Found, LostRange
  <2>8. PICK found \in Seq(Int \X Int) :
          /\ found = Found(st, nextPduSeq + k - 1)
          /\ Counts(found, t) /\ Rising(found, n + k)
          /\ Len(found) \in Nat /\ Len(found) <= MaxPairs
    <3>1. CASE stop > start
      <4>1. /\ start <= stop - 1 /\ stop - 1 < n + k /\ stop - 1 \in Int
            /\ start..(stop - 1) \subseteq start..(n + k - 2)
        BY <1>2, <2>1, <2>5, <3>1
      <4>2. start..(stop - 1) \subseteq Missing
        BY <2>1, <4>1
      <4>3. /\ Append(pairs, <<start, stop - 1>>) \in Seq(Int \X Int)
            /\ Len(Append(pairs, <<start, stop - 1>>)) = Len(pairs) + 1
            /\ Rising(Append(pairs, <<start, stop - 1>>), n + k)
        <5>1. PICK b \in Int, m \in Int : b = stop - 1 /\ m = n + k
          BY <1>2, <4>1
        <5>2. start \in Int /\ start <= b /\ b < m /\ start..b \subseteq Missing
          BY <1>2, <2>1, <4>1, <4>2, <5>1
        <5>3. pairs \in Seq(Int \X Int) /\ Rising(pairs, start)
          BY <1>2, <2>1
        <5>4. /\ Append(pairs, <<start, b>>) \in Seq(Int \X Int)
              /\ Len(Append(pairs, <<start, b>>)) = Len(pairs) + 1
              /\ Rising(Append(pairs, <<start, b>>), m)
          BY <5>2, <5>3, AppendRange
        <5> QED BY <5>1, <5>4
      <4>4. Counts(Append(pairs, <<start, stop - 1>>), total + (stop - 1) - start + 1)
        <5>1. PICK b \in Int : b = stop - 1
          BY <4>1
        <5>2. Counts(Append(pairs, <<start, b>>), total + b - start + 1)
          BY <1>2, <1>6, <2>1, AppendCount
        <5> QED BY <5>1, <5>2
      <4>5. Counts(Append(pairs, <<start, stop - 1>>), t)
        BY <2>5, <4>4
      <4>6. Found(st, nextPduSeq + k - 1) = Append(pairs, <<start, stop - 1>>)
        BY <2>7, <3>1
      <4>7. Len(pairs) + 1 \in Nat /\ Len(pairs) + 1 <= MaxPairs
        BY <1>2, <1>5, <2>1
      <4> QED BY <4>3, <4>5, <4>6, <4>7
    <3>2. CASE ~(stop > start)
      <4>1. stop = start /\ t = total
        <5>1. stop = start
          BY <1>3, <2>5, <3>2
        <5>2. PICK a \in Int, b \in Int : a = t /\ b = total
          BY <1>2, <2>5
        <5>3. PICK c \in Int : c = start /\ c = stop
          BY <1>2, <5>1
        <5>4. c - c = a - b
          BY <2>5, <5>2, <5>3
        <5>5. a = b
          BY <5>4
        <5> QED BY <5>1, <5>2, <5>5
      <4> QED BY <1>5, <1>6, <1>8, <2>7, <3>2, <4>1
    <3> QED BY <3>1, <3>2
  <2>9. PICK new : new = ScanSlot(st, k, old)
    OBVIOUS
  <2>10. new = [start |-> 0, total |-> t, pairs |-> found,
                done |-> (sum > MaxResend \/ Len(found) >= MaxPairs)]
    BY <1>12, <2>4, <2>8, <2>9
  <2>11. /\ new \in Accum
         /\ new.start = 0 /\ new.total = t /\ new.pairs = found
         /\ ~new.done => Len(found) < MaxPairs
    <3>1. t \in Int /\ 0 \in Int
      BY <1>2, <2>5
    <3>2. new \in Accum
      BY <2>8, <2>10, <3>1 DEF Accum
    <3>3. ~new.done => ~(Len(found) >= MaxPairs)
      BY <2>10
    <3> QED BY <1>2, <2>8, <2>10, <3>2, <3>3
  <2>12. Rising(found, nextPduSeq + k)
    BY <1>1, <2>8
  <2> QED BY <2>5, <2>8, <2>9, <2>11, <2>12 DEF ScanInv
<1> QED BY <1>9, <1>10, <1>11, <1>12, ScanCases

-----------------------------------------------------------------------------
(* The scan as a whole.                                                    *)

LEMMA ScanBegins ==
  ASSUME ConstantsAssumption, StreamInv
  PROVE  NothingFound \in Accum /\ ScanInv(NothingFound, 0)
<1>1. MaxResend \in Nat \ {0} /\ MaxPairs \in Nat \ {0}
  BY DEF ConstantsAssumption
<1>2. <<>> \in Seq(Int \X Int) /\ Len(<<>>) = 0
  BY EmptySeq
<1>3. NothingFound \in Accum
  BY <1>2 DEF NothingFound, Accum
<1>4. Counts(<<>>, 0)
  <2> DEFINE f == [i \in 0..0 |-> 0]
  <2>1. f \in [0..Len(<<>>) -> Int] /\ f[0] = 0 /\ f[Len(<<>>)] = 0
    BY <1>2
  <2> HIDE DEF f
  <2> QED BY <1>2, <2>1 DEF Counts
<1>5. \A m : Rising(<<>>, m)
  BY <1>2 DEF Rising
<1> QED BY <1>1, <1>2, <1>3, <1>4, <1>5 DEF ScanInv, NothingFound

\* A slot leaves the scan with what it carries.
LEMMA ScanType ==
  ASSUME ConstantsAssumption, StreamInv, NEW k \in 1..Len(arrivedBufDeque), NEW old,
         NEW st \in Accum
  PROVE  ScanSlot(st, k, old) \in Accum
<1>1. nextPduSeq + k - 1 \in Int /\ MaxResend \in Int
  BY LenProperties, SlotOfScan DEF ConstantsAssumption
<1>2. PICK z \in Int : z = nextPduSeq + k - 1
  BY <1>1
<1>3. CASE ScanSlot(st, k, old) = st
  BY <1>3
<1>4. ASSUME NEW y \in Int, ScanSlot(st, k, old) = [st EXCEPT !.start = y]
      PROVE  ScanSlot(st, k, old) \in Accum
  BY <1>4, NewStart
<1>5. CASE ScanSlot(st, k, old) =
             [st EXCEPT !.start = IF @ = 0 THEN nextPduSeq + k - 1 ELSE @]
  <2>1. st.start \in Int
    BY DEF Accum
  <2>2. PICK y \in Int : y = IF st.start = 0 THEN z ELSE st.start
    BY <2>1
  <2>3. ScanSlot(st, k, old) = [st EXCEPT !.start = y]
    BY <1>2, <1>5, <2>2
  <2> QED BY <1>4, <2>3
<1>6. Taken(st, z) \in Accum
  <2>1. /\ st.start \in Int /\ st.total \in Int /\ st.pairs \in Seq(Int \X Int)
    BY DEF Accum
  <2>8. PICK a \in Int, b \in Int : a = st.start /\ b = st.total
    BY <2>1
  <2>2. PICK c \in Int : c = Sum(st, z)
    <3>1. Sum(st, z) = b + (z - a)
      BY <2>8 DEF Sum
    <3>2. b + (z - a) \in Int
      OBVIOUS
    <3> QED BY <3>1, <3>2
  <2>3. Stop(st, z) \in Int
    <3>1. PICK mr \in Int : mr = MaxResend
      BY <1>1
    <3>2. Stop(st, z) = IF c > mr THEN z - (c - mr) ELSE z
      BY <2>2, <3>1 DEF Stop
    <3> QED BY <3>2
  <2>4. LostRange(st.start, Stop(st, z)) \in Int \X Int
    <3>1. PICK stop \in Int : stop = Stop(st, z)
      BY <2>3
    <3>2. LostRange(st.start, Stop(st, z)) = <<a, stop - 1>>
      BY <2>8, <3>1 DEF LostRange
    <3> QED BY <3>2
  <2>5. Found(st, z) \in Seq(Int \X Int)
    BY <2>1, <2>4, AppendProperties DEF Found
  <2>6. (IF Sum(st, z) > MaxResend THEN MaxResend ELSE Sum(st, z)) \in Int
    BY <1>1, <2>2
  <2>7. (Sum(st, z) > MaxResend \/ Len(Found(st, z)) >= MaxPairs) \in BOOLEAN
    OBVIOUS
  <2> QED BY <2>5, <2>6, <2>7 DEF Taken, Accum
<1>7. 0 \in Int
  OBVIOUS
<1> QED BY <1>2, <1>3, <1>4, <1>5, <1>6, <1>7, ScanCases

\* The fold goes through the buffer slot by slot.
LEMMA ScanFold ==
  ASSUME ConstantsAssumption, StreamInv, NEW old
  PROVE  \E f : /\ f[0] = NothingFound
                /\ \A k \in 1..Len(arrivedBufDeque) : f[k] = ScanSlot(f[k - 1], k, old)
                /\ ResendPairs(old) = f[Len(arrivedBufDeque)].pairs
<1>1. PICK n \in Nat : n = Len(arrivedBufDeque)
  BY LenProperties DEF StreamInv
<1> DEFINE seq == [k \in 1..Len(arrivedBufDeque) |-> k]
           Eq(g) == g = [s \in SUBSET DOMAIN seq |->
                           IF s = {} THEN NothingFound
                             ELSE ScanSlot(g[s \ {Max(s)}], seq[Max(s)], old)]
<1>2. ResendPairs(old) = (CHOOSE g : Eq(g))[DOMAIN seq].pairs
  BY Zenon DEF ResendPairs, FoldLeft, MapThenFoldSet, NothingFound
<1> DEFINE step == [tk \in Accum \X (1..n) |-> ScanSlot(tk[1], tk[2], old)]
<1>3. step \in [Accum \X (1..n) -> Accum]
  BY <1>1, ScanType
<1>4. PICK h \in [SUBSET (1..n) -> Accum] : FoldOn(h, n, NothingFound, step)
  <2> HIDE DEF step
  <2> QED BY <1>3, ScanBegins, FoldExists
<1>5. DOMAIN seq = 1..n /\ \A k \in 1..n : seq[k] = k
  BY <1>1
<1> HIDE DEF seq
<1>6. \A s \in SUBSET (1..n) : s # {} =>
        step[<<h[s \ {Max(s)}], Max(s)>>] = ScanSlot(h[s \ {Max(s)}], seq[Max(s)], old)
  <2> TAKE s \in SUBSET (1..n)
  <2> HAVE s # {}
  <2>1. Max(s) \in 1..n /\ s \ {Max(s)} \in SUBSET (1..n)
    BY LargestBelow
  <2>2. h[s \ {Max(s)}] \in Accum
    BY <1>4, <2>1
  <2>3. seq[Max(s)] = Max(s)
    BY <1>5, <2>1
  <2> QED BY <2>1, <2>2, <2>3
<1>7. Eq(h)
  <2> HIDE DEF step
  <2> QED BY <1>4, <1>5, <1>6 DEF FoldOn
<1>8. PICK g : Eq(g) /\ g = (CHOOSE i : Eq(i))
  <2> HIDE DEF Eq
  <2> QED BY <1>7
<1> DEFINE f == [k \in 0..n |-> g[1..k]]
<1>9. \A s \in SUBSET (1..n) :
        g[s] = IF s = {} THEN NothingFound
                 ELSE ScanSlot(g[s \ {Max(s)}], seq[Max(s)], old)
  BY <1>5, <1>8
<1>10. f[0] = NothingFound
  <2>1. 1..0 = {} /\ 0 \in 0..n /\ {} \in SUBSET (1..n)
    OBVIOUS
  <2>2. f[0] = g[{}] /\ g[{}] = NothingFound
    BY <1>9, <2>1
  <2> QED BY <2>2
<1>11. ASSUME NEW k \in 1..n PROVE f[k] = ScanSlot(f[k - 1], k, old)
  <2>1. 1..k \in SUBSET (1..n) /\ 1..k # {} /\ k \in 0..n /\ k - 1 \in 0..n
    OBVIOUS
  <2>2. Max(1..k) = k /\ (1..k) \ {k} = 1..(k - 1)
    BY LargestOfFirst
  <2>3. g[1..k] = ScanSlot(g[(1..k) \ {Max(1..k)}], seq[Max(1..k)], old)
    BY <1>9, <2>1
  <2>4. f[k] = g[1..k] /\ f[k - 1] = g[1..(k - 1)]
    BY <2>1
  <2> QED BY <1>5, <2>2, <2>3, <2>4
<1>12. ResendPairs(old) = f[n].pairs
  <2>1. n \in 0..n
    OBVIOUS
  <2>2. f[n] = g[1..n]
    BY <2>1
  <2> HIDE DEF Eq, f
  <2> QED BY <1>2, <1>5, <1>8, <2>2
<1> HIDE DEF f
<1> QED BY <1>1, <1>10, <1>11, <1>12

\* What the scan has found when it ends.
LEMMA ScanEnds ==
  ASSUME ConstantsAssumption, StreamInv, NEW old
  PROVE  /\ ResendPairs(old) \in Seq(Int \X Int)
         /\ Len(ResendPairs(old)) <= MaxPairs
         /\ \E t \in 0..MaxResend : Counts(ResendPairs(old), t)
         /\ \E m : Rising(ResendPairs(old), m)
<1>1. PICK n \in Nat : n = Len(arrivedBufDeque)
  BY LenProperties DEF StreamInv
<1>2. PICK f : /\ f[0] = NothingFound
               /\ \A k \in 1..n : f[k] = ScanSlot(f[k - 1], k, old)
               /\ ResendPairs(old) = f[n].pairs
  BY <1>1, ScanFold
<1> DEFINE S == {k \in Nat : k <= n => f[k] \in Accum /\ ScanInv(f[k], k)}
<1>3. 0 \in S
  BY <1>2, ScanBegins
<1>4. ASSUME NEW k \in Nat, k \in S PROVE k + 1 \in S
  <2> SUFFICES ASSUME k + 1 <= n PROVE f[k + 1] \in Accum /\ ScanInv(f[k + 1], k + 1)
    OBVIOUS
  <2>1. k + 1 \in 1..n /\ k + 1 - 1 = k /\ k <= n
    OBVIOUS
  <2>2. f[k + 1] = ScanSlot(f[k], k + 1, old) /\ f[k] \in Accum /\ ScanInv(f[k], k)
    BY <1>2, <1>4, <2>1
  <2>3. PICK j \in 1..n : j = k + 1 /\ j - 1 = k
    BY <2>1
  <2>4. ScanInv(ScanSlot(f[k], j, old), j) /\ ScanSlot(f[k], j, old) \in Accum
    BY <1>1, <2>2, <2>3, ScanStep, ScanType
  <2> QED BY <2>2, <2>3, <2>4
<1>5. n \in S
  <2> HIDE DEF S
  <2> QED BY <1>3, <1>4, SetInduction
<1>6. f[n] \in Accum /\ ScanInv(f[n], n)
  BY <1>5
<1> QED BY <1>2, <1>6 DEF ScanInv, Accum

-----------------------------------------------------------------------------
(* How many packets a request names.                                       *)

\* The sum over the ranges is the number they were counted to be.
LEMMA RangesSum ==
  ASSUME NEW pairs \in Seq(Int \X Int), NEW t \in Int, Counts(pairs, t)
  PROVE  Packets(pairs) = t
<1>1. PICK n \in Nat : n = Len(pairs) /\ DOMAIN pairs = 1..n
  BY LenProperties
<1>2. \A i \in 1..n : pairs[i] \in Int \X Int
  BY <1>1, ElementOfSeq
<1> DEFINE Eq(g) == g = [s \in SUBSET DOMAIN pairs |->
                           IF s = {} THEN 0
                             ELSE g[s \ {Max(s)}] + pairs[Max(s)][2] - pairs[Max(s)][1] + 1]
<1>3. Packets(pairs) = (CHOOSE g : Eq(g))[DOMAIN pairs]
  BY Zenon DEF Packets, FoldLeft, MapThenFoldSet
<1> DEFINE step == [tk \in Int \X (1..n) |->
                      tk[1] + pairs[tk[2]][2] - pairs[tk[2]][1] + 1]
<1>4. step \in [Int \X (1..n) -> Int]
  BY <1>2
<1>5. PICK h \in [SUBSET (1..n) -> Int] : FoldOn(h, n, 0, step)
  <2> HIDE DEF step
  <2> QED BY <1>4, FoldExists, 0 \in Int
<1>6. \A s \in SUBSET (1..n) : s # {} =>
        step[<<h[s \ {Max(s)}], Max(s)>>]
          = h[s \ {Max(s)}] + pairs[Max(s)][2] - pairs[Max(s)][1] + 1
  <2> TAKE s \in SUBSET (1..n)
  <2> HAVE s # {}
  <2>1. Max(s) \in 1..n /\ s \ {Max(s)} \in SUBSET (1..n)
    BY LargestBelow
  <2>2. h[s \ {Max(s)}] \in Int
    BY <1>5, <2>1
  <2> QED BY <2>1, <2>2
<1>7. Eq(h)
  <2> HIDE DEF step
  <2> QED BY <1>1, <1>5, <1>6 DEF FoldOn
<1>8. PICK g : Eq(g) /\ g = (CHOOSE i : Eq(i))
  <2> HIDE DEF Eq
  <2> QED BY <1>7
<1>9. \A s \in SUBSET (1..n) :
        g[s] = IF s = {} THEN 0
                 ELSE g[s \ {Max(s)}] + pairs[Max(s)][2] - pairs[Max(s)][1] + 1
  BY <1>1, <1>8
<1>10. PICK f \in [0..n -> Int] : /\ f[0] = 0
                                  /\ \A i \in 1..n : f[i] = f[i - 1] + Size(pairs[i])
                                  /\ f[n] = t
  BY <1>1 DEF Counts
<1> DEFINE S == {k \in Nat : k <= n => g[1..k] = f[k]}
<1>11. 0 \in S
  <2>1. 1..0 = {} /\ {} \in SUBSET (1..n)
    OBVIOUS
  <2> QED BY <1>9, <1>10, <2>1
<1>12. ASSUME NEW k \in Nat, k \in S PROVE k + 1 \in S
  <2> SUFFICES ASSUME k + 1 <= n PROVE g[1..(k + 1)] = f[k + 1]
    OBVIOUS
  <2>1. PICK j \in 1..n : j = k + 1 /\ j - 1 = k
    OBVIOUS
  <2>2. 1..j \in SUBSET (1..n) /\ 1..j # {}
    <3>1. j \in 1..j /\ 1..j \subseteq 1..n
      OBVIOUS
    <3> QED BY <3>1
  <2>3. Max(1..j) = j /\ (1..j) \ {j} = 1..(j - 1)
    BY LargestOfFirst
  <2>4. g[1..j] = g[1..(j - 1)] + pairs[j][2] - pairs[j][1] + 1
    BY <1>9, <2>2, <2>3
  <2>5. g[1..(j - 1)] = f[j - 1] /\ f[j - 1] \in Int
    BY <1>10, <1>12, <2>1
  <2>6. f[j] = f[j - 1] + (pairs[j][2] - pairs[j][1] + 1)
    BY <1>10 DEF Size
  <2>7. pairs[j][2] \in Int /\ pairs[j][1] \in Int
    BY <1>2
  <2>8. g[1..j] = f[j]
    <3>1. PICK c \in Int, a \in Int, b \in Int :
            c = f[j - 1] /\ a = pairs[j][1] /\ b = pairs[j][2]
      BY <2>5, <2>7
    <3>2. g[1..j] = c + b - a + 1 /\ f[j] = c + (b - a + 1)
      BY <2>4, <2>5, <2>6, <3>1
    <3> QED BY <3>2
  <2> QED BY <2>1, <2>8
<1>13. n \in S
  <2> HIDE DEF S
  <2> QED BY <1>11, <1>12, SetInduction
<1>14. g[1..n] = t
  BY <1>10, <1>13
<1> QED
  <2> HIDE DEF Eq
  <2> QED BY <1>1, <1>3, <1>8, <1>14

-----------------------------------------------------------------------------
\* Only the scan makes requests.
LEMMA RequestsStep ==
  ASSUME [Next]_vars, NEW r \in requests' \ requests
  PROVE  \E old \in SUBSET Stored :
           /\ ResendPairs(old) # <<>>
           /\ r = [to |-> NodeOf(supplierUID), ts |-> tsUID, pairs |-> ResendPairs(old)]
<1>1. CASE UNCHANGED vars
  BY <1>1 DEF vars, networkVars
<1>2. CASE \E s \in Supplier : SupplierNext(s)
  BY <1>2 DEF SupplierNext, SupplierSend, RecvNextTrans, ResendTake, ResendOne,
              ResendTimeout, SupplierCrash, RecvPleaseStartTrans, networkVars
<1>3. CASE NetworkNext
  BY <1>3 DEF NetworkNext, LoseData, LoseRequest, LoseControl
<1>4. CASE \E old \in SUBSET Stored : ResendScan(old)
  BY <1>4 DEF ResendScan
<1>5. CASE \E p \in data, again \in BOOLEAN : RecvData(p, again)
  BY <1>5 DEF RecvData
<1>6. CASE \/ RecvQueryReply \/ NotStartedTooLong
           \/ \E s \in Supplier : RecvIHave(s)
           \/ SendPleaseStartTrans
           \/ \E u \in Answering : RecvStartTrans(u)
           \/ RestartDecide \/ RestartClear \/ RestartQuery
  BY <1>6 DEF RecvQueryReply, NotStartedTooLong, RecvIHave, SendPleaseStartTrans,
              RecvStartTrans, RestartDecide, RestartClear, RestartQuery, networkVars
<1> QED BY <1>1, <1>2, <1>3, <1>4, <1>5, <1>6 DEF Next, ConsumerNext

\* A NEXT_TRANS asks for missing packets only, in rising order, within the limits.
THEOREM RequestsCorrect == Spec => RequestsOnlyMissing
<1>1. ASSUME IInv, [Next]_vars
      PROVE  \A r \in requests' \ requests :
               /\ Len(r.pairs) \in 1..MaxPairs
               /\ \A i \in 1..Len(r.pairs) :
                    /\ r.pairs[i][1] <= r.pairs[i][2]
                    /\ r.pairs[i][1]..r.pairs[i][2] \subseteq Missing
                    /\ i > 1 => r.pairs[i - 1][2] < r.pairs[i][1]
               /\ Packets(r.pairs) <= MaxResend
  <2> TAKE r \in requests' \ requests
  <2>1. ConstantsAssumption /\ StreamInv /\ MaxPairs \in Nat /\ MaxResend \in Nat
    BY <1>1, ConstantsAssumption DEF IInv, ConstantsAssumption
  <2>2. PICK old \in SUBSET Stored :
          /\ ResendPairs(old) # <<>>
          /\ r = [to |-> NodeOf(supplierUID), ts |-> tsUID, pairs |-> ResendPairs(old)]
    BY <1>1, RequestsStep
  <2>3. PICK pairs \in Seq(Int \X Int) :
          /\ pairs = r.pairs /\ pairs # <<>>
          /\ Len(pairs) <= MaxPairs
          /\ \E t \in 0..MaxResend : Counts(pairs, t)
          /\ \E m : Rising(pairs, m)
    BY <2>1, <2>2, ScanEnds
  <2>4. Len(pairs) \in 1..MaxPairs
    BY <2>1, <2>3, EmptySeq, LenProperties
  <2>5. \A i \in 1..Len(pairs) :
          /\ pairs[i][1] <= pairs[i][2]
          /\ pairs[i][1]..pairs[i][2] \subseteq Missing
          /\ i > 1 => pairs[i - 1][2] < pairs[i][1]
    BY <2>3 DEF Rising
  <2>6. PICK t \in 0..MaxResend : Counts(pairs, t)
    BY <2>3
  <2>7. Packets(pairs) <= MaxResend
    <3>1. Packets(pairs) = t
      BY <2>6, RangesSum
    <3>2. t <= MaxResend
      BY <2>1
    <3> QED BY <3>1, <3>2
  <2> QED BY <2>3, <2>4, <2>5, <2>7
<1> QED BY <1>1, Invariance, PTL DEF RequestsOnlyMissing, Spec
=============================================================================
