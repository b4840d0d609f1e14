-------------------------- MODULE LiveTransferProofs --------------------------
(***************************************************************************)
(* The safety of LiveTransfer for every number of suppliers, every limit   *)
(* and every bound.                                                        *)
(***************************************************************************)
EXTENDS LiveTransfer, SequenceTheorems, TLAPS

Slot == Packet \union {NULL}

\* Each packet of buf is in the slot of its number, counted from next.
Placed(buf, next, ts) ==
  \A k \in 1..Len(buf) : buf[k] # NULL =>
    buf[k].seq = next + k - 1 /\ buf[k].ts = ts /\ buf[k].body = buf[k].seq

Holed(buf) == buf # <<>> => buf[1] = NULL

Ended(buf) == buf # <<>> => buf[Len(buf)] # NULL

\* file ends just before number next, and is unbroken.
RunTo(file, next, ts) ==
  /\ file # <<>>
  /\ \A i \in 1..Len(file) :
       file[i].ts = ts /\ file[i].body + Len(file) = next + i - 1

\* What the receive thread leaves behind, in the new values.
StreamKept(ts) ==
  /\ nextPduSeq' \in Nat \ {0}
  /\ arrivedBufDeque' \in Seq(Slot)
  /\ written' \in Seq(Packet)
  /\ Placed(arrivedBufDeque', nextPduSeq', ts)
  /\ Holed(arrivedBufDeque')
  /\ Ended(arrivedBufDeque')
  /\ RunTo(written', nextPduSeq', ts)

-----------------------------------------------------------------------------
\* The first n elements of a sequence, and what is left of it.
LEMMA Prefix ==
  ASSUME NEW S, NEW T, NEW s \in Seq(S), NEW n \in 0..Len(s),
         \A i \in 1..n : s[i] \in T
  PROVE  /\ SubSeq(s, 1, n) \in Seq(T)
         /\ Len(SubSeq(s, 1, n)) = n
         /\ \A i \in 1..n : SubSeq(s, 1, n)[i] = s[i]
<1>1. Len(s) \in Nat /\ n \in Int /\ 1 \in Int
  BY LenProperties
<1>2. /\ SubSeq(s, 1, n) \in Seq(T)
      /\ Len(SubSeq(s, 1, n)) = IF 1 <= n THEN n - 1 + 1 ELSE 0
      /\ \A i \in 1..(n - 1 + 1) : SubSeq(s, 1, n)[i] = s[1 + i - 1]
  BY <1>1, SubSeqProperties
<1> QED BY <1>1, <1>2

LEMMA Suffix ==
  ASSUME NEW S, NEW s \in Seq(S), NEW n \in 0..Len(s)
  PROVE  /\ SubSeq(s, n + 1, Len(s)) \in Seq(S)
         /\ Len(SubSeq(s, n + 1, Len(s))) = Len(s) - n
         /\ \A k \in 1..(Len(s) - n) : SubSeq(s, n + 1, Len(s))[k] = s[n + k]
<1>1. Len(s) \in Nat /\ n + 1 \in Int /\ Len(s) \in Int
  BY LenProperties
<1>2. \A i \in (n + 1)..Len(s) : s[i] \in S
  BY <1>1, ElementOfSeq
<1>3. /\ SubSeq(s, n + 1, Len(s)) \in Seq(S)
      /\ Len(SubSeq(s, n + 1, Len(s))) =
           IF n + 1 <= Len(s) THEN Len(s) - (n + 1) + 1 ELSE 0
      /\ \A i \in 1..(Len(s) - (n + 1) + 1) :
           SubSeq(s, n + 1, Len(s))[i] = s[n + 1 + i - 1]
  BY <1>1, <1>2, SubSeqProperties
<1> QED BY <1>1, <1>3

\* Draining moves the leading packets of a well placed buffer to the end of the
\* file: no packet is lost, and the buffer starts with a hole again.
LEMMA DrainKeeps ==
  ASSUME ConstantsAssumption,
         NEW buf \in Seq(Slot), NEW next \in Nat \ {0}, NEW ts,
         NEW file \in Seq(Packet),
         Placed(buf, next, ts), Ended(buf), RunTo(file, next, ts),
         Drain(buf, next, file)
  PROVE  /\ StreamKept(ts)
         /\ Len(written') >= Len(file)
         /\ \A i \in 1..Len(file) : written'[i] = file[i]
<1>1. PICK n \in 0..Len(buf) :
        /\ \A i \in 1..n : buf[i] # NULL
        /\ n < Len(buf) => buf[n + 1] = NULL
        /\ nextPduSeq' = next + n
        /\ written' = file \o SubSeq(buf, 1, n)
        /\ arrivedBufDeque' = SubSeq(buf, n + 1, Len(buf))
  BY DEF Drain
<1>2. /\ Len(buf) \in Nat /\ n \in Nat /\ n <= Len(buf)
      /\ Len(file) \in Nat
  BY LenProperties
<1> DEFINE head == SubSeq(buf, 1, n)
           rest == SubSeq(buf, n + 1, Len(buf))
           long == file \o head
<1>3. /\ head \in Seq(Packet)
      /\ Len(head) = n
      /\ \A i \in 1..n : head[i] = buf[i]
  <2>1. ASSUME NEW i \in 1..n PROVE buf[i] \in Packet
    <3>1. i \in 1..Len(buf)
      BY <1>2
    <3>2. buf[i] \in Slot
      BY <3>1, ElementOfSeq
    <3> QED BY <3>2, <1>1 DEF Slot
  <2> QED BY <2>1, Prefix
<1>4. /\ rest \in Seq(Slot)
      /\ Len(rest) = Len(buf) - n
      /\ \A k \in 1..(Len(buf) - n) : rest[k] = buf[n + k]
  BY Suffix
<1>5. /\ long \in Seq(Packet)
      /\ Len(long) = Len(file) + n
      /\ \A i \in 1..Len(file) : long[i] = file[i]
      /\ \A k \in 1..n : long[Len(file) + k] = buf[k]
  <2>1. /\ long \in Seq(Packet)
        /\ Len(long) = Len(file) + n
        /\ \A i \in 1..(Len(file) + n) :
             long[i] = IF i <= Len(file) THEN file[i] ELSE head[i - Len(file)]
    BY <1>3, ConcatProperties, ZenonT(40)
  <2> HIDE DEF long, head
  <2>2. ASSUME NEW i \in 1..Len(file) PROVE long[i] = file[i]
    BY <2>1, <1>2, SMTT(40)
  <2>3. ASSUME NEW k \in 1..n PROVE long[Len(file) + k] = buf[k]
    <3>1. /\ Len(file) + k \in 1..(Len(file) + n)
          /\ ~(Len(file) + k <= Len(file))
          /\ (Len(file) + k) - Len(file) = k
      BY <1>2
    <3>2. long[Len(file) + k] = head[k]
      BY <3>1, <2>1
    <3> QED BY <3>2, <1>3
  <2> QED BY <2>1, <2>2, <2>3
<1> HIDE DEF head, rest, long
<1>6. Placed(rest, next + n, ts)
  <2> SUFFICES ASSUME NEW k \in 1..Len(rest), rest[k] # NULL
               PROVE  /\ rest[k].seq = next + n + k - 1 /\ rest[k].ts = ts
                      /\ rest[k].body = rest[k].seq
    BY DEF Placed
  <2>1. n + k \in 1..Len(buf) /\ rest[k] = buf[n + k] /\ k \in Nat
    BY <1>2, <1>4, SMTT(40)
  <2>2. /\ buf[n + k].seq = next + (n + k) - 1 /\ buf[n + k].ts = ts
        /\ buf[n + k].body = buf[n + k].seq
    BY <2>1 DEF Placed
  <2> QED BY <2>1, <2>2, <1>2
<1>7. Holed(rest)
  <2> SUFFICES ASSUME rest # <<>> PROVE rest[1] = NULL
    BY DEF Holed
  <2>1. Len(rest) \in Nat \ {0}
    BY <1>4, EmptySeq
  <2>2. n < Len(buf) /\ rest[1] = buf[n + 1]
    BY <2>1, <1>2, <1>4, SMTT(40)
  <2> QED BY <2>2, <1>1
<1>8. Ended(rest)
  <2> SUFFICES ASSUME rest # <<>> PROVE rest[Len(rest)] # NULL
    BY DEF Ended
  <2>1. Len(rest) \in Nat \ {0}
    BY <1>4, EmptySeq
  <2>2. Len(buf) > n /\ rest[Len(rest)] = buf[Len(buf)]
    <3>1. /\ Len(rest) = Len(buf) - n
          /\ Len(rest) \in 1..(Len(buf) - n)
          /\ n + Len(rest) = Len(buf)
      BY <2>1, <1>2, <1>4
    <3>2. rest[Len(rest)] = buf[n + Len(rest)]
      BY <3>1, <1>4
    <3> QED BY <3>1, <3>2, <2>1, <1>2
  <2>3. buf # <<>>
    BY <2>2, <1>2, EmptySeq
  <2> QED BY <2>2, <2>3 DEF Ended
<1>9. RunTo(long, next + n, ts)
  <2>1. Len(file) > 0
    BY <1>2, EmptySeq DEF RunTo
  <2>2. long # <<>>
    BY <2>1, <1>2, <1>5, EmptySeq
  <2>3. ASSUME NEW i \in 1..Len(long)
        PROVE  long[i].ts = ts /\ long[i].body + Len(long) = next + n + i - 1
    <3>1. CASE i <= Len(file)
      <4>1. i \in 1..Len(file) /\ long[i] = file[i] /\ i \in Nat
        BY <3>1, <1>2, <1>5, SMTT(40)
      <4>2. file[i].ts = ts /\ file[i].body + Len(file) = next + i - 1
        BY <4>1 DEF RunTo
      <4>3. file[i].body \in Nat
        BY <4>1, ElementOfSeq DEF Packet
      <4>4. PICK b \in Nat : b = file[i].body
        BY <4>3
      <4>5. PICK l \in Nat : l = Len(file)
        BY <1>2
      <4>6. b + l = next + i - 1
        BY <4>2, <4>4, <4>5
      <4>7. b + (l + n) = next + n + i - 1
        BY <4>1, <4>6, <1>2
      <4> QED BY <4>1, <4>2, <4>4, <4>5, <4>7, <1>5
    <3>2. CASE i > Len(file)
      <4>1. PICK k \in 1..n : i = Len(file) + k
        <5>1. \A j, l, m \in Nat : j > l /\ j <= l + m =>
                j - l \in 1..m /\ j = l + (j - l)
          OBVIOUS
        <5>2. i \in Nat /\ i <= Len(file) + n
          BY <1>2, <1>5
        <5>3. i - Len(file) \in 1..n /\ i = Len(file) + (i - Len(file))
          BY <3>2, <1>2, <5>1, <5>2
        <5> QED BY <5>3
      <4>2. long[i] = buf[k] /\ buf[k] # NULL /\ k \in 1..Len(buf)
        <5>1. long[i] = buf[k]
          BY <4>1, <1>5
        <5>2. buf[k] # NULL
          BY <1>1
        <5>3. k \in 1..Len(buf)
          BY <1>2
        <5> QED BY <5>1, <5>2, <5>3
      <4>3. buf[k].ts = ts /\ buf[k].body = next + k - 1
        BY <4>2 DEF Placed
      <4>4. (next + k - 1) + (Len(file) + n) = next + n + i - 1
        BY <4>1, <1>2, SMTT(40)
      <4> QED BY <4>2, <4>3, <4>4, <1>5
    <3> QED BY <3>1, <3>2, <1>2, <1>5
  <2> QED BY <2>2, <2>3 DEF RunTo
<1>10. next + n \in Nat \ {0}
  BY <1>2
<1>11. /\ nextPduSeq' = next + n /\ written' = long /\ arrivedBufDeque' = rest
  BY <1>1 DEF head, rest, long
<1>12. StreamKept(ts)
  BY <1>4, <1>5, <1>6, <1>7, <1>8, <1>9, <1>10, <1>11 DEF StreamKept
<1>13. /\ Len(long) >= Len(file)
       /\ \A i \in 1..Len(file) : long[i] = file[i]
  BY <1>2, <1>5, SMTT(40)
<1> QED BY <1>11, <1>12, <1>13

\* Without its first slot a well placed buffer is one for the next number.
LEMMA TailKeeps ==
  ASSUME NEW buf \in Seq(Slot), NEW next \in Nat \ {0}, NEW ts,
         buf # <<>>, Placed(buf, next, ts), Ended(buf)
  PROVE  /\ Tail(buf) \in Seq(Slot)
         /\ Placed(Tail(buf), next + 1, ts)
         /\ Ended(Tail(buf))
<1>1. /\ Tail(buf) \in Seq(Slot)
      /\ Len(Tail(buf)) = Len(buf) - 1
      /\ \A i \in 1..Len(Tail(buf)) : Tail(buf)[i] = buf[i + 1]
  BY HeadTailProperties
<1>2. Len(buf) \in Nat \ {0}
  BY EmptySeq
<1> DEFINE rest == Tail(buf)
<1>3. /\ rest \in Seq(Slot)
      /\ Len(rest) = Len(buf) - 1
      /\ \A i \in 1..Len(rest) : rest[i] = buf[i + 1]
  BY <1>1
<1> HIDE DEF rest
<1>4. Placed(rest, next + 1, ts)
  <2> SUFFICES ASSUME NEW k \in 1..Len(rest), rest[k] # NULL
               PROVE  /\ rest[k].seq = next + 1 + k - 1 /\ rest[k].ts = ts
                      /\ rest[k].body = rest[k].seq
    BY DEF Placed
  <2>1. k + 1 \in 1..Len(buf) /\ rest[k] = buf[k + 1] /\ k \in Nat
    BY <1>2, <1>3
  <2>2. /\ buf[k + 1].seq = next + (k + 1) - 1 /\ buf[k + 1].ts = ts
        /\ buf[k + 1].body = buf[k + 1].seq
    BY <2>1 DEF Placed
  <2> QED BY <2>1, <2>2
<1>5. Ended(rest)
  <2> SUFFICES ASSUME rest # <<>> PROVE rest[Len(rest)] # NULL
    BY DEF Ended
  <2>1. Len(rest) \in Nat \ {0}
    BY <1>3, EmptySeq
  <2>2. rest[Len(rest)] = buf[Len(rest) + 1] /\ Len(rest) + 1 = Len(buf)
    BY <1>2, <1>3, <2>1
  <2> QED BY <2>2 DEF Ended
<1> QED BY <1>3, <1>4, <1>5 DEF rest

\* The packet the file needs next continues it, and begins it when it is empty.
LEMMA AppendKeeps ==
  ASSUME NEW p \in Packet, NEW next \in Nat \ {0}, NEW ts,
         NEW file \in Seq(Packet),
         p.seq = next, p.ts = ts, p.body = p.seq,
         file = <<>> \/ RunTo(file, next, ts)
  PROVE  /\ Append(file, p) \in Seq(Packet)
         /\ RunTo(Append(file, p), next + 1, ts)
         /\ Len(Append(file, p)) = Len(file) + 1
         /\ \A i \in 1..Len(file) : Append(file, p)[i] = file[i]
<1> DEFINE long == Append(file, p)
<1>1. /\ long \in Seq(Packet)
      /\ long # <<>>
      /\ Len(long) = Len(file) + 1
      /\ \A i \in 1..Len(file) : long[i] = file[i]
      /\ long[Len(file) + 1] = p
  BY AppendProperties
<1>2. Len(file) \in Nat
  BY LenProperties
<1> HIDE DEF long
<1>3. ASSUME NEW i \in 1..Len(long)
      PROVE  long[i].ts = ts /\ long[i].body + Len(long) = next + 1 + i - 1
  <2>1. CASE i = Len(file) + 1
    BY <2>1, <1>1, <1>2
  <2>2. CASE i # Len(file) + 1
    <3>1. i \in 1..Len(file) /\ long[i] = file[i]
      BY <2>2, <1>1, <1>2
    <3>2. file # <<>>
      BY <3>1, EmptySeq
    <3>3. file[i].ts = ts /\ file[i].body + Len(file) = next + i - 1
      BY <3>1, <3>2 DEF RunTo
    <3>4. PICK b \in Nat : b = file[i].body
      <4>1. file[i] \in Packet
        BY <3>1, ElementOfSeq
      <4>2. file[i].body \in Nat
        BY <4>1 DEF Packet
      <4> QED BY <4>2
    <3>5. PICK l \in Nat : l = Len(file)
      BY <1>2
    <3>6. b + l = next + i - 1
      BY <3>3, <3>4, <3>5
    <3>7. b + (l + 1) = next + 1 + i - 1
      BY <3>6
    <3> QED BY <3>1, <3>3, <3>4, <3>5, <3>7, <1>1
  <2> QED BY <2>1, <2>2
<1>4. RunTo(long, next + 1, ts)
  BY <1>1, <1>3 DEF RunTo
<1> QED BY <1>1, <1>4 DEF long

\* A packet ahead goes to the slot of its number; the buffer may now end there.
LEMMA FillKeeps ==
  ASSUME ConstantsAssumption,
         NEW p \in Packet, NEW buf \in Seq(Slot), NEW next \in Nat \ {0}, NEW ts,
         p.seq > next, p.ts = ts, p.body = p.seq,
         Placed(buf, next, ts), Ended(buf)
  PROVE  /\ FillSlot(buf, next, p) \in Seq(Slot)
         /\ Placed(FillSlot(buf, next, p), next, ts)
         /\ Ended(FillSlot(buf, next, p))
<1>1. Len(buf) \in Nat
  BY LenProperties
<1>2. p.seq \in Nat /\ p # NULL /\ p \in Slot /\ NULL \in Slot
  BY DEF Packet, Slot, ConstantsAssumption
<1>3. PICK slot \in Nat \ {0} : slot = p.seq - next + 1 /\ p.seq = next + slot - 1
  <2>1. PICK q \in Nat : q = p.seq /\ q > next
    BY <1>2
  <2>2. q - next + 1 \in Nat \ {0} /\ q = next + (q - next + 1) - 1
    BY <2>1, SMTT(40)
  <2> QED BY <2>1, <2>2
<1>4. PICK size \in Nat \ {0} :
        /\ size = (IF Len(buf) < slot THEN slot ELSE Len(buf))
        /\ size >= slot /\ size >= Len(buf)
        /\ size = slot \/ size = Len(buf)
  <2>1. PICK l \in Nat : l = Len(buf)
    BY <1>1
  <2>2. slot \in Nat \ {0}
    BY <1>3
  <2>3. CASE l < slot
    <3>1. slot = (IF l < slot THEN slot ELSE l) /\ slot >= slot /\ slot >= l
      BY <2>2, <2>3
    <3> QED BY <2>1, <2>2, <3>1
  <2>4. CASE ~(l < slot)
    <3>1. l = (IF l < slot THEN slot ELSE l) /\ l >= slot /\ l >= l /\ l \in Nat \ {0}
      BY <2>2, <2>4
    <3> QED BY <2>1, <3>1
  <2> QED BY <2>3, <2>4
<1> DEFINE full == [i \in 1..size |->
                     IF i <= Len(buf) /\ buf[i] # NULL THEN buf[i]
                     ELSE IF i = slot THEN p ELSE NULL]
<1>5. FillSlot(buf, next, p) = full
  BY <1>3, <1>4 DEF FillSlot
<1>6. full \in [1..size -> Slot]
  <2> SUFFICES ASSUME NEW i \in 1..size
               PROVE  (IF i <= Len(buf) /\ buf[i] # NULL THEN buf[i]
                       ELSE IF i = slot THEN p ELSE NULL) \in Slot
    OBVIOUS
  <2>1. CASE i <= Len(buf)
    <3>1. buf[i] \in Slot
      BY <2>1, <1>1, ElementOfSeq
    <3> QED BY <3>1, <1>2
  <2>2. CASE ~(i <= Len(buf))
    BY <2>2, <1>2
  <2> QED BY <2>1, <2>2
<1>7. full \in Seq(Slot) /\ Len(full) = size
  <2>1. full \in Seq(Slot)
    BY <1>6, SeqDef
  <2>2. DOMAIN full = 1..size
    OBVIOUS
  <2> QED BY <2>1, <2>2, LenProperties
<1>8. \A i \in 1..size :
        /\ full[i] = p \/ full[i] = NULL \/ (i \in 1..Len(buf) /\ full[i] = buf[i])
        /\ full[i] = p /\ ~(i \in 1..Len(buf) /\ full[i] = buf[i]) => i = slot
        /\ i \in 1..Len(buf) /\ buf[i] # NULL => full[i] = buf[i]
        /\ i = slot => full[i] # NULL
  BY <1>1, <1>2
<1> HIDE DEF full
<1>9. Placed(full, next, ts)
  <2> SUFFICES ASSUME NEW k \in 1..Len(full), full[k] # NULL
               PROVE  /\ full[k].seq = next + k - 1 /\ full[k].ts = ts
                      /\ full[k].body = full[k].seq
    BY DEF Placed
  <2>1. CASE k \in 1..Len(buf) /\ full[k] = buf[k]
    BY <2>1 DEF Placed
  <2>2. CASE ~(k \in 1..Len(buf) /\ full[k] = buf[k])
    <3>1. full[k] = p /\ k = slot
      BY <2>2, <1>7, <1>8
    <3> QED BY <3>1, <1>3
  <2> QED BY <2>1, <2>2
<1>10. full[size] # NULL
  <2>1. CASE size = slot
    BY <2>1, <1>8, <1>4, SMTT(40)
  <2>2. CASE size = Len(buf)
    <3>1. buf # <<>>
      BY <2>2, <1>4, EmptySeq
    <3>2. buf[Len(buf)] # NULL /\ size \in 1..Len(buf) /\ size \in 1..size
      BY <3>1, <2>2, <1>4 DEF Ended
    <3>3. full[size] = buf[size]
      BY <3>2, <2>2, <1>8
    <3> QED BY <3>2, <3>3, <2>2
  <2> QED BY <2>1, <2>2, <1>4
<1>11. Ended(full)
  BY <1>7, <1>10 DEF Ended
<1> QED BY <1>5, <1>7, <1>9, <1>11

\* One packet, in order, ahead, repeated or late, from a buffer that is well
\* placed: the receive thread leaves a well placed buffer and an unbroken file,
\* and takes nothing back from the file.
LEMMA ReorderKeeps ==
  ASSUME ConstantsAssumption,
         NEW p \in Packet, NEW buf \in Seq(Slot), NEW next \in Nat \ {0}, NEW ts,
         NEW file \in Seq(Packet),
         p.ts = ts, p.body = p.seq,
         Placed(buf, next, ts), Holed(buf), Ended(buf),
         RunTo(file, next, ts) \/ (file = <<>> /\ buf = <<>> /\ p.seq = next),
         Reorder(p, buf, next, file)
  PROVE  /\ StreamKept(ts)
         /\ Len(written') >= Len(file)
         /\ \A i \in 1..Len(file) : written'[i] = file[i]
<1>1. p.seq \in Nat /\ Len(file) \in Nat
  BY LenProperties DEF Packet
<1>2. CASE p.seq = next /\ Drain(PopHead(buf, p), next + 1, Append(file, p))
  <2>1. /\ PopHead(buf, p) \in Seq(Slot)
        /\ Placed(PopHead(buf, p), next + 1, ts)
        /\ Ended(PopHead(buf, p))
    <3>1. CASE buf = <<>>
      <4>1. PopHead(buf, p) = <<>>
        BY <3>1 DEF PopHead
      <4>2. <<>> \in Seq(Slot) /\ Len(<<>>) = 0
        BY EmptySeq
      <4> QED BY <4>1, <4>2 DEF Placed, Ended
    <3>2. CASE buf # <<>>
      <4>1. PopHead(buf, p) = Tail(buf)
        BY <3>2 DEF PopHead, Holed
      <4> QED BY <4>1, <3>2, TailKeeps
    <3> QED BY <3>1, <3>2
  <2>2. /\ Append(file, p) \in Seq(Packet)
        /\ RunTo(Append(file, p), next + 1, ts)
        /\ Len(Append(file, p)) = Len(file) + 1
        /\ \A i \in 1..Len(file) : Append(file, p)[i] = file[i]
    BY <1>2, AppendKeeps, SMTT(40)
  <2>3. next + 1 \in Nat \ {0}
    BY SMTT(40)
  <2> DEFINE long == Append(file, p)
             pop == PopHead(buf, p)
  <2>4. /\ long \in Seq(Packet) /\ RunTo(long, next + 1, ts)
        /\ Len(long) = Len(file) + 1
        /\ \A i \in 1..Len(file) : long[i] = file[i]
        /\ pop \in Seq(Slot) /\ Placed(pop, next + 1, ts) /\ Ended(pop)
        /\ Drain(pop, next + 1, long)
    BY <2>1, <2>2, <1>2
  <2> HIDE DEF long, pop
  <2>5. /\ StreamKept(ts)
        /\ Len(written') >= Len(long)
        /\ \A i \in 1..Len(long) : written'[i] = long[i]
    BY <2>3, <2>4, DrainKeeps, ZenonT(40)
  <2>6. StreamKept(ts) => Len(written') \in Nat
    BY LenProperties DEF StreamKept
  <2>7. Len(written') >= Len(file)
    BY <2>4, <2>5, <2>6, <1>1
  <2>8. ASSUME NEW i \in 1..Len(file) PROVE written'[i] = file[i]
    <3>1. i \in 1..Len(long)
      BY <2>4, <1>1
    <3> QED BY <3>1, <2>4, <2>5
  <2> QED BY <2>5, <2>7, <2>8
<1>3. CASE p.seq > next /\ Drain(FillSlot(buf, next, p), next, file)
  <2> DEFINE full == FillSlot(buf, next, p)
  <2>1. /\ full \in Seq(Slot) /\ Placed(full, next, ts) /\ Ended(full)
    BY <1>3, FillKeeps
  <2>2. RunTo(file, next, ts)
    BY <1>3, <1>1
  <2>3. Drain(full, next, file)
    BY <1>3
  <2> HIDE DEF full
  <2> QED BY <2>1, <2>2, <2>3, DrainKeeps
<1>4. CASE p.seq = next - 1 /\ Drain(buf, next, file)
  <2>1. RunTo(file, next, ts)
    BY <1>4, <1>1
  <2> QED BY <2>1, <1>4, DrainKeeps
<1>5. CASE /\ p.seq < next - 1
           /\ nextPduSeq' = next /\ written' = file /\ arrivedBufDeque' = buf
  <2>1. RunTo(file, next, ts)
    BY <1>5, <1>1
  <2> QED BY <2>1, <1>5, <1>1 DEF StreamKept
<1> QED BY <1>2, <1>3, <1>4, <1>5 DEF Reorder

-----------------------------------------------------------------------------
(* The inductive invariant, in four parts that different actions disturb.  *)

SessionInv ==
  /\ entry \in [Supplier -> BOOLEAN]
  /\ control \subseteq Control
  /\ Status \in Statuses
  /\ supplierUID \in UIDs \union {NoSupplier}
  /\ Status \in {"ctsQueryFinished", "ctsStarted"} => supplierUID \in UIDs
  /\ restart \in {"idle", "decided", "cleared"}

\* que holds at most SentLimit packets of process u, the last of them before number next.
Kept(que, next, u) ==
  /\ Len(que) <= SentLimit
  /\ \A k \in 1..Len(que) :
       /\ que[k].seq + Len(que) = next + k - 1
       /\ que[k].ts = u
       /\ que[k].body = que[k].seq

SentInv ==
  /\ life \in [Supplier -> Nat \ {0}]
  /\ seqNum \in [Supplier -> Nat \ {0}]
  /\ sentBufQue \in [Supplier -> Seq(Packet)]
  /\ \A s \in Supplier : Kept(sentBufQue[s], seqNum[s], UID(s))

DataInv ==
  /\ data \subseteq Packet
  /\ \A p \in data : p.body = p.seq

Unbroken(file) ==
  \A i \in 1..Len(file) :
    file[i].ts = file[1].ts /\ file[i].body = file[1].body + i - 1

StreamInv ==
  /\ tsUID \in UIDs \union {NoSupplier}
  /\ lastTsUID \in UIDs \union {NoSupplier}
  /\ nextPduSeq \in Nat
  /\ arrivedBufDeque \in Seq(Slot)
  /\ written \in Seq(Packet)
  /\ Unbroken(written)
  /\ nextPduSeq = 0 => arrivedBufDeque = <<>>
  /\ nextPduSeq > 0 =>
       /\ Placed(arrivedBufDeque, nextPduSeq, lastTsUID)
       /\ Holed(arrivedBufDeque)
       /\ Ended(arrivedBufDeque)
       /\ RunTo(written, nextPduSeq, lastTsUID)
       /\ tsUID = lastTsUID

IInv == SessionInv /\ SentInv /\ DataInv /\ StreamInv

-----------------------------------------------------------------------------
\* A file that ends just before a number is unbroken, and its last packet has
\* the number before.
LEMMA RunUnbroken ==
  ASSUME NEW file \in Seq(Packet), NEW next \in Nat, NEW ts, RunTo(file, next, ts)
  PROVE  /\ Unbroken(file)
         /\ file[1].ts = ts
         /\ file[Len(file)].ts = ts
         /\ file[Len(file)].body + 1 = next
<1>1. Len(file) \in Nat \ {0}
  BY EmptySeq DEF RunTo
<1>2. \A i \in 1..Len(file) : file[i].body \in Nat
  <2> SUFFICES ASSUME NEW i \in 1..Len(file) PROVE file[i].body \in Nat
    OBVIOUS
  <2>1. file[i] \in Packet
    BY ElementOfSeq
  <2> QED BY <2>1 DEF Packet
<1>3. 1 \in 1..Len(file) /\ Len(file) \in 1..Len(file)
  BY <1>1
<1>4. PICK l \in Nat \ {0} : l = Len(file)
  BY <1>1
<1>5. PICK b \in Nat : b = file[1].body
  <2>1. file[1].body \in Nat
    BY <1>2, <1>3
  <2> QED BY <2>1
<1>6. file[1].ts = ts /\ b + l = next
  <2>1. file[1].ts = ts /\ b + l = next + 1 - 1
    BY <1>3, <1>4, <1>5 DEF RunTo
  <2> QED BY <2>1
<1>7. ASSUME NEW i \in 1..Len(file)
      PROVE  file[i].ts = ts /\ file[i].body = b + i - 1
  <2>1. file[i].ts = ts /\ file[i].body + l = next + i - 1
    BY <1>4 DEF RunTo
  <2>2. PICK c \in Nat : c = file[i].body
    <3>1. file[i].body \in Nat
      BY <1>2
    <3> QED BY <3>1
  <2>3. c = b + i - 1
    BY <2>1, <2>2, <1>4, <1>6, SMTT(40)
  <2> QED BY <2>1, <2>2, <2>3
<1>8. Unbroken(file)
  BY <1>5, <1>6, <1>7 DEF Unbroken
<1>9. file[Len(file)].ts = ts /\ file[Len(file)].body = b + l - 1
  BY <1>3, <1>4, <1>7
<1>10. file[Len(file)].body + 1 = next
  <2>1. b + l - 1 + 1 = next
    BY <1>4, <1>6
  <2> QED BY <2>1, <1>9
<1> QED BY <1>6, <1>8, <1>9, <1>10

\* The receive thread on one datagram: which of its cases it is in, and that
\* each of them is a case of ReorderKeeps or leaves the file alone.
LEMMA RecvDataCases ==
  ASSUME ConstantsAssumption, DataInv, StreamInv,
         NEW p \in data, NEW again, RecvData(p, again)
  PROVE  \/ /\ lastTsUID' \in UIDs
            /\ arrivedBufDeque' = <<>> /\ nextPduSeq' = 0
            /\ UNCHANGED <<tsUID, written>>
         \/ UNCHANGED streamVars
         \/ /\ nextPduSeq > 0 => p.ts # lastTsUID
            /\ tsUID' = p.ts /\ lastTsUID' = p.ts
            /\ Reorder(p, <<>>, p.seq, <<>>)
         \/ /\ nextPduSeq > 0 /\ p.ts = lastTsUID
            /\ UNCHANGED <<tsUID, lastTsUID>>
            /\ Reorder(p, arrivedBufDeque, nextPduSeq, written)
<1> DEFINE changed == NewTs(p)
           buf == IF changed THEN <<>> ELSE arrivedBufDeque
           next == IF changed THEN 0 ELSE nextPduSeq
<1>1. p \in Packet /\ p.ts \in UIDs
  BY DEF DataInv, Packet
<1>2. nextPduSeq > 0 => lastTsUID \in UIDs
  <2> SUFFICES ASSUME nextPduSeq > 0 PROVE lastTsUID \in UIDs
    OBVIOUS
  <2>1. RunTo(written, nextPduSeq, lastTsUID) /\ written \in Seq(Packet)
    BY DEF StreamInv
  <2>2. written[1].ts = lastTsUID
    BY <2>1, RunUnbroken DEF StreamInv
  <2>3. Len(written) \in Nat \ {0}
    BY <2>1, EmptySeq DEF RunTo
  <2>4. written[1] \in Packet
    BY <2>1, <2>3, ElementOfSeq
  <2> QED BY <2>2, <2>4 DEF Packet
<1>3. CASE /\ lastTsUID' = IF changed THEN p.ts ELSE lastTsUID
           /\ arrivedBufDeque' = buf
           /\ nextPduSeq' = next
           /\ UNCHANGED <<tsUID, written>>
  BY <1>1, <1>3 DEF streamVars
<1>4. CASE /\ next = 0
           /\ tsUID' = p.ts
           /\ lastTsUID' = p.ts
           /\ Reorder(p, buf, p.seq, <<>>)
  <2>1. buf = <<>>
    BY <1>4 DEF StreamInv
  <2>2. nextPduSeq > 0 => p.ts # lastTsUID
    BY <1>4 DEF NewTs
  <2> QED BY <1>4, <2>1, <2>2
<1>5. CASE /\ next > 0
           /\ UNCHANGED <<tsUID, lastTsUID>>
           /\ Reorder(p, buf, next, written)
  <2>1. ~changed
    BY <1>5
  <2>2. nextPduSeq > 0 /\ p.ts = lastTsUID
    BY <1>5, <2>1, <1>2 DEF ConstantsAssumption, NewTs
  <2> QED BY <1>5, <2>1, <2>2
<1>6. \/ /\ lastTsUID' = IF changed THEN p.ts ELSE lastTsUID
         /\ arrivedBufDeque' = buf
         /\ nextPduSeq' = next
         /\ UNCHANGED <<tsUID, written>>
      \/ /\ next = 0
         /\ tsUID' = p.ts
         /\ lastTsUID' = p.ts
         /\ Reorder(p, buf, p.seq, <<>>)
      \/ /\ next > 0
         /\ UNCHANGED <<tsUID, lastTsUID>>
         /\ Reorder(p, buf, next, written)
  BY DEF RecvData
<1> HIDE DEF changed, buf, next
<1> QED BY <1>3, <1>4, <1>5, <1>6

-----------------------------------------------------------------------------
\* The stream part holds again after what the receive thread left behind.
LEMMA StreamKeptInv ==
  ASSUME NEW ts \in UIDs, StreamKept(ts), tsUID' = ts, lastTsUID' = ts
  PROVE  StreamInv'
<1>1. Unbroken(written')
  BY RunUnbroken DEF StreamKept
<1>2. Unbroken(written)' /\ nextPduSeq' # 0
  BY <1>1 DEF Unbroken, StreamKept
<1>3. /\ Placed(arrivedBufDeque, nextPduSeq, lastTsUID)'
      /\ Holed(arrivedBufDeque)'
      /\ Ended(arrivedBufDeque)'
      /\ RunTo(written, nextPduSeq, lastTsUID)'
  BY DEF StreamKept, Placed, Holed, Ended, RunTo
<1>4. /\ tsUID' \in UIDs \union {NoSupplier}
      /\ lastTsUID' \in UIDs \union {NoSupplier}
      /\ nextPduSeq' \in Nat
      /\ arrivedBufDeque' \in Seq(Slot)
      /\ written' \in Seq(Packet)
  BY DEF StreamKept
<1> QED BY <1>2, <1>3, <1>4 DEF StreamInv

\* Steps that leave the stream alone.
LEMMA StreamUnchanged ==
  ASSUME StreamInv, UNCHANGED streamVars
  PROVE  StreamInv'
BY DEF StreamInv, streamVars, Placed, Holed, Ended, RunTo, Unbroken, Slot

\* One datagram's handling keeps the stream part of the invariant.
LEMMA RecvDataStream ==
  ASSUME ConstantsAssumption, DataInv, StreamInv,
         NEW p \in data, NEW again, RecvData(p, again)
  PROVE  StreamInv'
<1>1. p \in Packet /\ p.ts \in UIDs /\ p.seq \in Nat \ {0} /\ p.body = p.seq
  BY DEF DataInv, Packet
<1>2. CASE /\ lastTsUID' \in UIDs
           /\ arrivedBufDeque' = <<>> /\ nextPduSeq' = 0
           /\ UNCHANGED <<tsUID, written>>
  <2>1. arrivedBufDeque' \in Seq(Slot) /\ nextPduSeq' \in Nat /\ ~(nextPduSeq' > 0)
    BY <1>2, EmptySeq
  <2>2. /\ tsUID' \in UIDs \union {NoSupplier}
        /\ lastTsUID' \in UIDs \union {NoSupplier}
        /\ written' \in Seq(Packet)
    BY <1>2 DEF StreamInv
  <2>3. Unbroken(written)'
    BY <1>2 DEF StreamInv, Unbroken
  <2> QED BY <1>2, <2>1, <2>2, <2>3 DEF StreamInv
<1>3. CASE UNCHANGED streamVars
  BY <1>3, StreamUnchanged
<1>4. CASE /\ tsUID' = p.ts /\ lastTsUID' = p.ts
           /\ Reorder(p, <<>>, p.seq, <<>>)
  <2>1. <<>> \in Seq(Slot) /\ <<>> \in Seq(Packet) /\ Len(<<>>) = 0
    BY EmptySeq
  <2>2. Placed(<<>>, p.seq, p.ts) /\ Holed(<<>>) /\ Ended(<<>>)
    BY <2>1 DEF Placed, Holed, Ended
  <2>3. StreamKept(p.ts)
    BY <1>1, <1>4, <2>1, <2>2, ReorderKeeps
  <2> QED BY <1>1, <1>4, <2>3, StreamKeptInv
<1>5. CASE /\ nextPduSeq > 0 /\ p.ts = lastTsUID
           /\ UNCHANGED <<tsUID, lastTsUID>>
           /\ Reorder(p, arrivedBufDeque, nextPduSeq, written)
  <2>1. /\ Placed(arrivedBufDeque, nextPduSeq, lastTsUID)
        /\ Holed(arrivedBufDeque)
        /\ Ended(arrivedBufDeque)
        /\ RunTo(written, nextPduSeq, lastTsUID)
        /\ tsUID = lastTsUID
        /\ nextPduSeq \in Nat \ {0}
        /\ arrivedBufDeque \in Seq(Slot)
        /\ written \in Seq(Packet)
    BY <1>5 DEF StreamInv
  <2>2. StreamKept(lastTsUID)
    BY <1>1, <1>5, <2>1, ReorderKeeps, SMTT(40)
  <2> QED BY <1>1, <1>5, <2>1, <2>2, StreamKeptInv
<1> QED BY <1>2, <1>3, <1>4, <1>5, RecvDataCases

\* Steps other than RecvData and RestartClear do not touch the stream.
LEMMA StreamOnly ==
  ASSUME [Next]_vars
  PROVE  \/ \E p \in data, again \in BOOLEAN : RecvData(p, again)
         \/ RestartClear
         \/ UNCHANGED streamVars
<1>1. ASSUME NEW s \in Supplier, SupplierNext(s) PROVE UNCHANGED streamVars
  BY <1>1 DEF SupplierNext, SupplierSend, RecvNextTrans, ResendTake, ResendOne,
     ResendTimeout, SupplierCrash, RecvPleaseStartTrans
<1>2. ASSUME NetworkNext PROVE UNCHANGED streamVars
  BY <1>2 DEF NetworkNext, LoseData, LoseRequest, LoseControl
<1>3. ASSUME ConsumerNext
      PROVE  \/ \E p \in data, again \in BOOLEAN : RecvData(p, again)
             \/ RestartClear
             \/ UNCHANGED streamVars
  BY <1>3 DEF ConsumerNext, ResendScan, RecvQueryReply, NotStartedTooLong, RecvIHave,
     SendPleaseStartTrans, RecvStartTrans, RestartDecide, RestartQuery
<1>4. CASE UNCHANGED vars
  BY <1>4 DEF vars
<1> QED BY <1>1, <1>2, <1>3, <1>4 DEF Next

\* The stream part holds after every step.
LEMMA StreamStep ==
  ASSUME ConstantsAssumption, DataInv, StreamInv, [Next]_vars
  PROVE  StreamInv'
<1>1. ASSUME NEW p \in data, NEW again \in BOOLEAN, RecvData(p, again)
      PROVE  StreamInv'
  BY <1>1, RecvDataStream
<1>2. CASE RestartClear
  <2>1. <<>> \in Seq(Slot)
    BY EmptySeq
  <2> QED BY <1>2, <2>1, SMTT(40) DEF RestartClear, StreamInv, Unbroken
<1>3. CASE UNCHANGED streamVars
  BY <1>3, StreamUnchanged
<1> QED BY <1>1, <1>2, <1>3, StreamOnly

-----------------------------------------------------------------------------
\* A packet behind the last one kept, and the oldest one gone when there are
\* too many.
LEMMA KeepOneMore ==
  ASSUME ConstantsAssumption, NEW u, NEW que \in Seq(Packet),
         NEW next \in Nat \ {0}, Kept(que, next, u),
         NEW p \in Packet, p.ts = u, p.seq = next, p.body = next,
         NEW left, left = Keep(que, p)
  PROVE  left \in Seq(Packet) /\ Kept(left, next + 1, u)
<1> DEFINE more == Append(que, p)
<1>1. /\ more \in Seq(Packet) /\ more # <<>>
      /\ Len(more) = Len(que) + 1
      /\ \A i \in 1..Len(que) : more[i] = que[i]
      /\ more[Len(que) + 1] = p
  BY AppendProperties, SMTT(40)
<1>2. left = IF Len(more) > SentLimit THEN Tail(more) ELSE more
  BY DEF Keep
<1> HIDE DEF more
<1>3. PICK l \in Nat : l = Len(que) /\ l <= SentLimit
  BY LenProperties DEF Kept
<1>4. SentLimit \in Nat \ {0}
  BY DEF ConstantsAssumption
<1>5. ASSUME NEW k \in 1..(l + 1)
      PROVE  /\ more[k].seq + (l + 1) = next + 1 + k - 1
             /\ more[k].ts = u /\ more[k].body = more[k].seq
             /\ more[k].seq \in Nat
  <2>1. CASE k = l + 1
    <3>1. more[k] = p
      BY <2>1, <1>1, <1>3
    <3>2. next + (l + 1) = next + 1 + k - 1
      BY <2>1
    <3> QED BY <3>1, <3>2
  <2>2. CASE k # l + 1
    <3>1. k \in 1..Len(que) /\ more[k] = que[k]
      BY <2>2, <1>1, <1>3, SMTT(40)
    <3>2. que[k] \in Packet
      BY <3>1, ElementOfSeq
    <3>3. PICK q \in Nat : q = que[k].seq
      <4>1. que[k].seq \in Nat
        BY <3>2 DEF Packet
      <4> QED BY <4>1
    <3>4. q + l = next + k - 1
      <4>1. que[k].seq + Len(que) = next + k - 1
        BY <3>1 DEF Kept
      <4> QED BY <4>1, <3>3, <1>3
    <3>5. q + (l + 1) = next + 1 + k - 1
      <4>1. k \in Nat
        OBVIOUS
      <4> QED BY <4>1, <3>4
    <3> QED BY <3>1, <3>3, <3>5 DEF Kept
  <2> QED BY <2>1, <2>2
<1>6. CASE ~(Len(more) > SentLimit)
  <2>1. left = more /\ Len(left) = l + 1 /\ l + 1 <= SentLimit
    BY <1>6, <1>1, <1>2, <1>3, <1>4
  <2> QED BY <2>1, <1>1, <1>5 DEF Kept
<1>7. CASE Len(more) > SentLimit
  <2>1. /\ left \in Seq(Packet)
        /\ Len(left) = l
        /\ \A i \in 1..Len(left) : left[i] = more[i + 1]
    <3>1. left = Tail(more) /\ Len(more) - 1 = l
      BY <1>7, <1>1, <1>2, <1>3
    <3>2. /\ Tail(more) \in Seq(Packet)
          /\ Len(Tail(more)) = Len(more) - 1
          /\ \A i \in 1..Len(Tail(more)) : Tail(more)[i] = more[i + 1]
      BY <1>1, HeadTailProperties
    <3> QED BY <3>1, <3>2
  <2>2. ASSUME NEW k \in 1..Len(left)
        PROVE  /\ left[k].seq + Len(left) = next + 1 + k - 1
               /\ left[k].ts = u /\ left[k].body = left[k].seq
    <3>1. k + 1 \in 1..(l + 1) /\ left[k] = more[k + 1] /\ k \in Nat
      <4>1. k \in 1..l
        BY <2>1
      <4>2. k + 1 \in 1..(l + 1) /\ k \in Nat
        BY <4>1
      <4> QED BY <4>2, <2>1
    <3>2. /\ more[k + 1].seq + (l + 1) = next + 1 + (k + 1) - 1
          /\ more[k + 1].ts = u /\ more[k + 1].body = more[k + 1].seq
          /\ more[k + 1].seq \in Nat
      BY <3>1, <1>5
    <3>3. PICK q \in Nat : q = more[k + 1].seq
      BY <3>2
    <3>4. q + l = next + 1 + k - 1
      <4>1. q + (l + 1) = next + 1 + (k + 1) - 1
        BY <3>2, <3>3
      <4>2. k \in Nat
        BY <3>1
      <4> QED BY <4>1, <4>2
    <3> QED BY <3>1, <3>2, <3>3, <3>4, <2>1
  <2> QED BY <2>1, <2>2, <1>3 DEF Kept
<1> QED BY <1>6, <1>7

\* The packets a supplier keeps: only sending and starting again change them.
LEMMA SentStep ==
  ASSUME ConstantsAssumption, SentInv, [Next]_vars
  PROVE  SentInv'
<1>1. ASSUME NEW s \in Supplier, SupplierSend(s) PROVE SentInv'
  <2> DEFINE p == [ts |-> UID(s), seq |-> seqNum[s], body |-> seqNum[s]]
             left == Keep(sentBufQue[s], p)
  <2>1. /\ seqNum' = [seqNum EXCEPT ![s] = @ + 1]
        /\ sentBufQue' = [sentBufQue EXCEPT ![s] = left]
        /\ life' = life
    BY <1>1 DEF SupplierSend
  <2>2. p \in Packet /\ p.ts = UID(s) /\ p.seq = seqNum[s] /\ p.body = seqNum[s]
    BY DEF Packet, SentInv, UID, UIDs
  <2>3. /\ sentBufQue[s] \in Seq(Packet) /\ seqNum[s] \in Nat \ {0}
        /\ Kept(sentBufQue[s], seqNum[s], UID(s))
    BY DEF SentInv
  <2>4. left \in Seq(Packet) /\ Kept(left, seqNum[s] + 1, UID(s))
    BY <2>2, <2>3, KeepOneMore
  <2> HIDE DEF p, left
  <2>5. seqNum' \in [Supplier -> Nat \ {0}] /\ sentBufQue' \in [Supplier -> Seq(Packet)]
    BY <2>1, <2>4, SMTT(40) DEF SentInv
  <2>6. ASSUME NEW t \in Supplier PROVE Kept(sentBufQue'[t], seqNum'[t], UID(t)')
    <3>1. CASE t = s
      BY <3>1, <2>1, <2>4 DEF SentInv, UID
    <3>2. CASE t # s
      BY <3>2, <2>1 DEF SentInv, UID
    <3> QED BY <3>1, <3>2
  <2> QED BY <2>1, <2>5, <2>6 DEF SentInv, Kept
<1>2. ASSUME NEW s \in Supplier, SupplierCrash(s) PROVE SentInv'
  <2>1. <<>> \in Seq(Packet) /\ Len(<<>>) = 0
    BY EmptySeq
  <2>2. Kept(<<>>, 1, UID(s)')
    BY <2>1 DEF Kept, ConstantsAssumption
  <2>3. /\ life' = [life EXCEPT ![s] = @ + 1]
        /\ seqNum' = [seqNum EXCEPT ![s] = 1]
        /\ sentBufQue' = [sentBufQue EXCEPT ![s] = <<>>]
    BY <1>2 DEF SupplierCrash
  <2>4. /\ life' \in [Supplier -> Nat \ {0}] /\ seqNum' \in [Supplier -> Nat \ {0}]
        /\ sentBufQue' \in [Supplier -> Seq(Packet)]
    BY <2>1, <2>3, SMTT(40) DEF SentInv
  <2>5. ASSUME NEW t \in Supplier PROVE Kept(sentBufQue'[t], seqNum'[t], UID(t)')
    <3>1. CASE t = s
      BY <3>1, <2>2, <2>3 DEF SentInv
    <3>2. CASE t # s
      BY <3>2, <2>3 DEF SentInv, UID
    <3> QED BY <3>1, <3>2
  <2> QED BY <2>4, <2>5 DEF SentInv, Kept
<1>3. CASE UNCHANGED <<life, seqNum, sentBufQue>>
  BY <1>3 DEF SentInv, Kept, UID
<1>4. ASSUME NEW s \in Supplier, SupplierNext(s)
      PROVE  SupplierSend(s) \/ SupplierCrash(s) \/ UNCHANGED <<life, seqNum, sentBufQue>>
  BY <1>4 DEF SupplierNext, RecvNextTrans, ResendTake, ResendOne, ResendTimeout,
     RecvPleaseStartTrans
<1>5. ASSUME NetworkNext PROVE UNCHANGED supplierVars
  BY <1>5 DEF NetworkNext, LoseData, LoseRequest, LoseControl
<1>6. ASSUME ConsumerNext PROVE UNCHANGED supplierVars
  BY <1>6 DEF ConsumerNext, RecvData, ResendScan, RecvQueryReply, NotStartedTooLong,
     RecvIHave, SendPleaseStartTrans, RecvStartTrans, RestartDecide, RestartClear,
     RestartQuery
<1>7. UNCHANGED supplierVars => UNCHANGED <<life, seqNum, sentBufQue>>
  BY DEF supplierVars
<1>8. UNCHANGED vars => UNCHANGED supplierVars
  BY DEF vars
<1> QED BY <1>1, <1>2, <1>3, <1>4, <1>5, <1>6, <1>7, <1>8 DEF Next

\* The slot that the resend thread computes for a number it keeps holds the
\* packet of that number.
LEMMA SlotOfNumber ==
  ASSUME NEW s, NEW que \in Seq(Packet), NEW next \in Nat, que # <<>>,
         Kept(que, next, s), NEW i \in que[1].seq..que[Len(que)].seq
  PROVE  /\ i \in Nat \ {0}
         /\ que[SlotOf(que, i)].body \in Nat
         /\ que[SlotOf(que, i)].body = i
<1>1. PICK l \in Nat \ {0} : l = Len(que)
  BY EmptySeq
<1>2. ASSUME NEW k \in 1..l
      PROVE  /\ que[k] \in Packet
             /\ que[k].seq + l = next + k - 1
             /\ que[k].body = que[k].seq
  BY <1>1, ElementOfSeq DEF Kept
<1>3. 1 \in 1..l /\ l \in 1..l
  OBVIOUS
<1>4. PICK front \in Nat \ {0} : front = que[1].seq
  <2>1. que[1].seq \in Nat \ {0}
    BY <1>2, <1>3 DEF Packet
  <2> QED BY <2>1
<1>5. PICK back \in Nat \ {0} : back = que[l].seq
  <2>1. que[l].seq \in Nat \ {0}
    BY <1>2, <1>3 DEF Packet
  <2> QED BY <2>1
<1>6. front + l = next /\ back + l = next + l - 1
  <2>1. front + l = next + 1 - 1
    BY <1>2, <1>3, <1>4
  <2>2. back + l = next + l - 1
    BY <1>2, <1>3, <1>5
  <2> QED BY <2>1, <2>2
<1>7. i \in front..back
  BY <1>1, <1>4, <1>5
<1>8. i \in Nat \ {0} /\ i - front + 1 \in 1..l
  BY <1>6, <1>7
<1>9. PICK k \in 1..l : k = i - front + 1
  BY <1>8
<1>10. que[k].seq = i
  <2>1. PICK q \in Nat : q = que[k].seq
    <3>1. que[k].seq \in Nat
      BY <1>2 DEF Packet
    <3> QED BY <3>1
  <2>2. q + l = next + k - 1
    BY <2>1, <1>2
  <2>3. q = i
    BY <2>2, <1>6, <1>8, <1>9
  <2> QED BY <2>1, <2>3
<1>11. que[k].body \in Nat /\ que[k].body = i
  BY <1>2, <1>10 DEF Packet
<1> QED BY <1>4, <1>8, <1>9, <1>11 DEF SlotOf

\* The packets in flight: the supplier's own, and copies of the kept ones, each
\* read from the slot that the resend thread computes for its number.
LEMMA DataStep ==
  ASSUME ConstantsAssumption, SentInv, DataInv, [Next]_vars
  PROVE  DataInv'
<1>1. ASSUME NEW s \in Supplier, SupplierSend(s) PROVE DataInv'
  <2>1. PICK p : /\ data' = (IF entry[s] THEN data \union {p} ELSE data)
                 /\ p = [ts |-> UID(s), seq |-> seqNum[s], body |-> seqNum[s]]
    BY <1>1 DEF SupplierSend
  <2>2. p \in Packet /\ p.body = p.seq
    BY <2>1 DEF Packet, SentInv, UID, UIDs
  <2> QED BY <2>1, <2>2 DEF DataInv
<1>2. ASSUME NEW s \in Supplier, ResendOne(s) PROVE DataInv'
  <2>1. CASE data' = data
    BY <2>1 DEF DataInv
  <2>2. CASE data' # data
    <3> DEFINE que == sentBufQue[s]
    <3>1. PICK i : /\ que # <<>>
                   /\ i \in que[1].seq..que[Len(que)].seq
                   /\ data' = data \union
                        {[ts |-> UID(s), seq |-> i, body |-> que[SlotOf(que, i)].body]}
      BY <1>2, <2>2 DEF ResendOne, Last
    <3>2. que \in Seq(Packet) /\ Kept(que, seqNum[s], UID(s)) /\ seqNum[s] \in Nat \ {0}
      BY DEF SentInv
    <3> HIDE DEF que
    <3>3. /\ i \in Nat \ {0}
          /\ que[SlotOf(que, i)].body \in Nat
          /\ que[SlotOf(que, i)].body = i
      BY <3>1, <3>2, SlotOfNumber
    <3>4. [ts |-> UID(s), seq |-> i, body |-> que[SlotOf(que, i)].body] \in Packet
      BY <3>3 DEF Packet, SentInv, UID, UIDs
    <3> QED BY <3>1, <3>3, <3>4, SMTT(40) DEF DataInv
  <2> QED BY <2>1, <2>2
<1>3. CASE data' \subseteq data
  BY <1>3 DEF DataInv
<1>4. ASSUME NEW s \in Supplier, SupplierNext(s)
      PROVE  SupplierSend(s) \/ ResendOne(s) \/ data' = data
  BY <1>4 DEF SupplierNext, RecvNextTrans, ResendTake, ResendTimeout, SupplierCrash,
     RecvPleaseStartTrans, networkVars
<1>5. ASSUME NetworkNext PROVE data' \subseteq data
  BY <1>5 DEF NetworkNext, LoseData, LoseRequest, LoseControl
<1>6. ASSUME ConsumerNext PROVE data' \subseteq data
  BY <1>6 DEF ConsumerNext, RecvData, ResendScan, RecvQueryReply, NotStartedTooLong,
     RecvIHave, SendPleaseStartTrans, RecvStartTrans, RestartDecide, RestartClear,
     RestartQuery, networkVars
<1>7. UNCHANGED vars => data' = data
  BY DEF vars, networkVars
<1> QED BY <1>1, <1>2, <1>3, <1>4, <1>5, <1>6, <1>7 DEF Next

\* The session's variables keep their types.
LEMMA SessionStep ==
  ASSUME SessionInv, life \in [Supplier -> Nat \ {0}], [Next]_vars
  PROVE  SessionInv'
<1>0. \A s \in Supplier : UID(s) \in UIDs
  BY DEF UID, UIDs
<1>1. ASSUME NEW s \in Supplier, SupplierNext(s)
      PROVE  entry' \in [Supplier -> BOOLEAN] /\ control' \subseteq Control
             /\ UNCHANGED sessionVars
  <2>1. CASE RecvPleaseStartTrans(s)
    BY <1>0, <2>1 DEF RecvPleaseStartTrans, SessionInv, Control
  <2>2. CASE ResendOne(s) \/ ResendTimeout(s) \/ SupplierCrash(s)
    BY <2>2 DEF ResendOne, ResendTimeout, SupplierCrash, SessionInv, networkVars
  <2>3. CASE SupplierSend(s) \/ ResendTake(s) \/ \E r \in requests : RecvNextTrans(s, r)
    BY <2>3 DEF SupplierSend, ResendTake, RecvNextTrans, SessionInv, networkVars
  <2> QED BY <1>1, <2>1, <2>2, <2>3 DEF SupplierNext
<1>2. CASE NetworkNext
  BY <1>2 DEF NetworkNext, LoseData, LoseRequest, LoseControl, SessionInv,
     supplierVars, sessionVars
<1>3. CASE ConsumerNext
  <2>1. CASE \E p \in data, again \in BOOLEAN : RecvData(p, again)
    <3>1. UNCHANGED <<supplierVars, control, sessionVars>>
      BY <2>1 DEF RecvData
    <3> QED BY <3>1 DEF SessionInv, supplierVars, sessionVars
  <2>2. CASE \E old \in SUBSET Stored : ResendScan(old)
    <3>1. UNCHANGED <<supplierVars, control, sessionVars>>
      BY <2>2 DEF ResendScan
    <3> QED BY <3>1 DEF SessionInv, supplierVars, sessionVars
  <2>3. CASE RecvQueryReply \/ NotStartedTooLong
    BY <2>3 DEF RecvQueryReply, NotStartedTooLong, SessionInv, Statuses,
       supplierVars, networkVars
  <2>4. CASE \E s \in Supplier : RecvIHave(s)
    BY <1>0, <2>4 DEF RecvIHave, SessionInv, Statuses, supplierVars, networkVars
  <2>5. CASE SendPleaseStartTrans
    <3>1. control' = control \union {<<"PLEASE_START_TRANS", NodeOf(supplierUID)>>}
          /\ NodeOf(supplierUID) \in Supplier
      BY <2>5 DEF SendPleaseStartTrans, SessionInv, NodeOf, UIDs
    <3> QED BY <3>1, <2>5 DEF SendPleaseStartTrans, SessionInv, Control,
              supplierVars, sessionVars
  <2>6. CASE \E u \in Answering : RecvStartTrans(u)
    <3>1. PICK u \in UIDs : RecvStartTrans(u)
      BY <2>6 DEF RecvStartTrans, Answering, SessionInv, Control
    <3> QED BY <3>1 DEF RecvStartTrans, SessionInv, Statuses, supplierVars
  <2>7. CASE RestartDecide \/ RestartClear \/ RestartQuery
    BY <2>7 DEF RestartDecide, RestartClear, RestartQuery, SessionInv, Statuses,
       supplierVars, networkVars
  <2> QED BY <1>3, <2>1, <2>2, <2>3, <2>4, <2>5, <2>6, <2>7 DEF ConsumerNext
<1>4. CASE UNCHANGED vars
  BY <1>4 DEF vars, supplierVars, networkVars, sessionVars, SessionInv
<1> QED BY <1>1, <1>2, <1>3, <1>4 DEF Next, SessionInv, sessionVars

-----------------------------------------------------------------------------
\* The initial states satisfy the inductive invariant.
LEMMA InitInv ==
  ASSUME ConstantsAssumption, Init
  PROVE  IInv
<1>1. <<>> \in Seq(Packet) /\ <<>> \in Seq(Slot) /\ Len(<<>>) = 0
  BY EmptySeq
<1>2. SessionInv
  BY DEF Init, SessionInv, Control, Statuses
<1>3. SentInv
  <2>1. ASSUME NEW s \in Supplier PROVE Kept(<<>>, 1, UID(s))
    BY <1>1 DEF Kept, ConstantsAssumption
  <2>2. /\ life \in [Supplier -> Nat \ {0}] /\ seqNum \in [Supplier -> Nat \ {0}]
        /\ sentBufQue \in [Supplier -> Seq(Packet)]
        /\ \A s \in Supplier : sentBufQue[s] = <<>> /\ seqNum[s] = 1
    BY <1>1 DEF Init
  <2> QED BY <2>1, <2>2 DEF SentInv
<1>4. DataInv
  BY DEF Init, DataInv
<1>5. StreamInv
  BY <1>1 DEF Init, StreamInv, Unbroken
<1> QED BY <1>2, <1>3, <1>4, <1>5 DEF IInv

\* Every step keeps the inductive invariant.
LEMMA NextInv ==
  ASSUME ConstantsAssumption, IInv, [Next]_vars
  PROVE  IInv'
<1>1. SessionInv'
  BY SessionStep DEF IInv, SentInv
<1>2. SentInv'
  BY SentStep DEF IInv
<1>3. DataInv'
  BY DataStep DEF IInv
<1>4. StreamInv'
  BY StreamStep DEF IInv
<1> QED BY <1>1, <1>2, <1>3, <1>4 DEF IInv

\* In every reachable state the inductive invariant holds.
THEOREM Invariance == Spec => []IInv
<1>1. Init => IInv
  BY ConstantsAssumption, InitInv
<1>2. IInv /\ [Next]_vars => IInv'
  BY ConstantsAssumption, NextInv
<1> QED BY <1>1, <1>2, PTL DEF Spec

\* The types of the suppliers' packets and of the consumer's stream.
THEOREM TypeCorrect == Spec => []TypeOK
<1>1. IInv => TypeOK
  BY DEF IInv, SessionInv, SentInv, DataInv, StreamInv, TypeOK, Slot
<1> QED BY <1>1, Invariance, PTL

\* The resend thread's index i - front is always right.
THEOREM SentBufCorrect == Spec => []SentBufIndexed
<1>1. IInv => SentBufIndexed
  BY DEF IInv, SentInv, SentBufIndexed, Kept
<1> QED BY <1>1, Invariance, PTL

\* No packet is ever sent, stored or resent under another packet's number.
THEOREM BodiesCorrect == Spec => []BodyMatchesHeader
<1>1. SentInv /\ DataInv /\ StreamInv => BodyMatchesHeader
  <2> SUFFICES ASSUME SentInv, DataInv, StreamInv PROVE BodyMatchesHeader
    OBVIOUS
  <2>1. \A s \in Supplier : \A k \in 1..Len(sentBufQue[s]) :
          sentBufQue[s][k].body = sentBufQue[s][k].seq
    BY DEF SentInv, Kept
  <2>2. ASSUME NEW k \in Stored
        PROVE  arrivedBufDeque[k].body = arrivedBufDeque[k].seq
    <3>1. k \in 1..Len(arrivedBufDeque) /\ arrivedBufDeque[k] # NULL
      BY DEF Stored
    <3>2. CASE nextPduSeq = 0
      <4>1. Len(arrivedBufDeque) = 0
        BY <3>2, EmptySeq DEF StreamInv
      <4> QED BY <3>1, <4>1
    <3>3. CASE nextPduSeq # 0
      BY <3>1, <3>3 DEF StreamInv, Placed
    <3> QED BY <3>2, <3>3
  <2> QED BY <2>1, <2>2 DEF DataInv, BodyMatchesHeader
<1> QED BY <1>1, Invariance, PTL DEF IInv

\* The reorder buffer starts with a hole, ends with a packet and holds each
\* packet in its own slot, whatever the network and the timer did.
THEOREM BufferCorrect == Spec => []BufferShape
<1>1. StreamInv => BufferShape
  <2> SUFFICES ASSUME StreamInv PROVE BufferShape
    OBVIOUS
  <2>1. CASE nextPduSeq = 0
    <3>1. arrivedBufDeque = <<>> /\ Len(arrivedBufDeque) = 0
      BY <2>1, EmptySeq DEF StreamInv
    <3> QED BY <3>1 DEF BufferShape
  <2>2. CASE nextPduSeq # 0
    <3>1. /\ nextPduSeq > 0
          /\ Placed(arrivedBufDeque, nextPduSeq, lastTsUID)
          /\ Holed(arrivedBufDeque) /\ Ended(arrivedBufDeque)
      BY <2>2 DEF StreamInv
    <3> QED BY <3>1 DEF BufferShape, Placed, Holed, Ended
  <2> QED BY <2>1, <2>2
<1> QED BY <1>1, Invariance, PTL DEF IInv

\* The file is one unbroken run of one TS's packets, up to nextPduSeq.
THEOREM FileCorrect == Spec => []FileIsRun
<1>1. StreamInv => FileIsRun
  <2> SUFFICES ASSUME StreamInv PROVE FileIsRun
    OBVIOUS
  <2>1. ASSUME nextPduSeq > 0
        PROVE  /\ written # <<>>
               /\ written[Len(written)].body + 1 = nextPduSeq
               /\ written[Len(written)].ts = lastTsUID
               /\ tsUID = lastTsUID
    <3>1. RunTo(written, nextPduSeq, lastTsUID) /\ tsUID = lastTsUID
      BY <2>1 DEF StreamInv
    <3>2. written \in Seq(Packet) /\ nextPduSeq \in Nat
      BY DEF StreamInv
    <3>3. /\ written[Len(written)].body + 1 = nextPduSeq
          /\ written[Len(written)].ts = lastTsUID
      BY <3>1, <3>2, RunUnbroken
    <3>4. written # <<>>
      BY <3>1 DEF RunTo
    <3> QED BY <3>1, <3>3, <3>4
  <2> QED BY <2>1 DEF StreamInv, Unbroken, FileIsRun
<1> QED BY <1>1, Invariance, PTL DEF IInv

-----------------------------------------------------------------------------
(* The consumer implements LiveStream.                                     *)

\* Where a file and its chunks correspond.
LEMMA ChunksProperties ==
  ASSUME NEW file \in Seq(Packet)
  PROVE  /\ Len(Chunks(file)) = Len(file)
         /\ \A i \in 1..Len(file) :
              Chunks(file)[i] = [ts |-> file[i].ts, n |-> file[i].body]
         /\ Unbroken(file) => Stream!Consecutive(Chunks(file))
<1>1. Len(file) \in Nat
  BY LenProperties
<1>2. \A i \in 1..Len(file) :
        Chunks(file)[i] = [ts |-> file[i].ts, n |-> file[i].body]
  BY DEF Chunks
<1>3. Len(Chunks(file)) = Len(file)
  BY <1>1 DEF Chunks
<1>4. ASSUME Unbroken(file) PROVE Stream!Consecutive(Chunks(file))
  <2>1. ASSUME NEW i \in 1..Len(file)
        PROVE  /\ Chunks(file)[i].ts = Chunks(file)[1].ts
               /\ Chunks(file)[i].n = Chunks(file)[1].n + i - 1
    <3>1. 1 \in 1..Len(file)
      BY <1>1
    <3>2. /\ Chunks(file)[i] = [ts |-> file[i].ts, n |-> file[i].body]
          /\ Chunks(file)[1] = [ts |-> file[1].ts, n |-> file[1].body]
      BY <3>1, <1>2
    <3>3. /\ file[i].ts = file[1].ts
          /\ file[i].body = file[1].body + i - 1
      BY <1>4 DEF Unbroken
    <3> QED BY <3>2, <3>3
  <2> QED BY <2>1, <1>3 DEF Stream!Consecutive
<1> QED BY <1>2, <1>3, <1>4

\* What the file becomes in one datagram's handling, seen by a reader.
LEMMA RecvDataStreams ==
  ASSUME ConstantsAssumption, DataInv, StreamInv,
         NEW p \in data, NEW again, RecvData(p, again)
  PROVE  \/ nextPduSeq' = 0 /\ written' = written
         \/ UNCHANGED <<nextPduSeq, written>>
         \/ /\ nextPduSeq > 0 => p.ts # lastTsUID
            /\ nextPduSeq' > 0
            /\ Len(written') = 1
            /\ written'[1].ts = p.ts
         \/ /\ nextPduSeq > 0 /\ nextPduSeq' > 0
            /\ Len(written') >= Len(written)
            /\ \A i \in 1..Len(written) : written'[i] = written[i]
<1>1. p \in Packet /\ p.ts \in UIDs /\ p.seq \in Nat \ {0} /\ p.body = p.seq
  BY DEF DataInv, Packet
<1>2. CASE /\ nextPduSeq > 0 => p.ts # lastTsUID
           /\ Reorder(p, <<>>, p.seq, <<>>)
  <2>1. /\ <<>> \in Seq(Slot) /\ <<>> \in Seq(Packet) /\ Len(<<>>) = 0
    BY EmptySeq
  <2>2. Drain(PopHead(<<>>, p), p.seq + 1, Append(<<>>, p))
    BY <1>1, <1>2, SMTT(40) DEF Reorder
  <2>3. PopHead(<<>>, p) = <<>>
    BY DEF PopHead
  <2>4. PICK n \in 0..Len(<<>>) :
          /\ nextPduSeq' = p.seq + 1 + n
          /\ written' = Append(<<>>, p) \o SubSeq(<<>>, 1, n)
    BY <2>2, <2>3 DEF Drain
  <2>5. n = 0
    BY <2>1, <2>4
  <2>6. SubSeq(<<>>, 1, 0) = <<>>
    BY SubSeqEmpty
  <2>7. /\ Append(<<>>, p) \in Seq(Packet)
        /\ Len(Append(<<>>, p)) = 0 + 1
        /\ Append(<<>>, p)[0 + 1] = p
    BY <1>1, <2>1, AppendProperties
  <2>8. written' = Append(<<>>, p)
    BY <2>4, <2>5, <2>6, <2>7, ConcatEmptySeq
  <2>9. nextPduSeq' > 0
    BY <1>1, <2>4, <2>5
  <2> QED BY <1>2, <2>7, <2>8, <2>9
<1>3. CASE /\ nextPduSeq > 0 /\ p.ts = lastTsUID
           /\ Reorder(p, arrivedBufDeque, nextPduSeq, written)
  <2>1. /\ Placed(arrivedBufDeque, nextPduSeq, lastTsUID)
        /\ Holed(arrivedBufDeque)
        /\ Ended(arrivedBufDeque)
        /\ RunTo(written, nextPduSeq, lastTsUID)
        /\ nextPduSeq \in Nat \ {0}
        /\ arrivedBufDeque \in Seq(Slot)
        /\ written \in Seq(Packet)
    BY <1>3 DEF StreamInv
  <2>2. /\ StreamKept(lastTsUID)
        /\ Len(written') >= Len(written)
        /\ \A i \in 1..Len(written) : written'[i] = written[i]
    BY <1>1, <1>3, <2>1, ReorderKeeps, SMTT(40)
  <2>3. nextPduSeq' > 0
    BY <2>2 DEF StreamKept
  <2> QED BY <1>3, <2>2, <2>3
<1> QED BY <1>2, <1>3, RecvDataCases DEF streamVars

\* Every step is a step of LiveStream or leaves the reader's view alone.
LEMMA StreamNext ==
  ASSUME ConstantsAssumption, IInv, IInv', [Next]_vars
  PROVE  [Stream!Next]_Stream!vars
<1>1. /\ written \in Seq(Packet) /\ written' \in Seq(Packet)
      /\ nextPduSeq \in Nat /\ nextPduSeq' \in Nat
      /\ Unbroken(written')
  BY DEF IInv, StreamInv, Unbroken
<1>2. /\ Len(Chunks(written)) = Len(written) /\ Len(written) \in Nat
      /\ \A i \in 1..Len(written) :
           Chunks(written)[i] = [ts |-> written[i].ts, n |-> written[i].body]
  BY <1>1, ChunksProperties, LenProperties
<1>3. /\ Len(Chunks(written')) = Len(written') /\ Len(written') \in Nat
      /\ \A i \in 1..Len(written') :
           Chunks(written')[i] = [ts |-> written'[i].ts, n |-> written'[i].body]
      /\ Stream!Consecutive(Chunks(written'))
  BY <1>1, ChunksProperties, LenProperties
<1>4. Chunks(written)' = Chunks(written')
  BY DEF Chunks
<1>5. written' = written => Chunks(written') = Chunks(written)
  OBVIOUS
<1>6. CASE nextPduSeq' = 0 /\ written' = written
  <2>1. CASE nextPduSeq > 0
    <3>1. Stream!Break
      BY <1>4, <1>5, <1>6, <2>1 DEF Stream!Break
    <3> QED BY <3>1 DEF Stream!Next
  <2>2. CASE ~(nextPduSeq > 0)
    <3>1. (nextPduSeq > 0)' = (nextPduSeq > 0)
      BY <1>6, <2>2
    <3> QED BY <1>4, <1>5, <1>6, <3>1 DEF Stream!vars
  <2> QED BY <2>1, <2>2
<1>7. CASE UNCHANGED <<nextPduSeq, written>>
  BY <1>4, <1>5, <1>7 DEF Stream!vars
<1>8. CASE /\ nextPduSeq > 0 /\ nextPduSeq' > 0
           /\ Len(written') >= Len(written)
           /\ \A i \in 1..Len(written) : written'[i] = written[i]
  <2>1. CASE Len(written') = Len(written)
    <3>1. written' = written
      BY <1>1, <1>8, <2>1, SeqEqual
    <3>2. (nextPduSeq > 0)' = (nextPduSeq > 0)
      BY <1>8
    <3> QED BY <1>4, <1>5, <3>1, <3>2 DEF Stream!vars
  <2>2. CASE Len(written') # Len(written)
    <3>1. Len(Chunks(written')) > Len(Chunks(written))
      BY <1>2, <1>3, <1>8, <2>2
    <3>2. ASSUME NEW i \in 1..Len(Chunks(written))
          PROVE  Chunks(written')[i] = Chunks(written)[i]
      <4>1. i \in 1..Len(written) /\ i \in 1..Len(written')
        BY <1>2, <1>8, <1>3
      <4> QED BY <4>1, <1>2, <1>3, <1>8, ZenonT(40)
    <3>3. Stream!Extend
      BY <1>3, <1>4, <1>8, <3>1, <3>2 DEF Stream!Extend
    <3> QED BY <3>3 DEF Stream!Next
  <2> QED BY <2>1, <2>2
<1>9. ASSUME NEW p \in data,
             nextPduSeq > 0 => p.ts # lastTsUID,
             nextPduSeq' > 0, Len(written') = 1, written'[1].ts = p.ts
      PROVE  Stream!Begin
  <2>1. Len(Chunks(written')) = 1 /\ Chunks(written')[1].ts = p.ts
    BY <1>3, <1>9
  <2>2. ASSUME nextPduSeq > 0
        PROVE  Chunks(written')[1].ts # Chunks(written)[1].ts
    <3>1. RunTo(written, nextPduSeq, lastTsUID)
      BY <2>2 DEF IInv, StreamInv
    <3>2. written[1].ts = lastTsUID /\ 1 \in 1..Len(written)
      <4>1. written[1].ts = lastTsUID
        BY <1>1, <3>1, RunUnbroken
      <4>2. written # <<>>
        BY <3>1 DEF RunTo
      <4>3. Len(written) \in Nat \ {0}
        BY <1>1, <4>2, EmptySeq
      <4> QED BY <4>1, <4>3
    <3>3. Chunks(written)[1] = [ts |-> written[1].ts, n |-> written[1].body]
      BY <1>2, <3>2
    <3>4. Chunks(written)[1].ts = lastTsUID
      BY <3>2, <3>3
    <3>5. p.ts # lastTsUID
      BY <1>9, <2>2
    <3> QED BY <2>1, <3>4, <3>5
  <2> QED BY <1>4, <1>9, <2>1, <2>2 DEF Stream!Begin
<1>10. ASSUME NEW p \in data, NEW again \in BOOLEAN, RecvData(p, again)
       PROVE  [Stream!Next]_Stream!vars
  <2>1. nextPduSeq' = 0 /\ written' = written => [Stream!Next]_Stream!vars
    BY <1>6
  <2> QED BY <1>10, <1>6, <1>7, <1>8, <1>9, RecvDataStreams DEF IInv, Stream!Next
<1>11. CASE RestartClear
  BY <1>11, <1>6 DEF RestartClear
<1>12. CASE UNCHANGED streamVars
  BY <1>12, <1>7 DEF streamVars
<1> QED BY <1>10, <1>11, <1>12, StreamOnly

\* The consumer implements LiveStream: the file only grows at its end, and a new
\* one begins only after a break or with another TS.
THEOREM Refinement == Spec => StreamSpec
<1>1. Init => Stream!Init
  BY DEF Init, Stream!Init, Chunks
<1>2. IInv /\ IInv' /\ [Next]_vars => [Stream!Next]_Stream!vars
  BY ConstantsAssumption, StreamNext
<1> QED BY <1>1, <1>2, Invariance, PTL DEF Spec, StreamSpec, Stream!Spec
=============================================================================
