--------------------------- MODULE RelayNodeProofs ---------------------------
(***************************************************************************)
(* For every length of files, window and bound, and before the stream is   *)
(* restarted: a relay sends on every packet under the number it had at its *)
(* origin, and a consumer that catches up gets what it asked for and then  *)
(* every packet in order.                                                  *)
(*                                                                         *)
(* The argument follows the numbers through the disk.  The receive thread  *)
(* cuts the stream into files at the multiples of FileLen, so the first    *)
(* packet of every file but the first follows from its index (FilesOK);    *)
(* the supplier thread is told the first packet and the first index once,  *)
(* and reads file after file, so that the task's number is the place of    *)
(* the next packet (SupplierOK), and sentBufQue ends with the packet       *)
(* before it (KeptOK).  The first index is pInfo->fileIndex as long as the  *)
(* receive thread runs; when it ends it forgets it, and the supplier       *)
(* thread may still be reading: so the supplier's part of the invariant    *)
(* is about a given first index F.  All of it is about restarts = 0, which *)
(* no step comes back to.                                                  *)
(*                                                                         *)
(* The types hold across restarts, and need a bound on the indices of the  *)
(* files, without which getTheMaxFileIndex would have nothing to return.   *)
(* The player's order follows from when it is told of its first files:     *)
(* the receive thread counts a file, and sets the flag in a later step.    *)
(* The disk, whatever is restarted, holds only files that are queued for   *)
(* removal and the one being finished, and no two files of one name.       *)
(***************************************************************************)
EXTENDS RelayNode, SequenceTheorems, FiniteSetTheorems, DataLemmas, TLAPS

Kept == [seq : Nat, body : Nat \X Nat]
Active == {"read", "inc", "send", "keep", "eof", "find"}

\* Where the receive thread is in the stream and in its file, as long as it runs.
ReceiverOK ==
  /\ link = "started"
  /\ nextPduSeq \in Nat /\ openFrom \in Nat /\ recvdFilesNumber \in Nat /\ fileIndex \in Nat
  /\ receiver \in {"recv", "finish", "flag", "start", "save"}
  /\ lastTsUID = IF nextPduSeq = 0 THEN 0 ELSE 1
  /\ nextPduSeq = 0 => fileIndex = 0
  /\ fileIndex = 0 => files = {} /\ supplier = "none" /\ receiver = "recv"
  /\ fileIndex = 0 /\ nextPduSeq # 0 => openFrom = firstPacketSeqNum
  /\ fileIndex # 0 /\ receiver = "recv" =>
       \E k \in Nat : /\ k >= fileIndex
                      /\ openFrom = k * FileLen + 1
                      /\ nextPduSeq \in (k * FileLen + 1)..(k * FileLen + FileLen)
  /\ receiver \in {"finish", "flag", "start", "save"} =>
       \E k \in Nat : k >= fileIndex /\ nextPduSeq = k * FileLen + 1

\* The files are pieces of the one stream, the first of index F.
FilesOK(F) ==
  \A f \in files :
    /\ f \in File
    /\ f.ts = 1 /\ f.index >= F
    /\ f.from = IF f.index = F THEN firstPacketSeqNum
                                ELSE (f.index - 1) * FileLen + 1

\* The supplier is started once, and never told to start again.
StartOK ==
  /\ receiver \in {"flag", "start"} =>
       supplier = "none" /\ recvdFilesNumber = SupplierStart
  /\ receiver = "finish" => supplier = "none" \/ recvdFilesNumber > SupplierStart
  /\ supplier = "none" \/ recvdFilesNumber >= SupplierStart

FlagOK ==
  /\ needToRestartSupplier \in BOOLEAN
  /\ needToRestartSupplier => supplier \in {"none", "first", "end", "gone"}

\* The task's number and the place in the file go together.
SupplierOK(F) ==
  /\ task \in Task
  /\ local \in [tsUID : Nat, fileIndex : Nat]
  /\ place \in Nat
  /\ supplier \in {"none", "first", "end", "gone"} \union Active
  /\ supplier # "none" => task.tsUID = 1
  /\ supplier = "first" => task.seqNum = firstPacketSeqNum /\ task.fileIndex = F
  /\ supplier \in Active => local.tsUID = 1
  /\ supplier \in {"read", "inc", "send", "keep"} =>
       /\ source \in File /\ source.ts = 1
       /\ local.fileIndex = source.index /\ source.index >= F
       /\ place > 0
  /\ supplier \in {"read", "inc"} => place = task.seqNum
  /\ supplier \in {"send", "keep"} => task.seqNum = place + 1
  /\ supplier \in {"inc", "send", "keep"} =>
       header = [ts |-> 1, seq |-> place, body |-> <<1, place>>]
  /\ supplier \in {"eof", "find"} =>
       local.fileIndex > F /\ task.seqNum = (local.fileIndex - 1) * FileLen + 1

\* The number of the next packet to be kept, and of the next to be sent.
NextKept == IF supplier \in {"eof", "find"} THEN task.seqNum ELSE place
NextSent == IF supplier = "send" THEN place ELSE task.seqNum

\* The packets of q are numbered as at their origin, and run up to the one before m.
Genuine(e) == e \in Kept /\ e.seq > 0 /\ e.body = <<1, e.seq>>
Numbered(q) == \A i \in 1..Len(q) : Genuine(q[i])
RunsTo(q, m) == \A i \in 1..Len(q) : q[i].seq + Len(q) + 1 = m + i

KeptOK ==
  /\ sentBufQue \in Seq(Kept)
  /\ Numbered(sentBufQue)
  /\ supplier \in {"none", "first", "gone"} => sentBufQue = <<>>
  /\ supplier \in Active => RunsTo(sentBufQue, NextKept)

EntryOK ==
  /\ entry \in [present : BOOLEAN, seqOffset : Nat, asked : Nat, last : Nat]
  /\ ~entry.present \/ supplier \in {"none", "first"} => entry.seqOffset = 0 /\ entry.last = 0
  /\ supplier \in Active =>
       /\ entry.seqOffset <= Len(sentBufQue)
       /\ entry.last # 0 => entry.last + entry.seqOffset + 1 = NextSent
       /\ entry.last = 0 /\ entry.seqOffset # 0 =>
            entry.asked + entry.seqOffset \in {NextSent, NextSent + 1}

OutOK ==
  /\ \A p \in out : p.body = <<p.ts, p.seq>>
  /\ thrown # "at"

\* What the supplier thread reads and sends, when the first file has index F.
Supplied(F) ==
  /\ firstPacketSeqNum \in Nat \ {0}
  /\ FilesOK(F) /\ FlagOK /\ SupplierOK(F) /\ KeptOK /\ EntryOK /\ OutOK

OneStream == ReceiverOK /\ StartOK /\ Supplied(fileIndex)

\* The supplier thread may go on when the receive thread has ended.
Ended == receiver \in {"end", "gone"}
Over == Ended /\ \E F \in Nat : Supplied(F)

IInv == restarts \in Nat /\ (restarts = 0 => OneStream \/ Over)

-----------------------------------------------------------------------------
(* Arithmetic of files.                                                    *)

LEMMA Parameters ==
  ASSUME RelayAssumption
  PROVE  /\ FileLen \in Nat \ {0} /\ SupplierStart \in Nat \ {0} /\ Window \in Nat \ {0}
         /\ NStream \in Nat \ {0} /\ Slack \in Nat /\ MaxSeq \in Nat
BY DEF RelayAssumption

LEMMA Quotient ==
  ASSUME NEW L \in Nat \ {0}, NEW q \in Nat, NEW r \in 0..(L - 1)
  PROVE  (L * q + r) \div L = q
OBVIOUS

LEMMA Remainder ==
  ASSUME NEW L \in Nat \ {0}, NEW q \in Nat, NEW r \in 0..(L - 1)
  PROVE  (L * q + r) % L = r
OBVIOUS

LEMMA Division ==
  ASSUME NEW L \in Nat \ {0}, NEW n \in Nat
  PROVE  n = L * (n \div L) + (n % L)
OBVIOUS

LEMMA QuotientType ==
  ASSUME NEW L \in Nat \ {0}, NEW n \in Nat PROVE n \div L \in Nat
OBVIOUS

\* The file of packet n, when the packets from k * FileLen + 1 on are its.
LEMMA InFile ==
  ASSUME RelayAssumption, NEW k \in Nat,
         NEW n \in (k * FileLen + 1)..(k * FileLen + FileLen)
  PROVE  /\ IndexOf(n) = k + 1
         /\ LastOfFile(n) => n = k * FileLen + FileLen
<1>1. PICK L \in Nat \ {0} : L = FileLen
  BY Parameters
<1>2. PICK b \in Nat : b = k * L /\ b = L * k /\ L * (k + 1) = b + L
  BY <1>1
<1>3. n \in (b + 1)..(b + L)
  BY <1>1, <1>2
<1>4. PICK r \in 0..(L - 1) : n - 1 = b + r
  BY <1>2, <1>3
<1>5. (n - 1) \div L = k
  <2>1. n - 1 = L * k + r
    BY <1>2, <1>4
  <2>2. (L * k + r) \div L = k
    BY Quotient
  <2> QED BY <2>1, <2>2
<1>6. ASSUME n # b + L PROVE n % L # 0
  <2>1. PICK s \in 0..(L - 1) : n = b + s /\ s # 0
    BY <1>2, <1>3, <1>6
  <2>2. (L * k + s) % L = s
    BY Remainder
  <2> QED BY <1>2, <2>1, <2>2
<1> QED BY <1>1, <1>2, <1>5, <1>6 DEF IndexOf, LastOfFile

\* The last packet of a file.
LEMMA LastPacket ==
  ASSUME RelayAssumption, NEW n \in Nat \ {0}, LastOfFile(n)
  PROVE  \E k \in Nat : n = (k + 1) * FileLen /\ IndexOf(n) = k + 1
<1>1. PICK L \in Nat \ {0} : L = FileLen
  BY Parameters
<1>2. PICK q \in Nat : q = n \div L
  BY QuotientType
<1>3. n = L * q
  BY <1>1, <1>2, Division DEF LastOfFile
<1>4. q # 0
  BY <1>3
<1>5. PICK k \in Nat : q = k + 1
  BY <1>4
<1>6. L * (k + 1) = k * L + L /\ k * L \in Nat /\ (k + 1) * L = L * (k + 1)
  OBVIOUS
<1>7. n \in (k * L + 1)..(k * L + L)
  BY <1>3, <1>5, <1>6
<1> QED BY <1>1, <1>3, <1>5, <1>6, <1>7, InFile

-----------------------------------------------------------------------------
(* The receive thread.                                                     *)

\* What only the other threads' parts of the invariant depend on.
supplierSide == <<supplierVars, entry, thrown>>

\* Nothing of a supplier changes, nor what it has seen of the stream.
LEMMA SupplierKept ==
  ASSUME OneStream, UNCHANGED supplierSide,
         supplier # "none" => UNCHANGED <<fileIndex, firstPacketSeqNum>>,
         fileIndex' \in Nat
  PROVE  SupplierOK(fileIndex)' /\ KeptOK' /\ EntryOK' /\ OutOK'
<1>1. UNCHANGED <<task, sentBufQue, supplier, local, source, place, header, out, entry, thrown>>
  BY DEF supplierSide, supplierVars
<1>2. SupplierOK(fileIndex)'
  BY <1>1 DEF OneStream, Supplied, SupplierOK, Active, Task
<1>3. KeptOK'
  BY <1>1 DEF OneStream, Supplied, KeptOK, Numbered, RunsTo, NextKept
<1>4. EntryOK'
  BY <1>1 DEF OneStream, Supplied, EntryOK, NextSent
<1>5. OutOK'
  BY <1>1 DEF OneStream, Supplied, OutOK
<1> QED BY <1>2, <1>3, <1>4, <1>5

\* A packet written, whichever is the first.
LEMMA WriteStep ==
  ASSUME RelayAssumption, OneStream, receiver = "recv",
         NEW n \in Nat \ {0}, NEW first \in Nat \ {0}, NEW from \in Nat, NEW recvd \in Nat,
         Write(1, n, first, from, recvd),
         UNCHANGED <<link, needToRestartSupplier, supplierSide>>,
         \/ fileIndex = 0 /\ from = first
         \/ /\ fileIndex # 0 /\ first = firstPacketSeqNum
            /\ from = openFrom /\ n = nextPduSeq /\ recvd = recvdFilesNumber
  PROVE  OneStream'
<1> USE DEF OneStream, Supplied
<1>1. /\ lastTsUID' = 1 /\ firstPacketSeqNum' = first /\ nextPduSeq' = n + 1
      /\ openFrom' = from
      /\ supplier' = supplier /\ firstPacketSeqNum' \in Nat \ {0}
  BY DEF Write, supplierSide, supplierVars
<1>2. PICK L \in Nat \ {0} : L = FileLen
  BY Parameters
<1>3. CASE LastOfFile(n)
  <2>1. /\ fileIndex' = IF fileIndex = 0 THEN IndexOf(n) ELSE fileIndex
        /\ files' \subseteq files \union {[ts |-> 1, index |-> IndexOf(n), from |-> from]}
        /\ recvdFilesNumber' = recvd + 1
        /\ receiver' = "finish"
    BY <1>3 DEF Write, Without
  <2>2. CASE fileIndex = 0
    <3>1. PICK k \in Nat : n = (k + 1) * FileLen /\ IndexOf(n) = k + 1
      BY <1>3, LastPacket
    <3>2. files = {} /\ supplier = "none" /\ from = first
      BY <2>2 DEF ReceiverOK
    <3>3. fileIndex' = k + 1 /\ fileIndex' \in Nat \ {0}
      BY <2>1, <2>2, <3>1
    <3>4. ReceiverOK'
      <4>1. k + 1 \in Nat /\ k + 1 >= fileIndex' /\ nextPduSeq' = (k + 1) * FileLen + 1
        BY <1>1, <3>1, <3>3
      <4>2. \E j \in Nat : j >= fileIndex' /\ nextPduSeq' = j * FileLen + 1
        BY <4>1
      <4>3. nextPduSeq' \in Nat /\ nextPduSeq' # 0 /\ recvdFilesNumber' \in Nat
        BY <1>1, <2>1
      <4> QED BY <1>1, <2>1, <3>3, <4>2, <4>3 DEF ReceiverOK
    <3>5. FilesOK(fileIndex)'
      <4> DEFINE f == [ts |-> 1, index |-> IndexOf(n), from |-> from]
      <4>1. /\ files' \subseteq {f}
            /\ f.ts = 1 /\ f.index = fileIndex' /\ f.from = firstPacketSeqNum'
        BY <1>1, <2>1, <2>2, <3>2
      <4>2. f \in File
        BY <3>1, <3>2, Parameters DEF File, Stream
      <4>3. f.index >= fileIndex'
        BY <3>3, <4>1
      <4> HIDE DEF f
      <4> QED BY <4>1, <4>2, <4>3 DEF FilesOK
    <3>6. StartOK' /\ FlagOK'
      BY <1>1, <2>1, <3>2 DEF StartOK, FlagOK
    <3>7. SupplierOK(fileIndex)' /\ KeptOK' /\ EntryOK' /\ OutOK'
      BY <3>2, <3>3, SupplierKept
    <3> QED BY <1>1, <3>4, <3>5, <3>6, <3>7
  <2>3. CASE fileIndex # 0
    <3>0. /\ first = firstPacketSeqNum /\ from = openFrom
          /\ n = nextPduSeq /\ recvd = recvdFilesNumber
      BY <2>3
    <3>1. PICK k \in Nat : /\ k >= fileIndex
                           /\ openFrom = k * FileLen + 1
                           /\ nextPduSeq \in (k * FileLen + 1)..(k * FileLen + FileLen)
      BY <2>3 DEF ReceiverOK
    <3>2. IndexOf(n) = k + 1 /\ n = k * FileLen + FileLen
      BY <1>3, <3>0, <3>1, InFile
    <3>3. fileIndex' = fileIndex /\ fileIndex \in Nat
      BY <2>1, <2>3 DEF ReceiverOK
    <3>4. ReceiverOK'
      <4>1. k + 1 \in Nat /\ k + 1 >= fileIndex /\ nextPduSeq' = (k + 1) * FileLen + 1
        <5>1. (k + 1) * L = k * L + L
          OBVIOUS
        <5> QED BY <1>1, <1>2, <3>1, <3>2, <3>3, <5>1
      <4>2. \E j \in Nat : j >= fileIndex' /\ nextPduSeq' = j * FileLen + 1
        BY <3>3, <4>1
      <4>3. nextPduSeq' \in Nat /\ nextPduSeq' # 0 /\ recvdFilesNumber' \in Nat
        BY <1>1, <2>1
      <4> QED BY <1>1, <2>1, <2>3, <3>3, <4>2, <4>3 DEF ReceiverOK
    <3>5. FilesOK(fileIndex)'
      <4> DEFINE f == [ts |-> 1, index |-> IndexOf(n), from |-> from]
      <4>1. files' \subseteq files \union {f}
        BY <2>1
      <4>2. f.ts = 1 /\ f.index = k + 1 /\ f.from = k * FileLen + 1
        BY <3>0, <3>1, <3>2
      <4>3. k * L \in Nat
        OBVIOUS
      <4>4. f \in File
        BY <1>2, <3>0, <3>1, <3>2, <4>3, Parameters DEF File, Stream
      <4>5. f.index >= fileIndex /\ f.index # fileIndex /\ f.index - 1 = k
        BY <3>1, <3>3, <4>2
      <4> HIDE DEF f
      <4> QED BY <1>1, <3>0, <3>3, <4>1, <4>2, <4>4, <4>5 DEF FilesOK
    <3>6. StartOK' /\ FlagOK'
      <4>1. supplier = "none" \/ recvdFilesNumber >= SupplierStart
        BY DEF StartOK
      <4>2. recvdFilesNumber' = recvdFilesNumber + 1
        BY <2>1, <3>0
      <4>3. supplier = "none" \/ recvdFilesNumber' > SupplierStart
        BY <4>1, <4>2, Parameters DEF ReceiverOK
      <4>4. supplier = "none" \/ recvdFilesNumber' >= SupplierStart
        BY <4>1, <4>2, Parameters DEF ReceiverOK
      <4> QED BY <1>1, <2>1, <4>3, <4>4 DEF StartOK, FlagOK
    <3>7. SupplierOK(fileIndex)' /\ KeptOK' /\ EntryOK' /\ OutOK'
      BY <1>1, <3>0, <3>3, SupplierKept
    <3> QED BY <1>1, <3>4, <3>5, <3>6, <3>7
  <2> QED BY <2>2, <2>3
<1>4. CASE ~LastOfFile(n)
  <2>1. UNCHANGED <<fileIndex, files, receiver>> /\ recvdFilesNumber' = recvd
    BY <1>4 DEF Write
  <2>2. fileIndex # 0 => first = firstPacketSeqNum
    OBVIOUS
  <2>3. ReceiverOK'
    <3>1. nextPduSeq' \in Nat /\ nextPduSeq' # 0
      BY <1>1
    <3>2. CASE fileIndex = 0
      BY <1>1, <2>1, <3>1, <3>2 DEF ReceiverOK
    <3>3. CASE fileIndex # 0
      <4>1. PICK k \in Nat : /\ k >= fileIndex
                             /\ openFrom = k * FileLen + 1
                             /\ nextPduSeq \in (k * FileLen + 1)..(k * FileLen + FileLen)
        BY <3>3 DEF ReceiverOK
      <4>2. n # k * FileLen + FileLen
        <5>1. (k + 1) * L = k * L + L /\ (k + 1) * L = L * (k + 1) + 0 /\ 0 \in 0..(L - 1)
          OBVIOUS
        <5>2. ((k + 1) * L) % L = 0
          BY <5>1, Remainder
        <5> QED BY <1>2, <1>4, <5>1, <5>2 DEF LastOfFile
      <4>3. PICK b \in Nat : b = k * FileLen
        BY <1>2
      <4>4. nextPduSeq' \in (k * FileLen + 1)..(k * FileLen + FileLen)
        BY <1>1, <1>2, <3>3, <4>1, <4>2, <4>3
      <4>5. openFrom' = k * FileLen + 1
        BY <1>1, <3>3, <4>1
      <4>6. \E j \in Nat : /\ j >= fileIndex'
                           /\ openFrom' = j * FileLen + 1
                           /\ nextPduSeq' \in (j * FileLen + 1)..(j * FileLen + FileLen)
        BY <2>1, <4>1, <4>4, <4>5
      <4> QED BY <1>1, <2>1, <3>1, <3>3, <4>6 DEF ReceiverOK
    <3> QED BY <3>2, <3>3
  <2>4. FilesOK(fileIndex)'
    BY <1>1, <2>1, <2>2 DEF FilesOK, ReceiverOK
  <2>5. StartOK' /\ FlagOK'
    BY <1>1, <2>1 DEF StartOK, FlagOK, ReceiverOK
  <2>6. supplier # "none" => UNCHANGED <<fileIndex, firstPacketSeqNum>>
    BY <1>1, <2>1, <2>2 DEF ReceiverOK
  <2>7. SupplierOK(fileIndex)' /\ KeptOK' /\ EntryOK' /\ OutOK'
    BY <2>1, <2>6, SupplierKept DEF ReceiverOK
  <2> QED BY <1>1, <2>3, <2>4, <2>5, <2>7
<1> QED BY <1>3, <1>4

LEMMA RecvStep ==
  ASSUME RelayAssumption, OneStream, RecvNext \/ \E n \in 1..MaxSeq : RecvFirst(n)
  PROVE  OneStream'
<1>1. MaxSeq \in Nat
  BY Parameters
<1>2. CASE RecvNext
  <2>1. /\ receiver = "recv" /\ nextPduSeq \in 1..MaxSeq
        /\ Write(lastTsUID, nextPduSeq, firstPacketSeqNum, openFrom, recvdFilesNumber)
        /\ UNCHANGED <<link, needToRestartSupplier, supplierSide>>
    BY <1>2 DEF RecvNext, Receiving, supplierSide
  <2>2. nextPduSeq \in Nat \ {0} /\ lastTsUID = 1
    BY <1>1, <2>1 DEF OneStream, ReceiverOK
  <2>3. /\ firstPacketSeqNum \in Nat \ {0} /\ openFrom \in Nat /\ recvdFilesNumber \in Nat
        /\ fileIndex = 0 => openFrom = firstPacketSeqNum
    BY <2>2 DEF OneStream, Supplied, ReceiverOK
  <2> QED BY <2>1, <2>2, <2>3, WriteStep
<1>3. ASSUME NEW n \in 1..MaxSeq, RecvFirst(n) PROVE OneStream'
  <2>1. receiver = "recv" /\ nextPduSeq = 0
    BY <1>3 DEF RecvFirst, Receiving
  <2>2. lastTsUID = 0 /\ fileIndex = 0
    BY <2>1 DEF OneStream, ReceiverOK
  <2>3. /\ Write(1, n, n, n, 0)
        /\ UNCHANGED <<link, needToRestartSupplier, supplierSide>>
    BY <1>3, <2>2 DEF RecvFirst, supplierSide
  <2>4. n \in Nat \ {0}
    BY <1>1
  <2> QED BY <2>1, <2>2, <2>3, <2>4, WriteStep
<1> QED BY <1>2, <1>3

LEMMA ReceiverStep ==
  ASSUME RelayAssumption, OneStream, Receiver, ~ReceiverEnds
  PROVE  OneStream'
<1> USE DEF OneStream, Supplied
<1>1. PICK L \in Nat \ {0} : L = FileLen
  BY Parameters
<1>2. CASE FlagConsumer
  <2>1. /\ receiver = "finish"
        /\ receiver' = IF recvdFilesNumber = SupplierStart THEN "flag" ELSE "save"
        /\ UNCHANGED <<nextPduSeq, lastTsUID, firstPacketSeqNum, openFrom, recvdFilesNumber,
                       fileIndex, link, files, needToRestartSupplier, supplierSide>>
    BY <1>2 DEF FlagConsumer, diskVars, supplierSide
  <2>2. supplier' = supplier
    BY <2>1 DEF supplierSide, supplierVars
  <2>3. ReceiverOK'
    BY <2>1, <2>2 DEF ReceiverOK
  <2>4. FilesOK(fileIndex)'
    BY <2>1 DEF FilesOK
  <2>5. StartOK' /\ FlagOK'
    BY <2>1, <2>2, Parameters DEF StartOK, FlagOK, ReceiverOK
  <2> QED BY <2>1, <2>3, <2>4, <2>5, SupplierKept DEF ReceiverOK
<1>3. CASE FlagSupplier
  <2>1. /\ receiver = "flag" /\ receiver' = "start"
        /\ needToRestartSupplier' = TRUE
        /\ UNCHANGED <<nextPduSeq, lastTsUID, firstPacketSeqNum, openFrom, recvdFilesNumber,
                       fileIndex, link, files, supplierSide>>
    BY <1>3 DEF FlagSupplier, diskVars, supplierSide
  <2>2. supplier' = supplier
    BY <2>1 DEF supplierSide, supplierVars
  <2>3. ReceiverOK'
    BY <2>1, <2>2 DEF ReceiverOK
  <2>4. FilesOK(fileIndex)'
    BY <2>1 DEF FilesOK
  <2>5. StartOK' /\ FlagOK'
    BY <2>1, <2>2 DEF StartOK, FlagOK
  <2> QED BY <2>1, <2>3, <2>4, <2>5, SupplierKept DEF ReceiverOK
<1>4. CASE startOneSupplier
  <2>1. /\ receiver = "start" /\ receiver' = "save"
        /\ task' = [tsUID |-> lastTsUID, seqNum |-> firstPacketSeqNum,
                    fileIndex |-> IF supplier = "none" /\ fileIndex = 0 THEN MaxIndex
                                                                        ELSE fileIndex,
                    EXITsupplier |-> supplier # "none" /\ task.EXITsupplier]
        /\ supplier' = IF supplier = "none" THEN "first" ELSE supplier
        /\ UNCHANGED <<nextPduSeq, lastTsUID, firstPacketSeqNum, openFrom, recvdFilesNumber,
                       fileIndex, link, files, needToRestartSupplier, sentBufQue, local,
                       source, place, header, out, entry, thrown>>
    BY <1>4 DEF startOneSupplier, diskVars
  <2>2. /\ supplier = "none" /\ recvdFilesNumber = SupplierStart
        /\ fileIndex # 0 /\ fileIndex \in Nat
        /\ supplier' = "first"
    BY <2>1 DEF StartOK, ReceiverOK
  <2>3. lastTsUID = 1
    BY <2>1, <2>2 DEF ReceiverOK
  <2>4. task' = [tsUID |-> 1, seqNum |-> firstPacketSeqNum, fileIndex |-> fileIndex,
                EXITsupplier |-> FALSE]
    BY <2>1, <2>2, <2>3
  <2>5. ReceiverOK'
    BY <2>1, <2>2 DEF ReceiverOK
  <2>6. FilesOK(fileIndex)'
    BY <2>1 DEF FilesOK
  <2>7. StartOK' /\ FlagOK'
    BY <2>1, <2>2, Parameters DEF StartOK, FlagOK
  <2>8. firstPacketSeqNum \in Nat
    OBVIOUS
  <2>9. SupplierOK(fileIndex)'
    BY <2>1, <2>2, <2>4, <2>8 DEF SupplierOK, Active, Task
  <2>10. KeptOK' /\ EntryOK'
    BY <2>1, <2>2 DEF KeptOK, Numbered, EntryOK, Active
  <2>11. OutOK'
    BY <2>1 DEF OutOK
  <2> QED BY <2>1, <2>5, <2>6, <2>7, <2>9, <2>10, <2>11
<1>5. CASE SaveFile
  <2>1. /\ receiver = "save" /\ receiver' = "recv"
        /\ openFrom' = nextPduSeq
        /\ files' \subseteq files
        /\ UNCHANGED <<nextPduSeq, lastTsUID, firstPacketSeqNum, recvdFilesNumber,
                       fileIndex, link, needToRestartSupplier, supplierSide>>
    BY <1>5 DEF SaveFile, Without, supplierSide
  <2>2. supplier' = supplier
    BY <2>1 DEF supplierSide, supplierVars
  <2>3. PICK k \in Nat : k >= fileIndex /\ nextPduSeq = k * FileLen + 1
    BY <2>1 DEF ReceiverOK
  <2>4. PICK b \in Nat : b = k * FileLen
    BY <1>1
  <2>5. nextPduSeq \in (k * FileLen + 1)..(k * FileLen + FileLen)
    BY <1>1, <2>3, <2>4
  <2>6. \E j \in Nat : /\ j >= fileIndex'
                       /\ openFrom' = j * FileLen + 1
                       /\ nextPduSeq' \in (j * FileLen + 1)..(j * FileLen + FileLen)
    BY <2>1, <2>3, <2>5
  <2>7. ReceiverOK'
    BY <2>1, <2>2, <2>6 DEF ReceiverOK
  <2>8. FilesOK(fileIndex)'
    BY <2>1 DEF FilesOK
  <2>9. StartOK' /\ FlagOK'
    BY <2>1, <2>2 DEF StartOK, FlagOK
  <2> QED BY <2>1, <2>7, <2>8, <2>9, SupplierKept DEF ReceiverOK
<1>6. ~ReceiverGone
  BY DEF ReceiverGone, ReceiverOK
<1> QED BY <1>2, <1>3, <1>4, <1>5, <1>6 DEF Receiver

-----------------------------------------------------------------------------
(* The supplier thread.                                                    *)

\* Largest numbers, as Send takes them.
LEMMA MaxOfSent ==
  /\ Max({0}) = 0
  /\ \A n \in Nat : Max({0, n}) = n
BY DEF Max

\* sentBufQue after a packet is kept: still without a hole up to the new one, and not
\* shorter.
LEMMA KeepPacket ==
  ASSUME NEW q \in Seq(Kept), NEW W \in Nat \ {0}, NEW m \in Nat,
         Numbered(q), RunsTo(q, m),
         NEW e \in Kept, Genuine(e), e.seq = m,
         NEW r, r = IF Len(Append(q, e)) > W THEN Tail(Append(q, e)) ELSE Append(q, e)
  PROVE  r \in Seq(Kept) /\ Len(r) >= Len(q) /\ Numbered(r) /\ RunsTo(r, m + 1)
<1> DEFINE a == Append(q, e)
<1>1. PICK l \in Nat : l = Len(q)
  BY LenProperties
<1>2. /\ a \in Seq(Kept) /\ a # <<>> /\ Len(a) = l + 1
      /\ \A i \in 1..l : a[i] = q[i]
      /\ a[l + 1] = e
  BY <1>1, AppendProperties
<1>3. r = IF Len(a) > W THEN Tail(a) ELSE a
  OBVIOUS
<1> HIDE DEF a
<1>4. ASSUME NEW i \in 1..(l + 1)
      PROVE  a[i] \in Kept /\ Genuine(a[i]) /\ a[i].seq + l + 1 = m + i
  <2>1. CASE i = l + 1
    <3>1. a[i] = e
      BY <1>2, <2>1
    <3>2. e.seq + l + 1 = m + i
      BY <2>1
    <3> QED BY <3>1, <3>2
  <2>2. CASE i # l + 1
    <3>1. i \in 1..l
      BY <2>2
    <3>2. a[i] = q[i]
      BY <1>2, <3>1
    <3>3. q[i] \in Kept
      BY <1>1, <3>1, ElementOfSeq
    <3>4. Genuine(q[i])
      BY <1>1, <3>1 DEF Numbered
    <3>5. q[i].seq + l + 1 = m + i
      BY <1>1, <3>1 DEF RunsTo
    <3> QED BY <3>2, <3>3, <3>4, <3>5
  <2> QED BY <2>1, <2>2
<1>5. CASE Len(a) > W
  <2>1. r = Tail(a)
    BY <1>3, <1>5
  <2>2. /\ r \in Seq(Kept) /\ Len(r) = l
        /\ \A i \in 1..l : r[i] = a[i + 1]
    <3>1. /\ r \in Seq(Kept) /\ Len(r) = Len(a) - 1
          /\ \A i \in 1..Len(r) : r[i] = a[i + 1]
      BY <1>2, <2>1, HeadTailProperties
    <3>2. Len(r) = l
      BY <1>2, <3>1
    <3> QED BY <3>1, <3>2
  <2>3. ASSUME NEW i \in 1..l
        PROVE  Genuine(r[i]) /\ r[i].seq + l + 1 = (m + 1) + i
    <3>1. PICK j \in 1..(l + 1) : j = i + 1
      OBVIOUS
    <3>2. r[i] = a[j]
      BY <2>2, <3>1
    <3>3. Genuine(a[j]) /\ a[j].seq + l + 1 = m + j
      BY <1>4
    <3>4. m + j = (m + 1) + i
      BY <3>1
    <3> QED BY <3>2, <3>3, <3>4
  <2>4. Numbered(r)
    BY <2>2, <2>3 DEF Numbered
  <2>5. RunsTo(r, m + 1)
    BY <2>2, <2>3 DEF RunsTo
  <2> QED BY <1>1, <2>2, <2>4, <2>5
<1>6. CASE ~(Len(a) > W)
  <2>1. r = a
    BY <1>3, <1>6
  <2>2. Numbered(r)
    BY <1>2, <1>4, <2>1 DEF Numbered
  <2>3. ASSUME NEW i \in 1..(l + 1)
        PROVE  a[i].seq + (l + 1) + 1 = (m + 1) + i
    <3>1. PICK x \in Nat : x = a[i].seq
      BY <1>4 DEF Kept
    <3>2. x + l + 1 = m + i
      BY <1>4, <3>1
    <3>3. x + (l + 1) + 1 = (m + 1) + i
      BY <3>2
    <3> QED BY <3>1, <3>3
  <2>4. RunsTo(r, m + 1)
    BY <1>2, <2>1, <2>3 DEF RunsTo
  <2> QED BY <1>1, <1>2, <2>1, <2>2, <2>4
<1> QED BY <1>5, <1>6

\* The files are kept when another thread goes on.
LEMMA FilesKept ==
  ASSUME NEW F \in Nat, Supplied(F), UNCHANGED receiverVars, files' \subseteq files,
         needToRestartSupplier' \in BOOLEAN,
         needToRestartSupplier' => supplier' \in {"none", "first", "end", "gone"}
  PROVE  firstPacketSeqNum' \in Nat \ {0} /\ FilesOK(F)' /\ FlagOK'
<1>1. UNCHANGED firstPacketSeqNum
  BY DEF receiverVars
<1>2. FilesOK(F)'
  BY <1>1 DEF Supplied, FilesOK
<1> QED BY <1>1, <1>2 DEF Supplied, FlagOK

\* The file of the next index begins with the packet the task is at.
LEMMA OpensStep ==
  ASSUME NEW F \in Nat, Supplied(F), NEW i \in Nat, Opens(i),
         \/ i = F /\ task.seqNum = firstPacketSeqNum
         \/ i > F /\ task.seqNum = (i - 1) * FileLen + 1
  PROVE  /\ supplier' = "read"
         /\ source' \in File /\ source'.ts = 1 /\ source'.index = i /\ i >= F
         /\ place' = task.seqNum
<1>1. PICK f \in files : f.index = i /\ source' = f /\ place' = f.from /\ supplier' = "read"
  BY DEF Opens
<1>2. /\ f \in File /\ f.ts = 1
      /\ f.from = IF f.index = F THEN firstPacketSeqNum
                                         ELSE (f.index - 1) * FileLen + 1
  BY DEF Supplied, FilesOK
<1>4. i >= F
  OBVIOUS
<1>5. f.from = task.seqNum
  <2>1. CASE i = F
    BY <1>1, <1>2, <2>1
  <2>2. CASE i # F
    BY <1>1, <1>2, <2>2
  <2> QED BY <2>1, <2>2
<1> QED BY <1>1, <1>2, <1>4, <1>5

LEMMA OpenFirstStep ==
  ASSUME NEW F \in Nat, Supplied(F), OpenFirst PROVE Supplied(F)'
<1> USE DEF Supplied
<1>1. /\ supplier = "first"
      /\ UNCHANGED <<receiverVars, fileIndex, link, files, task, sentBufQue, header, out,
                     entry, thrown>>
  BY DEF OpenFirst, diskVars
<1>2. /\ task.tsUID = 1 /\ task.seqNum = firstPacketSeqNum /\ task.fileIndex = F
      /\ sentBufQue = <<>> /\ entry.seqOffset = 0 /\ entry.last = 0
  BY <1>1 DEF SupplierOK, KeptOK, EntryOK
<1>3. OutOK'
  BY <1>1 DEF OutOK
<1>4. firstPacketSeqNum \in Nat \ {0}
  OBVIOUS
<1>5. CASE Ends
  <2>1. supplier' = "end" /\ UNCHANGED <<needToRestartSupplier, local, source, place>>
    BY <1>5 DEF Ends
  <2>2. firstPacketSeqNum' \in Nat \ {0} /\ FilesOK(F)' /\ FlagOK'
    <3>1. needToRestartSupplier' \in BOOLEAN
      BY <2>1 DEF FlagOK
    <3> QED BY <1>1, <2>1, <3>1, FilesKept
  <2>3. SupplierOK(F)'
    BY <1>1, <2>1 DEF SupplierOK, Active
  <2>4. KeptOK' /\ EntryOK'
    BY <1>1, <1>2, <2>1 DEF KeptOK, EntryOK, Active
  <2> QED BY <1>3, <2>2, <2>3, <2>4
<1>6. CASE ~Ends
  <2>1. /\ local' = [tsUID |-> task.tsUID, fileIndex |-> task.fileIndex]
        /\ Opens(F) /\ needToRestartSupplier' = FALSE
    BY <1>2, <1>6 DEF OpenFirst
  <2>2. /\ supplier' = "read"
        /\ source' \in File /\ source'.ts = 1 /\ source'.index = F
        /\ place' = task.seqNum
    BY <1>2, <1>4, <2>1, OpensStep
  <2>3. firstPacketSeqNum' \in Nat \ {0} /\ FilesOK(F)' /\ FlagOK'
    BY <1>1, <2>1, <2>2, FilesKept
  <2>4. local' = [tsUID |-> 1, fileIndex |-> F]
    BY <1>2, <2>1
  <2>5. place' \in Nat /\ place' > 0
    BY <1>2, <1>4, <2>2
  <2>6. SupplierOK(F)'
    BY <1>1, <1>2, <1>4, <2>2, <2>4, <2>5 DEF SupplierOK, Active
  <2>7. KeptOK'
    BY <1>1, <1>2, <2>2 DEF KeptOK, RunsTo
  <2>8. EntryOK'
    BY <1>1, <1>2, <2>2 DEF EntryOK, Active
  <2> QED BY <1>3, <2>3, <2>6, <2>7, <2>8
<1> QED BY <1>5, <1>6

LEMMA NumberStep ==
  ASSUME NEW F \in Nat, Supplied(F), Number PROVE Supplied(F)'
<1> USE DEF Supplied
<1>1. /\ supplier = "read"
      /\ UNCHANGED <<receiverVars, fileIndex, link, files, needToRestartSupplier, task,
                     sentBufQue, local, source, place, out, entry, thrown>>
      /\ supplier' \in {"inc", "end"}
  BY DEF Number, diskVars
<1>2. /\ task.seqNum = place /\ local.tsUID = 1 /\ source.ts = 1
      /\ place \in Nat
  BY <1>1 DEF SupplierOK, Active
<1>3. firstPacketSeqNum' \in Nat \ {0} /\ FilesOK(F)' /\ FlagOK'
  <2>1. ~needToRestartSupplier /\ needToRestartSupplier \in BOOLEAN
    BY <1>1 DEF FlagOK
  <2> QED BY <1>1, <2>1, FilesKept
<1>4. SupplierOK(F)'
  <2>1. CASE supplier' = "end"
    BY <1>1, <2>1 DEF SupplierOK, Active
  <2>2. CASE supplier' = "inc"
    <3>1. header' = [ts |-> 1, seq |-> place, body |-> <<1, place>>]
      BY <1>2, <2>2 DEF Number, NumberTaken
    <3> QED BY <1>1, <1>2, <2>2, <3>1 DEF SupplierOK, Active
  <2> QED BY <1>1, <2>1, <2>2
<1>5. KeptOK'
  BY <1>1 DEF KeptOK, Active, NextKept
<1>6. EntryOK'
  BY <1>1 DEF EntryOK, Active, NextSent
<1>7. OutOK'
  BY <1>1 DEF OutOK
<1> QED BY <1>3, <1>4, <1>5, <1>6, <1>7

LEMMA IncrementStep ==
  ASSUME NEW F \in Nat, Supplied(F), Increment PROVE Supplied(F)'
<1> USE DEF Supplied
<1>1. /\ supplier = "inc" /\ supplier' = "send"
      /\ UNCHANGED <<receiverVars, fileIndex, link, files, needToRestartSupplier,
                     sentBufQue, local, source, place, header, out, entry, thrown>>
  BY DEF Increment, diskVars
<1>2. task.seqNum = place /\ header.seq = place /\ place \in Nat
  BY <1>1 DEF SupplierOK
<1>3. task' = [task EXCEPT !.seqNum = place + 1]
  BY <1>2 DEF Increment
<1>4. task \in Task
  BY DEF SupplierOK
<1>5. /\ task' \in Task
      /\ task'.seqNum = place + 1 /\ task'.tsUID = task.tsUID
      /\ task'.fileIndex = task.fileIndex
  BY <1>2, <1>3, <1>4 DEF Task
<1>6. firstPacketSeqNum' \in Nat \ {0} /\ FilesOK(F)' /\ FlagOK'
  <2>1. ~needToRestartSupplier /\ needToRestartSupplier \in BOOLEAN
    BY <1>1 DEF FlagOK
  <2> QED BY <1>1, <2>1, FilesKept
<1>7. SupplierOK(F)'
  BY <1>1, <1>2, <1>5 DEF SupplierOK, Active
<1>8. KeptOK'
  BY <1>1 DEF KeptOK, Active, NextKept
<1>9. EntryOK'
  BY <1>1, <1>2, <1>5 DEF EntryOK, Active, NextSent
<1>10. OutOK'
  BY <1>1 DEF OutOK
<1> QED BY <1>6, <1>7, <1>8, <1>9, <1>10

\* The packet a consumer that catches up gets: seqOffset before the one being sent.
LEMMA DelayedPacket ==
  ASSUME NEW F \in Nat, Supplied(F), supplier = "send", entry.seqOffset # 0
  PROVE  /\ entry.seqOffset <= Len(sentBufQue)
         /\ \E s \in Nat \ {0} : /\ Delayed = [ts |-> 1, seq |-> s, body |-> <<1, s>>]
                                 /\ s + entry.seqOffset = place
<1> USE DEF Supplied
<1>1. /\ entry.seqOffset \in Nat /\ entry.seqOffset <= Len(sentBufQue)
      /\ sentBufQue \in Seq(Kept) /\ Numbered(sentBufQue) /\ RunsTo(sentBufQue, place)
      /\ task.tsUID = 1 /\ place \in Nat
  BY DEF EntryOK, KeptOK, SupplierOK, Active, NextKept
<1>2. PICK l \in Nat : l = Len(sentBufQue)
  BY <1>1, LenProperties
<1>3. PICK k \in 1..l : k = l - entry.seqOffset + 1
  BY <1>1, <1>2
<1>4. Genuine(sentBufQue[k]) /\ sentBufQue[k].seq + l + 1 = place + k
  BY <1>1, <1>2 DEF Numbered, RunsTo
<1>5. PICK s \in Nat \ {0} : s = sentBufQue[k].seq /\ sentBufQue[k].body = <<1, s>>
  BY <1>4 DEF Genuine, Kept
<1>6. s + entry.seqOffset = place
  <2>1. PICK o \in Nat, a \in Nat : o = entry.seqOffset /\ a = place
    BY <1>1
  <2>2. s + l + 1 = a + k /\ k = l - o + 1
    BY <1>3, <1>4, <1>5, <2>1
  <2>3. s + o = a
    BY <2>2
  <2> QED BY <2>1, <2>3
<1>7. Delayed = [ts |-> 1, seq |-> s, body |-> <<1, s>>]
  BY <1>1, <1>2, <1>3, <1>5 DEF Delayed
<1> QED BY <1>1, <1>6, <1>7

\* What Send sends, if anything: one packet, its own.
LEMMA SendsOne ==
  ASSUME NEW F \in Nat, Supplied(F), Send
  PROVE  /\ UNCHANGED thrown
         /\ \/ ~entry.present /\ out' = {} /\ entry' = [entry EXCEPT !.last = 0]
            \/ /\ entry.present
               /\ \E s \in Nat \ {0} :
                    /\ out' = {[ts |-> 1, seq |-> s, body |-> <<1, s>>]}
                    /\ entry' = [entry EXCEPT !.last = s]
                    /\ s + entry.seqOffset = place
<1> USE DEF Supplied
<1>1. supplier = "send"
  BY DEF Send
<1>2. /\ entry.seqOffset \in Nat /\ entry.seqOffset <= Len(sentBufQue)
      /\ header = [ts |-> 1, seq |-> place, body |-> <<1, place>>]
      /\ place \in Nat \ {0}
  BY <1>1 DEF EntryOK, SupplierOK, Active
<1>3. sentBufQue \in Seq(Kept)
  BY DEF KeptOK
<1>4. PICK l \in Nat : l = Len(sentBufQue)
  BY <1>3, LenProperties
<1>5. ~(entry.seqOffset > Len(sentBufQue))
  BY <1>2, <1>4
<1>6. /\ out' = IF ~entry.present THEN {}
                ELSE IF entry.seqOffset = 0 THEN {header} ELSE {Delayed}
      /\ entry' = [entry EXCEPT !.last = Max({0} \union {p.seq : p \in out'})]
      /\ UNCHANGED thrown
  BY <1>5 DEF Send
<1>7. CASE ~entry.present
  <2>1. out' = {}
    BY <1>6, <1>7
  <2>2. {0} \union {p.seq : p \in out'} = {0}
    BY <2>1
  <2> QED BY <1>6, <1>7, <2>1, <2>2, MaxOfSent
<1>8. ASSUME entry.present,
             NEW s \in Nat \ {0}, out' = {[ts |-> 1, seq |-> s, body |-> <<1, s>>]}
      PROVE  entry' = [entry EXCEPT !.last = s]
  <2>1. {0} \union {p.seq : p \in out'} = {0, s}
    BY <1>8
  <2>2. Max({0, s}) = s
    BY MaxOfSent
  <2> QED BY <1>6, <2>1, <2>2
<1>9. CASE entry.present /\ entry.seqOffset = 0
  <2>1. out' = {[ts |-> 1, seq |-> place, body |-> <<1, place>>]}
    BY <1>2, <1>6, <1>9
  <2>2. entry' = [entry EXCEPT !.last = place]
    BY <1>2, <1>8, <1>9, <2>1
  <2>3. place + entry.seqOffset = place
    BY <1>2, <1>9
  <2> QED BY <1>2, <1>6, <1>9, <2>1, <2>2, <2>3
<1>10. CASE entry.present /\ entry.seqOffset # 0
  <2>1. PICK s \in Nat \ {0} : /\ Delayed = [ts |-> 1, seq |-> s, body |-> <<1, s>>]
                               /\ s + entry.seqOffset = place
    BY <1>1, <1>10, DelayedPacket
  <2>2. out' = {[ts |-> 1, seq |-> s, body |-> <<1, s>>]}
    BY <1>6, <1>10, <2>1
  <2>3. entry' = [entry EXCEPT !.last = s]
    BY <1>8, <1>10, <2>2
  <2> QED BY <1>6, <1>10, <2>1, <2>2, <2>3
<1> QED BY <1>7, <1>9, <1>10

LEMMA SendStep ==
  ASSUME NEW F \in Nat, Supplied(F), Send PROVE Supplied(F)'
<1> USE DEF Supplied
<1>1. /\ supplier = "send" /\ supplier' = "keep"
      /\ UNCHANGED <<receiverVars, fileIndex, link, files, needToRestartSupplier, task,
                     sentBufQue, local, source, place, header>>
  BY DEF Send, diskVars
<1>2. task.seqNum = place + 1 /\ place \in Nat /\ entry.seqOffset \in Nat
  BY <1>1 DEF SupplierOK, EntryOK
<1>3. entry \in [present : BOOLEAN, seqOffset : Nat, asked : Nat, last : Nat]
  BY DEF EntryOK
<1>4. firstPacketSeqNum' \in Nat \ {0} /\ FilesOK(F)' /\ FlagOK'
  <2>1. ~needToRestartSupplier /\ needToRestartSupplier \in BOOLEAN
    BY <1>1 DEF FlagOK
  <2> QED BY <1>1, <2>1, FilesKept
<1>5. SupplierOK(F)'
  BY <1>1 DEF SupplierOK, Active
<1>6. KeptOK'
  BY <1>1 DEF KeptOK, Active, NextKept
<1>7. CASE ~entry.present
  <2>1. out' = {} /\ entry' = [entry EXCEPT !.last = 0] /\ UNCHANGED thrown
    BY <1>7, SendsOne
  <2>2. entry.seqOffset = 0
    BY <1>7 DEF EntryOK
  <2>3. /\ entry' \in [present : BOOLEAN, seqOffset : Nat, asked : Nat, last : Nat]
        /\ entry'.last = 0 /\ entry'.seqOffset = 0
    BY <1>3, <2>1, <2>2
  <2>4. 0 <= Len(sentBufQue)
    BY <1>1, <2>2 DEF EntryOK, Active
  <2>5. EntryOK'
    BY <1>1, <2>3, <2>4 DEF EntryOK
  <2>6. OutOK'
    BY <2>1 DEF OutOK
  <2> QED BY <1>4, <1>5, <1>6, <2>5, <2>6
<1>8. CASE entry.present
  <2>1. PICK s \in Nat \ {0} :
          /\ out' = {[ts |-> 1, seq |-> s, body |-> <<1, s>>]}
          /\ entry' = [entry EXCEPT !.last = s]
          /\ s + entry.seqOffset = place
          /\ UNCHANGED thrown
    BY <1>8, SendsOne
  <2>2. /\ entry' \in [present : BOOLEAN, seqOffset : Nat, asked : Nat, last : Nat]
        /\ entry'.last = s /\ entry'.seqOffset = entry.seqOffset /\ entry'.present
    BY <1>3, <1>8, <2>1
  <2>3. s + entry.seqOffset + 1 = task.seqNum
    BY <1>2, <2>1
  <2>4. entry.seqOffset <= Len(sentBufQue)
    BY <1>1 DEF EntryOK, Active
  <2>5. EntryOK'
    BY <1>1, <2>2, <2>3, <2>4 DEF EntryOK, NextSent
  <2>6. OutOK'
    <3>1. \A p \in out' : p.body = <<1, s>> /\ p.ts = 1 /\ p.seq = s
      BY <2>1
    <3>2. \A p \in out' : p.body = <<p.ts, p.seq>>
      BY <3>1
    <3> QED BY <2>1, <3>2 DEF OutOK
  <2> QED BY <1>4, <1>5, <1>6, <2>5, <2>6
<1> QED BY <1>7, <1>8

LEMMA KeepStep ==
  ASSUME RelayAssumption, NEW F \in Nat, Supplied(F), Keep PROVE Supplied(F)'
<1> USE DEF Supplied
<1>1. /\ supplier = "keep" /\ supplier' \in {"eof", "read"}
      /\ out' = {}
      /\ UNCHANGED <<receiverVars, fileIndex, link, files, needToRestartSupplier, task,
                     entry, thrown>>
  BY DEF Keep, diskVars
<1>2. /\ task.seqNum = place + 1 /\ place \in Nat \ {0}
      /\ header = [ts |-> 1, seq |-> place, body |-> <<1, place>>]
      /\ source \in File /\ source.ts = 1 /\ source.index >= F
      /\ local.fileIndex = source.index /\ local.tsUID = 1
      /\ local \in [tsUID : Nat, fileIndex : Nat]
  BY <1>1 DEF SupplierOK, Active
<1>3. source.index \in Nat
  BY <1>2 DEF File
<1>4. firstPacketSeqNum' \in Nat \ {0} /\ FilesOK(F)' /\ FlagOK'
  <2>1. ~needToRestartSupplier /\ needToRestartSupplier \in BOOLEAN
    BY <1>1 DEF FlagOK
  <2> QED BY <1>1, <2>1, FilesKept
<1>5. SupplierOK(F)'
  <2>1. CASE place = source.index * FileLen
    <3>1. /\ supplier' = "eof" /\ place' = 0
          /\ local' = [local EXCEPT !.fileIndex = @ + 1]
      BY <2>1 DEF Keep
    <3>2. /\ local' \in [tsUID : Nat, fileIndex : Nat] /\ local'.tsUID = 1
          /\ local'.fileIndex = source.index + 1
      BY <1>2, <1>3, <3>1
    <3>3. local'.fileIndex - 1 = source.index /\ local'.fileIndex > F
      BY <1>2, <1>3, <3>2
    <3> QED BY <1>1, <1>2, <2>1, <3>1, <3>2, <3>3 DEF SupplierOK, Active
  <2>2. CASE place # source.index * FileLen
    <3>1. supplier' = "read" /\ place' = place + 1 /\ UNCHANGED <<source, local>>
      BY <2>2 DEF Keep
    <3>2. place' = task.seqNum /\ place' \in Nat /\ place' > 0
      BY <1>2, <3>1
    <3> QED BY <1>1, <3>1, <3>2 DEF SupplierOK, Active
  <2> QED BY <2>1, <2>2
<1>6. /\ sentBufQue' \in Seq(Kept) /\ Len(sentBufQue') >= Len(sentBufQue)
      /\ Numbered(sentBufQue') /\ RunsTo(sentBufQue', place + 1)
  <2>1. PICK e \in Kept : e = [seq |-> place, body |-> <<1, place>>]
    BY <1>2 DEF Kept
  <2>2. Genuine(e) /\ e.seq = place
    BY <1>2, <2>1 DEF Genuine
  <2>3. sentBufQue \in Seq(Kept) /\ Numbered(sentBufQue) /\ RunsTo(sentBufQue, place)
    BY <1>1 DEF KeptOK, Active, NextKept
  <2>4. [seq |-> header.seq, body |-> header.body] = e
    BY <1>2, <2>1
  <2>5. sentBufQue' = IF Len(Append(sentBufQue, e)) > Window
                        THEN Tail(Append(sentBufQue, e)) ELSE Append(sentBufQue, e)
    BY <2>4 DEF Keep
  <2>6. Window \in Nat \ {0} /\ place \in Nat
    BY <1>2, Parameters
  <2> HIDE DEF Supplied
  <2> QED BY <2>2, <2>3, <2>5, <2>6, KeepPacket
<1>7. NextKept' = place + 1
  <2>1. place' = IF supplier' = "eof" THEN 0 ELSE place + 1
    BY DEF Keep
  <2> QED BY <1>1, <1>2, <2>1 DEF NextKept
<1>8. KeptOK'
  BY <1>1, <1>6, <1>7 DEF KeptOK
<1>9. EntryOK'
  <2>1. /\ entry \in [present : BOOLEAN, seqOffset : Nat, asked : Nat, last : Nat]
        /\ entry.seqOffset <= Len(sentBufQue)
    BY <1>1 DEF EntryOK, Active
  <2>2. entry.seqOffset <= Len(sentBufQue')
    <3>1. Len(sentBufQue) \in Nat /\ Len(sentBufQue') \in Nat
      BY <1>6, LenProperties DEF KeptOK
    <3> QED BY <1>6, <2>1, <3>1
  <2> QED BY <1>1, <2>1, <2>2 DEF EntryOK, Active, NextSent
<1>10. OutOK'
  BY <1>1 DEF OutOK
<1> QED BY <1>4, <1>5, <1>8, <1>9, <1>10

\* At the end of a file the flag is not set, and the next file of the stream opens.
LEMMA NextFileStep ==
  ASSUME NEW F \in Nat, Supplied(F), CheckFlag \/ Copy \/ Find PROVE Supplied(F)'
<1> USE DEF Supplied
<1>1. /\ supplier \in {"eof", "copy", "find"}
      /\ UNCHANGED <<receiverVars, fileIndex, link, files, task, sentBufQue, local,
                     header, out, entry, thrown>>
  <2>1. CASE CheckFlag
    BY <2>1 DEF CheckFlag, diskVars
  <2>2. CASE Find
    BY <2>2 DEF Find, diskVars
  <2>3. ~Copy
    BY DEF Copy, SupplierOK, Active
  <2> QED BY <2>1, <2>2, <2>3
<1>2. supplier \in {"eof", "find"} /\ ~Copy
  BY <1>1 DEF Copy, SupplierOK, Active
<1>3. /\ ~needToRestartSupplier /\ needToRestartSupplier \in BOOLEAN
      /\ local.fileIndex > F /\ task.seqNum = (local.fileIndex - 1) * FileLen + 1
      /\ local.fileIndex \in Nat /\ task.seqNum \in Nat /\ local.tsUID = 1
  BY <1>2 DEF FlagOK, SupplierOK, Active, Task
<1>4. OutOK'
  BY <1>1 DEF OutOK
<1>5. /\ supplier' \in {"eof", "find", "read", "end"}
      /\ needToRestartSupplier' = FALSE
  BY <1>2, <1>3 DEF CheckFlag, Find, Opens
<1>6. firstPacketSeqNum' \in Nat \ {0} /\ FilesOK(F)' /\ FlagOK'
  BY <1>1, <1>2, <1>3, <1>5, FilesKept
<1>7. CASE supplier' = "read"
  <2>1. Opens(local.fileIndex)
    BY <1>2, <1>3, <1>7 DEF CheckFlag, Find
  <2>2. /\ source' \in File /\ source'.ts = 1 /\ source'.index = local.fileIndex
        /\ place' = task.seqNum
    BY <1>3, <2>1, OpensStep
  <2>4. local.fileIndex >= F /\ source'.index >= F
    BY <1>3, <2>2
  <2>5. task.seqNum > 0
    <3>1. PICK j \in Nat : j = local.fileIndex - 1
      BY <1>3
    <3>2. PICK L \in Nat : L = FileLen
      BY RelayAssumption, Parameters
    <3>3. j * L \in Nat
      OBVIOUS
    <3> QED BY <1>3, <3>1, <3>2, <3>3
  <2>6. place' \in Nat /\ place' > 0
    BY <1>3, <2>2, <2>5
  <2>7. SupplierOK(F)'
    BY <1>1, <1>2, <1>7, <2>2, <2>4, <2>6 DEF SupplierOK, Active
  <2>8. KeptOK'
    BY <1>1, <1>2, <1>7, <2>2 DEF KeptOK, NextKept, Active
  <2>9. EntryOK'
    BY <1>1, <1>2, <1>7, <2>2 DEF EntryOK, NextSent, Active
  <2> QED BY <1>4, <1>6, <2>7, <2>8, <2>9
<1>8. CASE supplier' # "read"
  <2>1. UNCHANGED <<source, place>> /\ supplier' \in {"eof", "find", "end"}
    BY <1>2, <1>5, <1>8 DEF CheckFlag, Find, Opens
  <2>2. SupplierOK(F)'
    BY <1>1, <1>2, <1>3, <2>1 DEF SupplierOK, Active
  <2>3. KeptOK'
    BY <1>1, <1>2, <2>1 DEF KeptOK, NextKept, Active
  <2>4. EntryOK'
    BY <1>1, <1>2, <2>1 DEF EntryOK, NextSent, Active
  <2> QED BY <1>4, <1>6, <2>2, <2>3, <2>4
<1> QED BY <1>7, <1>8

LEMMA EndOfSupplierStep ==
  ASSUME NEW F \in Nat, Supplied(F), EndOfSupplier PROVE Supplied(F)'
<1> USE DEF Supplied
<1>1. /\ supplier = "end" /\ supplier' = "gone" /\ ~entry.present
      /\ sentBufQue' = <<>> /\ place' = 0
      /\ UNCHANGED <<receiverVars, fileIndex, link, files, needToRestartSupplier, task,
                     local, header, out, entry, thrown>>
  BY DEF EndOfSupplier, diskVars
<1>2. needToRestartSupplier \in BOOLEAN
  BY DEF FlagOK
<1>3. firstPacketSeqNum' \in Nat \ {0} /\ FilesOK(F)' /\ FlagOK'
  BY <1>1, <1>2, FilesKept
<1>4. SupplierOK(F)'
  BY <1>1 DEF SupplierOK, Active
<1>5. KeptOK' /\ EntryOK' /\ OutOK'
  BY <1>1 DEF KeptOK, Numbered, EntryOK, OutOK, Active
<1> QED BY <1>3, <1>4, <1>5

LEMMA SupplierStep ==
  ASSUME RelayAssumption, NEW F \in Nat, Supplied(F), Supplier PROVE Supplied(F)'
BY OpenFirstStep, NumberStep, IncrementStep, SendStep, KeepStep, NextFileStep,
   EndOfSupplierStep DEF Supplier

-----------------------------------------------------------------------------
(* The node's consumer.                                                    *)

\* The node's consumer begins where sentBufQue has what it asked for.
LEMMA ConsumerStep ==
  ASSUME RelayAssumption, NEW F \in Nat, Supplied(F),
         (\E e \in 0..MaxSeq : updateSupplierTask(e)) \/ ResendEnds
  PROVE  Supplied(F)'
<1> USE DEF Supplied
<1>1. /\ UNCHANGED <<receiverVars, fileIndex, link, files, needToRestartSupplier, task,
                     sentBufQue, supplier, local, source, place, header, out>>
      /\ thrown' # "at"
  BY DEF updateSupplierTask, ResendEnds, supplierVars, diskVars, OutOK
<1>2. firstPacketSeqNum' \in Nat \ {0} /\ FilesOK(F)' /\ FlagOK'
  BY <1>1, FilesKept DEF FlagOK
<1>3. SupplierOK(F)'
  BY <1>1 DEF receiverVars, SupplierOK, Active
<1>4. KeptOK'
  BY <1>1 DEF KeptOK, NextKept, Active
<1>5. OutOK'
  BY <1>1 DEF OutOK
<1>6. ASSUME NEW b \in BOOLEAN,
             entry' = [present |-> b, seqOffset |-> 0, asked |-> 0, last |-> 0]
      PROVE  EntryOK'
  <2>1. /\ entry' \in [present : BOOLEAN, seqOffset : Nat, asked : Nat, last : Nat]
        /\ entry'.seqOffset = 0 /\ entry'.last = 0
    BY <1>6
  <2>2. Len(sentBufQue) \in Nat
    BY LenProperties DEF KeptOK
  <2> QED BY <1>1, <2>1, <2>2 DEF EntryOK
<1>7. CASE ResendEnds
  BY <1>2, <1>3, <1>4, <1>5, <1>6, <1>7 DEF ResendEnds, NoEntry
<1>8. ASSUME NEW e \in 0..MaxSeq, updateSupplierTask(e) PROVE EntryOK'
  <2>1. CASE entry' = entry
    BY <1>1, <2>1 DEF EntryOK, NextSent, Active
  <2>2. CASE sentBufQue # <<>> /\ CatchesUp(e)
    <3>1. entry' = [present |-> TRUE, asked |-> e, last |-> 0,
                    seqOffset |-> task.seqNum - e]
      BY <1>8, <2>2 DEF updateSupplierTask
    <3>2. e \in Nat /\ task.seqNum \in Nat /\ e < task.seqNum /\ place \in Nat /\ Slack \in Nat
      BY <2>2, Parameters DEF CatchesUp, SupplierOK, Task
    <3>3. PICK o \in Nat : o = task.seqNum - e
      BY <3>2
    <3>4. /\ entry' \in [present : BOOLEAN, seqOffset : Nat, asked : Nat, last : Nat]
          /\ entry'.present /\ entry'.seqOffset = o /\ entry'.asked = e /\ entry'.last = 0
      BY <3>1, <3>2, <3>3
    <3>5. supplier \notin {"none", "first"}
      BY <2>2 DEF KeptOK
    <3>6. CASE supplier \in Active
      <4>1. task.seqNum \in {NextKept, NextKept + 1} /\ NextKept \in Nat
        BY <3>2, <3>6 DEF SupplierOK, NextKept, Active
      <4>2. sentBufQue \in Seq(Kept) /\ Numbered(sentBufQue) /\ RunsTo(sentBufQue, NextKept)
        BY <3>6 DEF KeptOK
      <4>3. PICK m \in Nat : m = NextKept
        BY <4>1
      <4>4. PICK l \in Nat : l = Len(sentBufQue)
        BY <4>2, LenProperties
      <4>5. l > 0 /\ 1 \in 1..l
        BY <2>2, <4>2, <4>4, EmptySeq
      <4>6. Genuine(sentBufQue[1]) /\ sentBufQue[1].seq + l + 1 = m + 1
        BY <4>2, <4>3, <4>4, <4>5 DEF Numbered, RunsTo
      <4>7. PICK x \in Nat : x = sentBufQue[1].seq
        BY <4>6 DEF Genuine, Kept
      <4>8. x + l + 1 = m + 1
        BY <4>6, <4>7
      <4>9. e > x + Slack
        BY <2>2, <4>7 DEF CatchesUp
      <4>10. o <= l
        BY <3>2, <3>3, <4>1, <4>3, <4>8, <4>9
      <4>11. e + o = task.seqNum
        BY <3>2, <3>3
      <4>12. task.seqNum \in {NextSent, NextSent + 1}
        BY <3>2, <3>6 DEF SupplierOK, NextSent, Active
      <4>13. entry'.asked + entry'.seqOffset \in {NextSent', (NextSent + 1)'}
        BY <1>1, <3>4, <4>11, <4>12 DEF NextSent
      <4>14. entry'.seqOffset <= Len(sentBufQue')
        BY <1>1, <3>4, <4>4, <4>10
      <4> QED BY <1>1, <3>4, <3>6, <4>13, <4>14 DEF EntryOK, Active
    <3>7. CASE supplier \notin Active
      BY <1>1, <3>4, <3>5, <3>7 DEF EntryOK
    <3> QED BY <3>6, <3>7
  <2>3. CASE entry' = [NoEntry EXCEPT !.present = TRUE]
    <3>1. entry' = [present |-> TRUE, seqOffset |-> 0, asked |-> 0, last |-> 0]
      BY <2>3 DEF NoEntry
    <3> QED BY <1>6, <3>1
  <2> QED BY <1>8, <2>1, <2>2, <2>3 DEF updateSupplierTask
<1> QED BY <1>2, <1>3, <1>4, <1>5, <1>7, <1>8

-----------------------------------------------------------------------------
(* The release, the player and the timer.                                  *)

\* Nothing the supplier's part is about changes.
LEMMA Unchanged ==
  ASSUME NEW F \in Nat, Supplied(F),
         UNCHANGED <<firstPacketSeqNum, files, needToRestartSupplier, supplierVars, entry,
                     thrown>>
  PROVE  Supplied(F)'
<1> USE DEF Supplied
<1>1. UNCHANGED <<task, sentBufQue, supplier, local, source, place, header, out>>
  BY DEF supplierVars
<1>2. FilesOK(F)' /\ FlagOK' /\ firstPacketSeqNum' \in Nat \ {0}
  BY <1>1 DEF FilesOK, FlagOK
<1>3. SupplierOK(F)'
  BY <1>1 DEF SupplierOK, Active, Task
<1>4. KeptOK' /\ EntryOK' /\ OutOK'
  BY <1>1 DEF KeptOK, Numbered, RunsTo, NextKept, EntryOK, NextSent, OutOK
<1> QED BY <1>2, <1>3, <1>4

LEMMA PlayerStep ==
  ASSUME NEW F \in Nat, Supplied(F), Player PROVE Supplied(F)'
<1>1. UNCHANGED <<firstPacketSeqNum, files, needToRestartSupplier, supplierVars, entry,
                  thrown>>
  BY DEF Player, PlayWait, PlayOpen, Play, PlayCheck, PlayAgain, PlayFind, othersOfPlayer,
         receiverVars, diskVars
<1> QED BY <1>1, Unchanged

\* The task is told to end, or erased when its thread has ended.
LEMMA ReleaseStep ==
  ASSUME NEW F \in Nat, Supplied(F), ReleaseSupplier \/ Release PROVE Supplied(F)'
<1> USE DEF Supplied
<1>1. /\ UNCHANGED <<receiverVars, needToRestartSupplier, source, place, out, thrown>>
      /\ files' \subseteq files
  BY DEF ReleaseSupplier, Release, ReleaseErase, ReleaseConsumer, ReleaseDone,
         othersOfRelease
<1>2. UNCHANGED firstPacketSeqNum
  BY <1>1 DEF receiverVars
<1>3. OutOK'
  BY <1>1 DEF OutOK
<1>4. CASE ReleaseErase
  <2>1. /\ supplier = "gone" /\ supplier' = "none"
        /\ task' = [tsUID |-> 0, seqNum |-> 0, fileIndex |-> 0, EXITsupplier |-> FALSE]
        /\ local' = [tsUID |-> 0, fileIndex |-> 0]
        /\ sentBufQue' = <<>>
        /\ entry' = [present |-> FALSE, seqOffset |-> 0, asked |-> 0, last |-> 0]
    BY <1>4 DEF ReleaseErase, NoEntry, NoTask
  <2>2. FilesOK(F)' /\ FlagOK' /\ firstPacketSeqNum' \in Nat \ {0}
    BY <1>1, <2>1, FilesKept DEF FlagOK
  <2>3. SupplierOK(F)'
    BY <1>1, <2>1 DEF SupplierOK, Active, Task
  <2>4. KeptOK' /\ EntryOK'
    BY <2>1 DEF KeptOK, Numbered, EntryOK, Active
  <2> QED BY <1>3, <2>2, <2>3, <2>4
<1>5. CASE ~ReleaseErase
  <2>1. UNCHANGED <<sentBufQue, supplier, local, header, entry>>
    BY <1>5 DEF ReleaseSupplier, Release, ReleaseConsumer, ReleaseDone
  <2>2. task' = task \/ task' = [task EXCEPT !.EXITsupplier = TRUE]
    BY <1>5 DEF ReleaseSupplier, Release, ReleaseConsumer, ReleaseDone
  <2>3. task \in Task
    BY DEF SupplierOK
  <2>4. /\ task' \in Task /\ task'.seqNum = task.seqNum /\ task'.tsUID = task.tsUID
        /\ task'.fileIndex = task.fileIndex
    BY <2>2, <2>3 DEF Task
  <2>5. FilesOK(F)' /\ FlagOK' /\ firstPacketSeqNum' \in Nat \ {0}
    BY <1>1, <2>1, FilesKept DEF FlagOK
  <2>6. SupplierOK(F)'
    BY <1>1, <1>2, <2>1, <2>4 DEF SupplierOK, Active
  <2>7. KeptOK' /\ EntryOK'
    BY <1>1, <2>1, <2>4 DEF KeptOK, Numbered, RunsTo, NextKept, EntryOK, NextSent
  <2> QED BY <1>3, <2>5, <2>6, <2>7
<1> QED BY <1>4, <1>5

\* What the receive thread keeps is kept when other threads go on.
Other == \/ Supplier \/ (\E e \in 0..MaxSeq : updateSupplierTask(e)) \/ ResendEnds
         \/ Player \/ ReleaseSupplier \/ Release

LEMMA OtherStep ==
  ASSUME RelayAssumption, Other
  PROVE  /\ \A F \in Nat : Supplied(F) => Supplied(F)'
         /\ UNCHANGED <<receiverVars, fileIndex, link>>
         /\ supplier = "none" => supplier' = "none"
         /\ files' \subseteq files
<1>1. \A F \in Nat : Supplied(F) => Supplied(F)'
  BY SupplierStep, ConsumerStep, PlayerStep, ReleaseStep DEF Other
<1>2. CASE Supplier
  <2>1. UNCHANGED <<receiverVars, fileIndex, link, files>>
    BY <1>2 DEF Supplier, OpenFirst, Number, Increment, Send, Keep, CheckFlag, Copy, Find,
                EndOfSupplier, diskVars
  <2>2. supplier # "none"
    BY <1>2 DEF Supplier, OpenFirst, Number, Increment, Send, Keep, CheckFlag, Copy, Find,
                EndOfSupplier
  <2> QED BY <1>1, <2>1, <2>2
<1>3. CASE (\E e \in 0..MaxSeq : updateSupplierTask(e)) \/ ResendEnds
  BY <1>1, <1>3 DEF updateSupplierTask, ResendEnds, supplierVars, diskVars
<1>4. CASE Player
  BY <1>1, <1>4 DEF Player, PlayWait, PlayOpen, Play, PlayCheck, PlayAgain, PlayFind,
                    othersOfPlayer, supplierVars, diskVars
<1>5. CASE ReleaseSupplier \/ Release
  BY <1>1, <1>5 DEF ReleaseSupplier, Release, ReleaseErase, ReleaseConsumer, ReleaseDone,
                    othersOfRelease
<1> QED BY <1>2, <1>3, <1>4, <1>5 DEF Other

LEMMA StreamStep ==
  ASSUME RelayAssumption, OneStream, Other PROVE OneStream'
<1>1. /\ UNCHANGED <<receiverVars, fileIndex, link>>
      /\ supplier = "none" => supplier' = "none"
      /\ files' \subseteq files
  BY OtherStep
<1>2. ReceiverOK'
  BY <1>1 DEF OneStream, ReceiverOK, receiverVars
<1>3. StartOK'
  BY <1>1 DEF OneStream, StartOK, receiverVars
<1>4. PICK F \in Nat : F = fileIndex
  BY DEF OneStream, ReceiverOK
<1>5. Supplied(F)
  BY <1>4 DEF OneStream, Supplied, FilesOK, SupplierOK
<1>6. Supplied(F)' /\ fileIndex' = F
  BY <1>1, <1>4, <1>5, OtherStep
<1>7. Supplied(fileIndex)'
  BY <1>6 DEF Supplied, FilesOK, SupplierOK
<1> QED BY <1>2, <1>3, <1>7 DEF OneStream

\* A restart is counted, and only the timer and a packet of another stream restart.
LEMMA RestartsStep ==
  ASSUME Next
  PROVE  \/ /\ restarts' = restarts
            /\ \/ RecvNext \/ \E n \in 1..MaxSeq : RecvFirst(n)
               \/ Receiver \/ Other \/ RestartQuery \/ DoYouHave
         \/ restarts' = restarts + 1
<1>1. CASE RecvNext \/ \E n \in 1..MaxSeq : RecvFirst(n)
  BY <1>1 DEF RecvNext, RecvFirst
<1>2. CASE (\E ts \in Stream, n \in 1..MaxSeq : ChangeTs(ts, n)) \/ RestartClear
  BY <1>2 DEF ChangeTs, RestartClear
<1>3. CASE Receiver
  BY <1>3 DEF Receiver, FlagConsumer, FlagSupplier, startOneSupplier, SaveFile,
              ReceiverEnds, ReceiverGone
<1>4. CASE RestartQuery \/ DoYouHave
  BY <1>4 DEF RestartQuery, DoYouHave, receiverVars
<1>5. CASE Supplier
  BY <1>5 DEF Supplier, OpenFirst, Number, Increment, Send, Keep, CheckFlag, Copy, Find,
              EndOfSupplier, receiverVars, Other
<1>6. CASE (\E e \in 0..MaxSeq : updateSupplierTask(e)) \/ ResendEnds
  BY <1>6 DEF updateSupplierTask, ResendEnds, receiverVars, Other
<1>7. CASE Player
  BY <1>7 DEF Player, PlayWait, PlayOpen, Play, PlayCheck, PlayAgain, PlayFind,
              othersOfPlayer, receiverVars, Other
<1>8. CASE ReleaseSupplier \/ Release
  BY <1>8 DEF ReleaseSupplier, Release, ReleaseErase, ReleaseConsumer, ReleaseDone,
              othersOfRelease, receiverVars, Other
<1> QED BY <1>1, <1>2, <1>3, <1>4, <1>5, <1>6, <1>7, <1>8 DEF Next, Other

\* After the receive thread has ended the supplier thread goes on as before, and nothing
\* restarts.
LEMMA OverStep ==
  ASSUME RelayAssumption, Over, [Next]_vars PROVE Over' /\ restarts' = restarts
<1> USE DEF Over, Ended
<1>0. PICK F \in Nat : Supplied(F)
  OBVIOUS
<1>1. CASE Other
  <2>1. Supplied(F)' /\ UNCHANGED receiverVars
    BY <1>0, <1>1, OtherStep
  <2> QED BY <2>1 DEF receiverVars
<1>2. CASE RecvNext \/ \E n \in 1..MaxSeq : RecvFirst(n)
  BY <1>2 DEF RecvNext, RecvFirst, Receiving
<1>3. CASE (\E ts \in Stream, n \in 1..MaxSeq : ChangeTs(ts, n)) \/ RestartClear
  BY <1>3 DEF ChangeTs, Receiving, RestartClear
<1>4. CASE Receiver \/ RestartQuery \/ DoYouHave \/ UNCHANGED vars
  <2>1. ReceiverGone \/ RestartQuery \/ DoYouHave \/ UNCHANGED vars
    BY <1>4 DEF Receiver, FlagConsumer, FlagSupplier, startOneSupplier, SaveFile,
                ReceiverEnds
  <2>2. /\ UNCHANGED <<firstPacketSeqNum, files, needToRestartSupplier, supplierVars, entry,
                       thrown, restarts>>
        /\ receiver' \in {"end", "gone"}
    BY <2>1 DEF ReceiverGone, RestartQuery, DoYouHave, vars, receiverVars, diskVars
  <2>3. Supplied(F)'
    BY <1>0, <2>2, Unchanged
  <2> QED BY <2>2, <2>3
<1> QED BY <1>1, <1>2, <1>3, <1>4 DEF Next, Other

\* The step between the two.
LEMMA ReceiverEndsStep ==
  ASSUME OneStream, ReceiverEnds PROVE Over'
<1>1. /\ receiver' = "end"
      /\ UNCHANGED <<firstPacketSeqNum, files, needToRestartSupplier, supplierVars, entry,
                     thrown>>
  BY DEF ReceiverEnds
<1>2. PICK F \in Nat : F = fileIndex
  BY DEF OneStream, ReceiverOK
<1>3. Supplied(F)
  BY <1>2 DEF OneStream, Supplied, FilesOK, SupplierOK
<1>4. Supplied(F)'
  BY <1>1, <1>3, Unchanged
<1> QED BY <1>1, <1>4 DEF Over, Ended

-----------------------------------------------------------------------------
(* The invariant and what follows from it.                                 *)

LEMMA InitIInv == Init => IInv
<1> SUFFICES ASSUME Init PROVE restarts \in Nat /\ OneStream
  BY DEF IInv
<1>1. /\ restarts = 0 /\ nextPduSeq = 0 /\ lastTsUID = 0 /\ firstPacketSeqNum = 1
      /\ openFrom = 0 /\ recvdFilesNumber = 0 /\ fileIndex = 0
      /\ receiver = "recv" /\ link = "started" /\ files = {}
      /\ needToRestartSupplier = FALSE /\ supplier = "none"
  BY DEF Init
<1>2. ReceiverOK
  BY <1>1 DEF ReceiverOK
<1>3. FilesOK(fileIndex)
  BY <1>1 DEF FilesOK
<1>4. StartOK /\ FlagOK
  BY <1>1 DEF StartOK, FlagOK
<1>5. SupplierOK(fileIndex)
  BY <1>1 DEF Init, SupplierOK, Active, Task, NoTask
<1>6. KeptOK
  <2>1. sentBufQue = <<>>
    BY DEF Init
  <2>2. sentBufQue \in Seq(Kept) /\ Len(sentBufQue) = 0
    BY <2>1, EmptySeq
  <2>3. Numbered(sentBufQue)
    BY <2>2 DEF Numbered
  <2> QED BY <1>1, <2>1, <2>2, <2>3 DEF KeptOK, Active
<1>7. EntryOK
  BY <1>1 DEF Init, EntryOK, NoEntry, Active
<1>8. OutOK
  BY DEF Init, OutOK
<1> QED BY <1>1, <1>2, <1>3, <1>4, <1>5, <1>6, <1>7, <1>8 DEF OneStream, Supplied

LEMMA StreamUnchanged ==
  ASSUME OneStream, UNCHANGED vars PROVE OneStream'
<1>1. UNCHANGED <<receiverVars, fileIndex, link, diskVars, needToRestartSupplier,
                  supplierVars, entry, thrown>>
  BY DEF vars
<1>2. ReceiverOK' /\ StartOK'
  BY <1>1 DEF OneStream, ReceiverOK, StartOK, receiverVars, diskVars, supplierVars
<1>3. PICK F \in Nat : F = fileIndex
  BY DEF OneStream, ReceiverOK
<1>4. Supplied(F)
  BY <1>3 DEF OneStream, Supplied, FilesOK, SupplierOK
<1>5. Supplied(F)'
  BY <1>1, <1>4, Unchanged DEF receiverVars, diskVars
<1>6. Supplied(fileIndex)'
  BY <1>1, <1>3, <1>5 DEF Supplied, FilesOK, SupplierOK
<1> QED BY <1>2, <1>6 DEF OneStream

LEMMA NextIInv ==
  ASSUME RelayAssumption PROVE IInv /\ [Next]_vars => IInv'
<1> SUFFICES ASSUME IInv, [Next]_vars PROVE IInv'
  OBVIOUS
<1>1. restarts \in Nat /\ restarts' \in Nat /\ (restarts' = 0 => restarts = 0)
  <2>1. restarts' = restarts \/ restarts' = restarts + 1
    BY RestartsStep DEF vars, receiverVars
  <2> QED BY <2>1 DEF IInv
<1>2. CASE Over
  BY <1>1, <1>2, OverStep DEF IInv
<1>3. ASSUME OneStream, restarts' = 0, restarts = 0 PROVE OneStream' \/ Over'
  <2>1. CASE ReceiverEnds
    BY <1>3, <2>1, ReceiverEndsStep
  <2>2. CASE UNCHANGED vars
    BY <1>3, <2>2, StreamUnchanged
  <2>3. CASE Next /\ ~ReceiverEnds
    <3>1. ~RestartQuery /\ ~DoYouHave
      BY <1>3 DEF OneStream, ReceiverOK, RestartQuery, DoYouHave
    <3>2. restarts' # restarts + 1
      BY <1>3
    <3> QED BY <1>3, <2>3, <3>1, <3>2, RestartsStep, RecvStep, ReceiverStep, StreamStep
  <2> QED BY <2>1, <2>2, <2>3
<1> QED BY <1>1, <1>2, <1>3 DEF IInv

\* Until the stream is restarted the files are pieces of one stream, and the supplier
\* thread, sentBufQue and the node's consumer are at known places of it.
THEOREM Invariance == Spec => []IInv
<1>1. RelayAssumption
  BY RelayAssumption
<1>2. IInv /\ [Next]_vars => IInv'
  BY <1>1, NextIInv
<1> QED BY InitIInv, <1>2, PTL DEF Spec

\* What a packet is numbered is what it is.
THEOREM NumbersCorrect == Spec => []NumbersNameContent
<1>1. IInv => NumbersNameContent
  BY DEF IInv, OneStream, Over, Supplied, OutOK, NumbersNameContent
<1> QED BY <1>1, Invariance, PTL

\* Nothing but Send sends, or may call at() with an index sentBufQue does not have.
LEMMA OutStep ==
  ASSUME [Next]_vars PROVE Send \/ (out' \in {out, {}} /\ thrown' \in {thrown, "front"})
<1>1. CASE UNCHANGED vars
  BY <1>1 DEF vars, supplierVars
<1>2. CASE RecvNext \/ \E n \in 1..MaxSeq : RecvFirst(n)
  BY <1>2 DEF RecvNext, RecvFirst, supplierVars
<1>3. CASE \E ts \in Stream, n \in 1..MaxSeq : ChangeTs(ts, n)
  BY <1>3 DEF ChangeTs, supplierVars
<1>4. CASE Receiver
  BY <1>4 DEF Receiver, FlagConsumer, FlagSupplier, startOneSupplier, SaveFile,
              ReceiverEnds, ReceiverGone, supplierVars
<1>5. CASE RestartClear \/ RestartQuery \/ DoYouHave
  BY <1>5 DEF RestartClear, RestartQuery, DoYouHave, supplierVars
<1>6. CASE Supplier
  BY <1>6 DEF Supplier, OpenFirst, Number, Increment, Keep, CheckFlag, Copy, Find,
              EndOfSupplier
<1>7. CASE (\E e \in 0..MaxSeq : updateSupplierTask(e)) \/ ResendEnds
  BY <1>7 DEF updateSupplierTask, ResendEnds, supplierVars
<1>8. CASE Player
  BY <1>8 DEF Player, PlayWait, PlayOpen, Play, PlayCheck, PlayAgain, PlayFind,
              othersOfPlayer, supplierVars
<1>9. CASE ReleaseSupplier \/ Release
  BY <1>9 DEF ReleaseSupplier, Release, ReleaseErase, ReleaseConsumer, ReleaseDone,
              othersOfRelease
<1> QED BY <1>1, <1>2, <1>3, <1>4, <1>5, <1>6, <1>7, <1>8, <1>9 DEF Next

\* A consumer that catches up is sent what it asked for and then every packet in order,
\* and sentBufQue always has it.
THEOREM CatchUpCorrect == Spec => CatchUpFollows
<1>1. ASSUME IInv, [Next]_vars, restarts = 0
      PROVE  /\ thrown' # "at"
             /\ \A p \in out' \ out :
                  IF entry.last = 0
                    THEN entry.seqOffset = 0 \/ p.seq \in {entry.asked - 1, entry.asked}
                    ELSE p.seq = entry.last + 1
  <2>1. PICK F \in Nat : Supplied(F)
    <3>1. CASE OneStream
      <4>1. PICK F \in Nat : F = fileIndex
        BY <3>1 DEF OneStream, ReceiverOK
      <4>2. Supplied(F)
        BY <3>1, <4>1 DEF OneStream, Supplied, FilesOK, SupplierOK
      <4> QED BY <4>2
    <3>2. CASE Over
      BY <3>2 DEF Over
    <3> QED BY <1>1, <3>1, <3>2 DEF IInv
  <2>2. thrown # "at"
    BY <2>1 DEF Supplied, OutOK
  <2>3. CASE out' \in {out, {}} /\ thrown' \in {thrown, "front"}
    BY <2>2, <2>3
  <2>4. CASE Send
    <3>1. CASE out' = {} /\ UNCHANGED thrown
      BY <2>2, <3>1
    <3>2. ASSUME NEW s \in Nat \ {0},
                 out' = {[ts |-> 1, seq |-> s, body |-> <<1, s>>]},
                 s + entry.seqOffset = place, UNCHANGED thrown
          PROVE  /\ thrown' # "at"
                 /\ \A p \in out' \ out :
                      IF entry.last = 0
                        THEN \/ entry.seqOffset = 0
                             \/ p.seq \in {entry.asked - 1, entry.asked}
                        ELSE p.seq = entry.last + 1
      <4>1. supplier = "send"
        BY <2>4 DEF Send
      <4>2. /\ entry.seqOffset \in Nat /\ entry.asked \in Nat /\ entry.last \in Nat
            /\ entry.last # 0 => entry.last + entry.seqOffset + 1 = place
            /\ entry.last = 0 /\ entry.seqOffset # 0 =>
                 entry.asked + entry.seqOffset \in {place, place + 1}
        BY <2>1, <4>1 DEF Supplied, EntryOK, NextSent, Active
      <4>3. IF entry.last = 0
              THEN entry.seqOffset = 0 \/ s \in {entry.asked - 1, entry.asked}
              ELSE s = entry.last + 1
        <5>1. PICK o \in Nat, a \in Nat, z \in Nat :
                o = entry.seqOffset /\ a = entry.asked /\ z = entry.last
          BY <4>2
        <5>2. IF z = 0 THEN o = 0 \/ s \in {a - 1, a} ELSE s = z + 1
          BY <3>2, <4>2, <5>1
        <5> QED BY <5>1, <5>2
      <4>4. \A p \in out' : p.seq = s
        BY <3>2
      <4> QED BY <2>2, <3>2, <4>3, <4>4
    <3> QED BY <2>1, <2>4, <3>1, <3>2, SendsOne
  <2> QED BY <1>1, <2>3, <2>4, OutStep
<1> QED BY <1>1, Invariance, PTL DEF CatchUpFollows, Spec

-----------------------------------------------------------------------------
(* Types, whatever is restarted.                                           *)

ReceiverTypes ==
  /\ nextPduSeq \in Nat /\ lastTsUID \in Stream \union {0} /\ firstPacketSeqNum \in Nat
  /\ openFrom \in Nat /\ recvdFilesNumber \in Nat /\ fileIndex \in Nat /\ restarts \in Nat
  /\ receiver \in {"recv", "finish", "flag", "start", "save", "end", "gone"}
  /\ link \in {"started", "cleared", "query"}
  /\ needToRestartSupplier \in BOOLEAN /\ needToRestartConsumer \in BOOLEAN
  /\ nextPduSeq # 0 => nextPduSeq > 1 /\ lastTsUID \in Stream /\ openFrom # 0
  /\ receiver \in {"finish", "flag", "start", "save"} => nextPduSeq # 0

\* The indices of the files are bounded, or there would be no largest one.
DiskTypes ==
  /\ files \subseteq File
  /\ savedFile \in Seq(Name)
  /\ \E b \in Nat : \A f \in files : f.index <= b

SupplierTypes ==
  /\ thrown \in {"", "at", "front"}
  /\ task \in Task
  /\ sentBufQue \in Seq(Kept)
  /\ supplier \in {"none", "first", "read", "inc", "send", "keep", "eof", "copy", "find",
                   "end", "gone"}
  /\ local \in [tsUID : Nat, fileIndex : Nat]
  /\ source \in File \union {NoFile} /\ place \in Nat
  /\ header \in Sent
  /\ entry \in [present : BOOLEAN, seqOffset : Nat, asked : Nat, last : Nat]
  /\ out \subseteq Sent

PlayerTypes ==
  /\ player \in {"wait", "open", "play", "check", "loop", "find", "gone"}
  /\ playIndex \in Nat
  /\ played \in File \union {NoFile}
  /\ release \in {"no", "supplier", "erased", "consumer", "done"}

Types == ReceiverTypes /\ DiskTypes /\ SupplierTypes /\ PlayerTypes

\* What a part's types rest on.
LEMMA ReceiverFrame ==
  ASSUME ReceiverTypes,
         UNCHANGED <<receiverVars, fileIndex, link, needToRestartSupplier,
                     needToRestartConsumer>>
  PROVE  ReceiverTypes'
BY DEF ReceiverTypes, receiverVars

LEMMA DiskFrame ==
  ASSUME DiskTypes, UNCHANGED diskVars PROVE DiskTypes'
BY DEF DiskTypes, diskVars

LEMMA SupplierFrame ==
  ASSUME SupplierTypes, UNCHANGED <<supplierVars, entry, thrown>> PROVE SupplierTypes'
<1>1. UNCHANGED <<task, sentBufQue, supplier, local, source, place, header, out, entry,
                  thrown>>
  BY DEF supplierVars
<1> QED BY <1>1 DEF SupplierTypes

LEMMA PlayerFrame ==
  ASSUME PlayerTypes, UNCHANGED playerVars PROVE PlayerTypes'
<1>1. UNCHANGED <<player, playIndex, played, release>>
  BY DEF playerVars
<1> QED BY <1>1 DEF PlayerTypes

\* Records with a component changed.
LEMMA TaskWith ==
  ASSUME NEW t \in Task, NEW n \in Nat
  PROVE  [t EXCEPT !.seqNum = n] \in Task /\ [t EXCEPT !.EXITsupplier = TRUE] \in Task
BY DEF Task

LEMMA LocalWith ==
  ASSUME NEW l \in [tsUID : Nat, fileIndex : Nat]
  PROVE  [l EXCEPT !.fileIndex = @ + 1] \in [tsUID : Nat, fileIndex : Nat]
OBVIOUS

\* The index of a packet's file.
LEMMA IndexType ==
  ASSUME RelayAssumption, NEW n \in Nat \ {0} PROVE IndexOf(n) \in Nat \ {0}
<1>1. PICK L \in Nat \ {0} : L = FileLen
  BY Parameters
<1>2. PICK m \in Nat : m = n - 1
  OBVIOUS
<1>3. PICK q \in Nat : q = m \div L
  BY QuotientType
<1> QED BY <1>1, <1>2, <1>3 DEF IndexOf

\* getTheMaxFileIndex returns a number.
LEMMA MaxIndexType ==
  ASSUME DiskTypes PROVE MaxIndex \in Nat
<1> DEFINE S == {f.index : f \in files}
<1>1. PICK b \in Nat : \A f \in files : f.index <= b
  BY DEF DiskTypes
<1>2. S \subseteq Nat /\ \A i \in S : i <= b
  BY <1>1 DEF DiskTypes, File
<1>3. ASSUME files # {} PROVE Max(S) \in Nat
  <2>1. S # {}
    BY <1>3
  <2> HIDE DEF S
  <2>2. Max(S) \in S
    BY <1>2, <2>1, LargestNumber
  <2> QED BY <1>2, <2>2
<1> QED BY <1>3 DEF MaxIndex

\* A packet written.
LEMMA WriteTypes ==
  ASSUME RelayAssumption, ReceiverTypes, DiskTypes,
         NEW ts \in Stream, NEW n \in Nat \ {0}, NEW first \in Nat, NEW from \in Nat \ {0},
         NEW recvd \in Nat, Write(ts, n, first, from, recvd),
         restarts' \in Nat,
         UNCHANGED <<link, savedFile, needToRestartSupplier, needToRestartConsumer>>
  PROVE  ReceiverTypes' /\ DiskTypes'
<1>1. lastTsUID' = ts /\ firstPacketSeqNum' = first /\ nextPduSeq' = n + 1 /\ openFrom' = from
      /\ nextPduSeq' > 1
  BY DEF Write
<1>2. CASE LastOfFile(n)
  <2>1. /\ fileIndex' = IF fileIndex = 0 THEN IndexOf(n) ELSE fileIndex
        /\ files' \subseteq files \union {[ts |-> ts, index |-> IndexOf(n), from |-> from]}
        /\ recvdFilesNumber' = recvd + 1
        /\ receiver' = "finish"
    BY <1>2 DEF Write, Without
  <2>2. PICK i \in Nat \ {0} : i = IndexOf(n)
    BY IndexType
  <2>3. ReceiverTypes'
    BY <1>1, <2>1, <2>2 DEF ReceiverTypes
  <2>4. files' \subseteq File
    <3>1. [ts |-> ts, index |-> i, from |-> from] \in File
      BY <2>2 DEF File
    <3> QED BY <2>1, <2>2, <3>1 DEF DiskTypes
  <2>5. \E b \in Nat : \A f \in files' : f.index <= b
    <3>1. PICK b \in Nat : \A f \in files : f.index <= b
      BY DEF DiskTypes
    <3>2. PICK c \in Nat : c = IF b >= i THEN b ELSE i
      OBVIOUS
    <3>3. b <= c /\ i <= c
      BY <3>2
    <3>4. ASSUME NEW f \in files' PROVE f.index <= c
      <4>1. CASE f \in files
        <5>1. PICK j \in Nat : j = f.index /\ j <= b
          BY <3>1, <4>1 DEF DiskTypes, File
        <5> QED BY <3>3, <5>1
      <4>2. CASE f.index = i
        BY <3>3, <4>2
      <4> QED BY <2>1, <2>2, <4>1, <4>2
    <3> QED BY <3>4
  <2> QED BY <2>3, <2>4, <2>5 DEF DiskTypes
<1>3. CASE ~LastOfFile(n)
  <2>1. recvdFilesNumber' = recvd /\ UNCHANGED <<fileIndex, files, receiver>>
    BY <1>3 DEF Write
  <2>2. ReceiverTypes'
    BY <1>1, <2>1 DEF ReceiverTypes
  <2> QED BY <2>1, <2>2 DEF DiskTypes
<1> QED BY <1>2, <1>3

\* What arrives, and the timer.
LEMMA RecvTypes ==
  ASSUME RelayAssumption, Types,
         \/ RecvNext \/ \E n \in 1..MaxSeq : RecvFirst(n)
         \/ \E ts \in Stream, n \in 1..MaxSeq : ChangeTs(ts, n)
         \/ RestartClear \/ RestartQuery \/ DoYouHave
  PROVE  ReceiverTypes' /\ DiskTypes'
<1>1. MaxSeq \in Nat /\ 1 \in Stream
  BY Parameters DEF Stream
<1>2. ReceiverTypes /\ DiskTypes
  BY DEF Types
<1>3. CASE RecvNext
  <2>1. nextPduSeq \in Nat \ {0} /\ lastTsUID \in Stream /\ openFrom \in Nat \ {0}
    BY <1>1, <1>2, <1>3 DEF RecvNext, ReceiverTypes
  <2>2. firstPacketSeqNum \in Nat /\ recvdFilesNumber \in Nat /\ restarts \in Nat
    BY <1>2 DEF ReceiverTypes
  <2> QED BY <1>2, <1>3, <2>1, <2>2, WriteTypes DEF RecvNext
<1>4. ASSUME NEW n \in 1..MaxSeq, RecvFirst(n) PROVE ReceiverTypes' /\ DiskTypes'
  <2>1. PICK ts \in Stream : ts = IF lastTsUID = 0 THEN 1 ELSE lastTsUID
    BY <1>1, <1>2 DEF ReceiverTypes
  <2>2. n \in Nat \ {0} /\ 0 \in Nat /\ restarts \in Nat
    BY <1>1, <1>2 DEF ReceiverTypes
  <2> QED BY <1>2, <1>4, <2>1, <2>2, WriteTypes DEF RecvFirst
<1>5. ASSUME NEW ts \in Stream, NEW n \in 1..MaxSeq, ChangeTs(ts, n)
      PROVE  ReceiverTypes' /\ DiskTypes'
  <2>1. n \in Nat \ {0} /\ 0 \in Nat
    BY <1>1
  <2>2. restarts' \in Nat
    BY <1>2, <1>5 DEF ChangeTs, ReceiverTypes
  <2>3. CASE link = "query"
    <3>1. DiskTypes'
      BY <1>2, <1>5, <2>3 DEF ChangeTs, DiskTypes
    <3>2. receiver = "recv" /\ UNCHANGED receiver
      BY <1>5, <2>3 DEF ChangeTs, Receiving
    <3>3. ReceiverTypes'
      BY <1>2, <1>5, <2>2, <2>3, <3>2 DEF ChangeTs, ReceiverTypes
    <3> QED BY <3>1, <3>3
  <2>4. CASE link # "query"
    BY <1>2, <1>5, <2>1, <2>2, <2>4, WriteTypes DEF ChangeTs
  <2> QED BY <2>3, <2>4
<1>6. CASE RestartClear
  BY <1>2, <1>6 DEF RestartClear, diskVars, ReceiverTypes, DiskTypes
<1>7. CASE RestartQuery
  BY <1>2, <1>7 DEF RestartQuery, receiverVars, diskVars, ReceiverTypes, DiskTypes
<1>8. CASE DoYouHave
  BY <1>2, <1>8 DEF DoYouHave, receiverVars, diskVars, ReceiverTypes, DiskTypes
<1> QED BY <1>3, <1>4, <1>5, <1>6, <1>7, <1>8

\* The receive thread at the end of a file.
LEMMA ReceiverTypesStep ==
  ASSUME RelayAssumption, Types, Receiver PROVE ReceiverTypes' /\ DiskTypes'
<1>1. ReceiverTypes /\ DiskTypes
  BY DEF Types
<1>2. CASE FlagConsumer
  BY <1>1, <1>2 DEF FlagConsumer, diskVars, ReceiverTypes, DiskTypes
<1>3. CASE FlagSupplier
  BY <1>1, <1>3 DEF FlagSupplier, diskVars, ReceiverTypes, DiskTypes
<1>4. CASE startOneSupplier
  BY <1>1, <1>4 DEF startOneSupplier, diskVars, ReceiverTypes, DiskTypes
<1>5. CASE ReceiverEnds
  BY <1>1, <1>5, EmptySeq DEF ReceiverEnds, ReceiverTypes, DiskTypes
<1>7. CASE ReceiverGone
  BY <1>1, <1>7 DEF ReceiverGone, diskVars, ReceiverTypes, DiskTypes
<1>6. CASE SaveFile
  <2> DEFINE all == Append(savedFile, Finished)
  <2>1. nextPduSeq - 1 \in Nat \ {0} /\ nextPduSeq \in Nat \ {0}
        /\ lastTsUID \in Stream /\ openFrom \in Nat \ {0}
    BY <1>1, <1>6 DEF SaveFile, ReceiverTypes
  <2>2. IndexOf(nextPduSeq - 1) \in Nat \ {0}
    <3>1. PICK n \in Nat \ {0} : n = nextPduSeq - 1
      BY <2>1
    <3> QED BY <3>1, IndexType
  <2>3. Finished \in Name
    BY <2>1, <2>2 DEF Name, Finished
  <2>4. all \in Seq(Name) /\ all # <<>>
    BY <1>1, <2>3, AppendProperties DEF DiskTypes
  <2>5. Tail(all) \in Seq(Name)
    BY <2>4, HeadTailProperties
  <2> HIDE DEF all
  <2>6. savedFile' \in Seq(Name) /\ files' \subseteq files
    BY <2>4, <2>5, <1>6 DEF SaveFile, Without, all
  <2>7. DiskTypes'
    BY <1>1, <2>6 DEF DiskTypes
  <2>8. ReceiverTypes'
    BY <1>1, <1>6, <2>1 DEF SaveFile, ReceiverTypes
  <2> QED BY <2>7, <2>8
<1> QED BY <1>2, <1>3, <1>4, <1>5, <1>6, <1>7 DEF Receiver

\* startOneSupplier's task.
LEMMA StartTypes ==
  ASSUME Types, startOneSupplier PROVE SupplierTypes'
<1>1. PICK i \in Nat : i = IF supplier = "none" /\ fileIndex = 0 THEN MaxIndex ELSE fileIndex
  BY MaxIndexType DEF Types, ReceiverTypes
<1>2. lastTsUID \in Nat /\ firstPacketSeqNum \in Nat
  BY DEF Types, ReceiverTypes, Stream
<1>3. PICK b \in BOOLEAN : b = (supplier # "none" /\ task.EXITsupplier)
  BY DEF Types, SupplierTypes, Task
<1>4. task' = [tsUID |-> lastTsUID, seqNum |-> firstPacketSeqNum, fileIndex |-> i,
               EXITsupplier |-> b]
  BY <1>1, <1>3 DEF startOneSupplier
<1>5. task' \in Task
  BY <1>1, <1>2, <1>4 DEF Task
<1> QED BY <1>5 DEF startOneSupplier, Types, SupplierTypes

\* What Send sends.
LEMMA SendTypes ==
  ASSUME Types, Send PROVE SupplierTypes'
<1>1. SupplierTypes
  BY DEF Types
<1>2. CASE entry.present /\ entry.seqOffset > Len(sentBufQue)
  BY <1>1, <1>2 DEF Send, SupplierTypes
<1>3. CASE ~(entry.present /\ entry.seqOffset > Len(sentBufQue))
  <2>1. Delayed \in Sent \/ ~entry.present \/ entry.seqOffset = 0
    <3> SUFFICES ASSUME entry.present, entry.seqOffset # 0 PROVE Delayed \in Sent
      OBVIOUS
    <3>1. PICK l \in Nat, o \in Nat : l = Len(sentBufQue) /\ o = entry.seqOffset
      BY <1>1, LenProperties DEF SupplierTypes
    <3>2. PICK i \in 1..l : i = l - o + 1
      BY <1>3, <3>1
    <3>3. PICK e \in Kept : e = sentBufQue[i]
      BY <1>1, <3>1, <3>2, ElementOfSeq DEF SupplierTypes
    <3>4. Delayed = [ts |-> task.tsUID, seq |-> e.seq, body |-> e.body]
      BY <3>1, <3>2, <3>3 DEF Delayed
    <3> QED BY <1>1, <3>3, <3>4 DEF SupplierTypes, Kept, Sent, Task
  <2>2. /\ out' = IF ~entry.present THEN {}
                  ELSE IF entry.seqOffset = 0 THEN {header} ELSE {Delayed}
        /\ entry' = [entry EXCEPT !.last = Max({0} \union {p.seq : p \in out'})]
        /\ UNCHANGED thrown
    BY <1>3 DEF Send
  <2>3. out' \subseteq Sent /\ (out' = {} \/ \E p \in Sent : out' = {p})
    BY <1>1, <2>1, <2>2 DEF SupplierTypes
  <2>4. Max({0} \union {p.seq : p \in out'}) \in Nat
    <3>1. CASE out' = {}
      <4>1. {0} \union {p.seq : p \in out'} = {0}
        BY <3>1
      <4> QED BY <4>1, MaxOfSent
    <3>2. ASSUME NEW p \in Sent, out' = {p} PROVE Max({0} \union {q.seq : q \in out'}) \in Nat
      <4>1. {0} \union {q.seq : q \in out'} = {0, p.seq} /\ p.seq \in Nat
        BY <3>2 DEF Sent
      <4> QED BY <4>1, MaxOfSent
    <3> QED BY <2>3, <3>1, <3>2
  <2>5. entry' \in [present : BOOLEAN, seqOffset : Nat, asked : Nat, last : Nat]
    BY <1>1, <2>2, <2>4 DEF SupplierTypes
  <2> QED BY <1>1, <2>2, <2>3, <2>5 DEF Send, SupplierTypes
<1> QED BY <1>2, <1>3

\* What Keep keeps.
LEMMA KeepTypes ==
  ASSUME Types, Keep PROVE SupplierTypes'
<1> DEFINE e == [seq |-> header.seq, body |-> header.body]
           all == Append(sentBufQue, e)
<1>1. SupplierTypes
  BY DEF Types
<1>2. e \in Kept
  BY <1>1 DEF SupplierTypes, Sent, Kept
<1> HIDE DEF e
<1>8. sentBufQue \in Seq(Kept)
  BY <1>1 DEF SupplierTypes
<1>3. all \in Seq(Kept) /\ all # <<>>
  BY <1>2, <1>8, AppendProperties
<1>4. Tail(all) \in Seq(Kept)
  BY <1>3, HeadTailProperties
<1> HIDE DEF all
<1>5. sentBufQue' \in Seq(Kept)
  BY <1>3, <1>4 DEF Keep, all, e
<1>6. source' \in File \union {NoFile} /\ place' \in Nat
      /\ supplier' \in {"eof", "read"}
      /\ local' \in [tsUID : Nat, fileIndex : Nat]
  <2>1. local \in [tsUID : Nat, fileIndex : Nat] /\ source \in File \union {NoFile}
        /\ place \in Nat
    BY <1>1 DEF SupplierTypes
  <2>2. CASE place = source.index * FileLen
    <3>1. /\ supplier' = "eof" /\ source' = NoFile /\ place' = 0
          /\ local' = [local EXCEPT !.fileIndex = @ + 1]
      BY <2>2 DEF Keep
    <3> QED BY <2>1, <3>1, LocalWith
  <2>3. CASE place # source.index * FileLen
    <3>1. supplier' = "read" /\ place' = place + 1 /\ UNCHANGED <<source, local>>
      BY <2>3 DEF Keep
    <3> QED BY <2>1, <3>1
  <2> QED BY <2>2, <2>3
<1>7. header' \in Sent /\ out' \subseteq Sent
  BY DEF Keep, NoPacket, Sent
<1> QED BY <1>1, <1>5, <1>6, <1>7 DEF Keep, SupplierTypes

\* The other steps of the supplier thread.
LEMMA SupplierTypesStep ==
  ASSUME Types, Supplier PROVE SupplierTypes'
<1>1. SupplierTypes
  BY DEF Types
<1>2. \A f \in files : f \in File /\ f.from \in Nat
  BY DEF Types, DiskTypes, File
<1>3. NoFile.ts = 0 /\ NoFile.from = 0
  BY DEF NoFile
<1>4. ASSUME NEW i, Opens(i)
      PROVE  source' \in File \union {NoFile} /\ place' \in Nat /\ supplier' = "read"
  BY <1>2, <1>4 DEF Opens
<1>5. CASE OpenFirst
  <2>1. UNCHANGED <<task, sentBufQue, header, out, entry, thrown>>
    BY <1>5 DEF OpenFirst
  <2>2. CASE Ends
    <3>1. supplier' = "end" /\ UNCHANGED <<local, source, place>>
      BY <2>2 DEF Ends
    <3> QED BY <1>1, <2>1, <3>1 DEF SupplierTypes
  <2>3. CASE local' = [tsUID |-> task.tsUID, fileIndex |-> task.fileIndex]
             /\ Opens(task.fileIndex)
    <3>1. local' \in [tsUID : Nat, fileIndex : Nat]
      BY <1>1, <2>3 DEF SupplierTypes, Task
    <3>2. source' \in File \union {NoFile} /\ place' \in Nat /\ supplier' = "read"
      BY <1>4, <2>3
    <3> QED BY <1>1, <2>1, <3>1, <3>2 DEF SupplierTypes
  <2> QED BY <1>5, <2>2, <2>3 DEF OpenFirst
<1>6. CASE Number
  <2>3. place \in Nat /\ local.tsUID \in Nat /\ NumberTaken \in Nat
    BY <1>1 DEF SupplierTypes, NumberTaken, Task
  <2>4. source \in File => source.ts \in Nat
    BY DEF File, Stream
  <2>1. source.ts \in Nat /\ place \in Nat /\ local.tsUID \in Nat /\ NumberTaken \in Nat
    <3>1. source \in File \union {NoFile}
      BY <1>1 DEF SupplierTypes
    <3>2. source.ts \in Nat
      BY <1>3, <2>4, <3>1
    <3> QED BY <2>3, <3>2
  <2>2. [ts |-> local.tsUID, seq |-> NumberTaken, body |-> <<source.ts, place>>] \in Sent
    BY <2>1 DEF Sent
  <2> QED BY <1>1, <1>6, <2>2 DEF Number, SupplierTypes
<1>7. CASE Increment
  <2>1. task.seqNum \in Nat /\ header.seq \in Nat
    BY <1>1 DEF SupplierTypes, Sent, Task
  <2>2. PICK n \in Nat : task' = [task EXCEPT !.seqNum = n + 1]
    BY <1>7, <2>1 DEF Increment
  <2>3. task' \in Task
    <3>1. task \in Task
      BY <1>1 DEF SupplierTypes
    <3>2. PICK m \in Nat : m = n + 1
      OBVIOUS
    <3> QED BY <2>2, <3>1, <3>2, TaskWith
  <2> QED BY <1>1, <1>7, <2>3 DEF Increment, SupplierTypes
<1>8. CASE Send \/ Keep
  BY <1>8, SendTypes, KeepTypes
<1>9. CASE CheckFlag
  BY <1>1, <1>9 DEF CheckFlag, SupplierTypes
<1>10. CASE Copy
  BY <1>1, <1>10, EmptySeq DEF Copy, SupplierTypes, Task
<1>11. CASE Find
  BY <1>1, <1>4, <1>11 DEF Find, SupplierTypes
<1>12. CASE EndOfSupplier
  BY <1>1, <1>12, EmptySeq DEF EndOfSupplier, SupplierTypes
<1> QED BY <1>5, <1>6, <1>7, <1>8, <1>9, <1>10, <1>11, <1>12 DEF Supplier

\* The node's consumer.
LEMMA ConsumerTypesStep ==
  ASSUME RelayAssumption, Types, (\E e \in 0..MaxSeq : updateSupplierTask(e)) \/ ResendEnds
  PROVE  SupplierTypes'
<1>1. SupplierTypes
  BY DEF Types
<1>2. UNCHANGED <<task, sentBufQue, supplier, local, source, place, header, out>>
  BY DEF updateSupplierTask, ResendEnds, supplierVars
<1>3. NoEntry \in [present : BOOLEAN, seqOffset : Nat, asked : Nat, last : Nat]
  BY DEF NoEntry
<1>4. ASSUME NEW e \in 0..MaxSeq, updateSupplierTask(e) PROVE SupplierTypes'
  <2>1. PICK s \in Nat : s = task.seqNum
    BY <1>1 DEF SupplierTypes, Task
  <2>2. e \in Nat
    BY Parameters
  <2>3. ASSUME e < s
        PROVE  [present |-> TRUE, asked |-> e, last |-> 0, seqOffset |-> task.seqNum - e]
                 \in [present : BOOLEAN, seqOffset : Nat, asked : Nat, last : Nat]
    <3>1. s - e \in Nat
      BY <2>2, <2>3
    <3> QED BY <2>1, <2>2, <3>1
  <2>4. [NoEntry EXCEPT !.present = TRUE]
          \in [present : BOOLEAN, seqOffset : Nat, asked : Nat, last : Nat]
    BY <1>3
  <2>5. entry' \in [present : BOOLEAN, seqOffset : Nat, asked : Nat, last : Nat]
        /\ thrown' \in {"", "at", "front"}
    BY <1>1, <1>4, <2>1, <2>3, <2>4 DEF updateSupplierTask, CatchesUp, SupplierTypes
  <2> QED BY <1>1, <1>2, <2>5 DEF SupplierTypes
<1>5. CASE ResendEnds
  BY <1>1, <1>2, <1>3, <1>5 DEF ResendEnds, SupplierTypes
<1> QED BY <1>4, <1>5

\* The player, and the release of the channel.
LEMMA PlayerTypesStep ==
  ASSUME Types, Player \/ ReleaseSupplier \/ Release PROVE Types'
<1> USE DEF Types
<1>1. \A f \in files : f \in File
  BY DEF DiskTypes
<1>2. CASE Player
  <2>1. UNCHANGED <<receiverVars, fileIndex, link, diskVars, needToRestartSupplier,
                    supplierVars, entry, thrown, release>>
    BY <1>2 DEF Player, PlayWait, PlayOpen, Play, PlayCheck, PlayAgain, PlayFind,
                othersOfPlayer
  <2>2. needToRestartConsumer' \in BOOLEAN
    BY <1>2 DEF Player, PlayWait, PlayOpen, Play, PlayCheck, PlayAgain, PlayFind,
                ReceiverTypes
  <2>3. player' \in {"wait", "open", "play", "check", "loop", "find", "gone"}
        /\ playIndex' \in Nat /\ played' \in File \union {NoFile}
    BY <1>1, <1>2 DEF Player, PlayWait, PlayOpen, Play, PlayCheck, PlayAgain, PlayFind,
                      PlayerTypes, ReceiverTypes
  <2>4. ReceiverTypes'
    BY <2>1, <2>2 DEF receiverVars, ReceiverTypes
  <2>5. PlayerTypes'
    BY <2>1, <2>3 DEF PlayerTypes
  <2> QED BY <2>1, <2>4, <2>5, DiskFrame, SupplierFrame
<1>3. CASE ReleaseSupplier \/ Release
  <2>1. UNCHANGED othersOfRelease /\ files' \subseteq files
        /\ release' \in {"no", "supplier", "erased", "consumer", "done"}
    BY <1>3 DEF ReleaseSupplier, Release, ReleaseErase, ReleaseConsumer, ReleaseDone
  <2>2. PlayerTypes'
    BY <2>1 DEF PlayerTypes, othersOfRelease
  <2>3. ReceiverTypes'
    BY <2>1, ReceiverFrame DEF othersOfRelease
  <2>4. DiskTypes'
    BY <2>1 DEF DiskTypes, othersOfRelease
  <2>5. task' \in Task
    <3>1. NoTask \in Task
      BY DEF NoTask, Task
    <3> QED BY <1>3, <3>1, TaskWith DEF ReleaseSupplier, Release, ReleaseErase,
               ReleaseConsumer, ReleaseDone, SupplierTypes
  <2>6. SupplierTypes'
    <3>1. UNCHANGED <<source, place, out, thrown>>
      BY <2>1 DEF othersOfRelease
    <3>2. UNCHANGED <<sentBufQue, supplier, local, header, entry>> \/ ReleaseErase
      BY <1>3 DEF ReleaseSupplier, Release, ReleaseConsumer, ReleaseDone
    <3>3. CASE UNCHANGED <<sentBufQue, supplier, local, header, entry>>
      BY <2>5, <3>1, <3>3 DEF SupplierTypes
    <3>4. CASE ReleaseErase
      BY <2>5, <3>1, <3>4, EmptySeq DEF ReleaseErase, SupplierTypes, NoPacket, NoEntry, Sent
    <3> QED BY <3>2, <3>3, <3>4
  <2> QED BY <2>2, <2>3, <2>4, <2>6
<1> QED BY <1>2, <1>3

LEMMA InitTypes ==
  ASSUME Init PROVE Types
<1>1. ReceiverTypes /\ PlayerTypes
  BY DEF Init, ReceiverTypes, PlayerTypes
<1>2. DiskTypes
  BY EmptySeq DEF Init, DiskTypes
<1>3. SupplierTypes
  BY EmptySeq DEF Init, SupplierTypes, NoPacket, NoEntry, NoTask, Task, Sent
<1> QED BY <1>1, <1>2, <1>3 DEF Types

LEMMA NextTypes ==
  ASSUME RelayAssumption, Types, [Next]_vars PROVE Types'
<1> USE DEF Types
<1>1. CASE UNCHANGED vars
  <2>1. UNCHANGED <<receiverVars, fileIndex, link, diskVars, needToRestartSupplier,
                    needToRestartConsumer, supplierVars, entry, thrown, playerVars>>
    BY <1>1 DEF vars
  <2> QED BY <2>1, ReceiverFrame, DiskFrame, SupplierFrame, PlayerFrame
<1>2. CASE \/ RecvNext \/ \E n \in 1..MaxSeq : RecvFirst(n)
           \/ \E ts \in Stream, n \in 1..MaxSeq : ChangeTs(ts, n)
           \/ RestartClear \/ RestartQuery \/ DoYouHave
  <2>1. ReceiverTypes' /\ DiskTypes'
    BY <1>2, RecvTypes
  <2>2. UNCHANGED <<supplierVars, entry, thrown, playerVars>>
    BY <1>2 DEF RecvNext, RecvFirst, ChangeTs, RestartClear, RestartQuery, DoYouHave
  <2>3. SupplierTypes' /\ PlayerTypes'
    BY <2>2, SupplierFrame, PlayerFrame
  <2> QED BY <2>1, <2>3
<1>3. CASE Receiver
  <2>1. ReceiverTypes' /\ DiskTypes'
    BY <1>3, ReceiverTypesStep
  <2>2. UNCHANGED playerVars
    BY <1>3 DEF Receiver, FlagConsumer, FlagSupplier, startOneSupplier, SaveFile,
                ReceiverEnds, ReceiverGone
  <2>3. CASE startOneSupplier
    BY <2>1, <2>2, <2>3, StartTypes, PlayerFrame
  <2>4. CASE FlagConsumer \/ FlagSupplier \/ SaveFile \/ ReceiverEnds \/ ReceiverGone
    <3>1. UNCHANGED <<supplierVars, entry, thrown>>
      BY <2>4 DEF FlagConsumer, FlagSupplier, SaveFile, ReceiverEnds, ReceiverGone
    <3> QED BY <2>1, <2>2, <3>1, SupplierFrame, PlayerFrame
  <2> QED BY <1>3, <2>3, <2>4 DEF Receiver
<1>4. CASE Supplier
  <2>1. UNCHANGED <<receiverVars, fileIndex, link, diskVars, needToRestartConsumer,
                    playerVars>> /\ needToRestartSupplier' \in {needToRestartSupplier, FALSE}
    BY <1>4 DEF Supplier, OpenFirst, Ends, Number, Increment, Send, Keep, CheckFlag, Copy,
                Find, EndOfSupplier
  <2>2. SupplierTypes'
    BY <1>4, SupplierTypesStep
  <2>3. ReceiverTypes'
    BY <2>1 DEF receiverVars, ReceiverTypes
  <2> QED BY <2>1, <2>2, <2>3, DiskFrame, PlayerFrame
<1>5. CASE (\E e \in 0..MaxSeq : updateSupplierTask(e)) \/ ResendEnds
  <2>1. UNCHANGED <<receiverVars, fileIndex, link, diskVars, needToRestartSupplier,
                    needToRestartConsumer, playerVars>>
    BY <1>5 DEF updateSupplierTask, ResendEnds
  <2>2. SupplierTypes'
    BY <1>5, ConsumerTypesStep
  <2> QED BY <2>1, <2>2, ReceiverFrame, DiskFrame, PlayerFrame
<1>6. CASE Player \/ ReleaseSupplier \/ Release
  BY <1>6, PlayerTypesStep
<1> QED BY <1>1, <1>2, <1>3, <1>4, <1>5, <1>6 DEF Next

\* In every reachable state, restarted or not.
LEMMA TypesHold == Spec => []Types
<1>1. Init => Types
  BY InitTypes
<1>2. Types /\ [Next]_vars => Types'
  BY RelayAssumption, NextTypes
<1> QED BY <1>1, <1>2, PTL DEF Spec

\* The variables have their types, for every number of restarts.
THEOREM TypeCorrect == Spec => []TypeOK
<1>1. Types => TypeOK
  <2> SUFFICES ASSUME Types PROVE TypeOK
    OBVIOUS
  <2>1. lastTsUID \in Nat
    BY DEF Types, ReceiverTypes, Stream
  <2> QED BY <2>1 DEF Types, ReceiverTypes, DiskTypes, SupplierTypes, PlayerTypes, TypeOK,
                      Kept
<1> QED BY <1>1, TypesHold, PTL

-----------------------------------------------------------------------------
(* The player.                                                             *)

\* The player has been told of the FtdsStart files, and took it in.
Told ==
  /\ Ended \/ recvdFilesNumber >= FtdsStart
  /\ ~needToRestartConsumer
  /\ receiver = "finish" => recvdFilesNumber # FtdsStart

\* The first file is the one of the first packet.
First == IndexOf(firstPacketSeqNum)

FirstOK ==
  /\ fileIndex # 0 => fileIndex = First
  /\ ~Ended => /\ fileIndex = 0 /\ nextPduSeq # 0 => IndexOf(nextPduSeq) = First
               /\ nextPduSeq = 0 => recvdFilesNumber = 0

\* What the player opens next is the file after the one it played or, once it was
\* told, the first; there is none of index 0.
PlayerOK ==
  /\ needToRestartConsumer =>
       /\ Ended \/ recvdFilesNumber >= FtdsStart
       /\ receiver = "finish" => recvdFilesNumber # FtdsStart
  /\ player \in {"wait", "open"} => played = NoFile
  /\ player = "play" => playIndex = played.index
  /\ player \in {"check", "find"} =>
       playIndex = played.index + 1 \/ (playIndex \in {0, First} /\ Told)
  /\ player = "loop" => Told

PInv == restarts = 0 => FirstOK /\ PlayerOK

LEMMA ToldParameters ==
  ASSUME RelayAssumption, Types
  PROVE  /\ FtdsStart \in Nat \ {0} /\ recvdFilesNumber \in Nat
         /\ needToRestartConsumer \in BOOLEAN
BY DEF RelayAssumption, Types, ReceiverTypes

\* The packet after one that is not the last of its file is in the same file.
LEMMA NextInFile ==
  ASSUME RelayAssumption, NEW n \in Nat \ {0}, ~LastOfFile(n)
  PROVE  IndexOf(n + 1) = IndexOf(n)
<1>1. PICK L \in Nat \ {0} : L = FileLen
  BY Parameters
<1>2. PICK q \in Nat, r \in 0..(L - 1) : q = n \div L /\ r = n % L
  <2>1. n % L \in 0..(L - 1)
    OBVIOUS
  <2> QED BY <2>1, QuotientType
<1>3. n = L * q + r /\ r # 0
  BY <1>1, <1>2, Division DEF LastOfFile
<1>4. PICK b \in Int : b = L * q
  OBVIOUS
<1>5. n - 1 = L * q + (r - 1) /\ r - 1 \in 0..(L - 1) /\ (n + 1) - 1 = L * q + r
  BY <1>3, <1>4
<1>6. (n - 1) \div L = q /\ ((n + 1) - 1) \div L = q
  BY <1>5, Quotient
<1> QED BY <1>1, <1>6 DEF IndexOf

\* The player's invariant does not see the other threads ...
LEMMA PlayerUntouched ==
  ASSUME FirstOK, PlayerOK,
         UNCHANGED <<nextPduSeq, firstPacketSeqNum, recvdFilesNumber, fileIndex, receiver,
                     needToRestartConsumer, player, playIndex, played>>
  PROVE  FirstOK' /\ PlayerOK'
<1>1. First' = First /\ (Ended' <=> Ended) /\ IndexOf(nextPduSeq)' = IndexOf(nextPduSeq)
  BY DEF First, IndexOf, Ended
<1> QED BY <1>1 DEF FirstOK, PlayerOK, Told

\* ... except the receive thread: that has counted a file before it tells the player,
LEMMA PlayerWrite ==
  ASSUME RelayAssumption, Types, FirstOK, PlayerOK, receiver = "recv",
         NEW ts, NEW n \in Nat \ {0}, NEW first, NEW from,
         \/ first = firstPacketSeqNum /\ n = nextPduSeq
         \/ first = n /\ nextPduSeq = 0 /\ fileIndex = 0,
         Write(ts, n, first, from, recvdFilesNumber),
         UNCHANGED <<needToRestartConsumer, player, playIndex, played>>
  PROVE  FirstOK' /\ PlayerOK'
<1>1. FtdsStart \in Nat \ {0} /\ recvdFilesNumber \in Nat
  BY ToldParameters
<1>2. firstPacketSeqNum' = first /\ nextPduSeq' = n + 1 /\ nextPduSeq' # 0 /\ ~Ended
  BY DEF Write, Ended
<1>3. First' = IndexOf(first) /\ IndexOf(nextPduSeq)' = IndexOf(n + 1)
  BY <1>2 DEF First, IndexOf
<1>4. fileIndex = 0 => IndexOf(n) = IndexOf(first)
  BY <1>2 DEF FirstOK, First
<1>5. fileIndex # 0 => fileIndex = IndexOf(first)
  BY DEF FirstOK, First
<1>6. Told => First' = First
  BY <1>1, <1>2, <1>3 DEF Told, FirstOK, First
<1>7. CASE LastOfFile(n)
  <2>1. /\ fileIndex' = IF fileIndex = 0 THEN IndexOf(n) ELSE fileIndex
        /\ recvdFilesNumber' = recvdFilesNumber + 1
        /\ receiver' = "finish"
    BY <1>7 DEF Write
  <2>2. fileIndex' = First' /\ ~Ended'
    BY <1>3, <1>4, <1>5, <2>1 DEF Ended
  <2>3. IndexOf(n) \in Nat \ {0} /\ (fileIndex # 0 => fileIndex' # 0)
    BY <2>1, IndexType
  <2>4. FirstOK'
    BY <1>2, <2>1, <2>2, <2>3 DEF FirstOK
  <2>5. Told => Told'
    BY <1>1, <1>2, <2>1 DEF Told
  <2>6. needToRestartConsumer =>
          recvdFilesNumber' >= FtdsStart /\ recvdFilesNumber' # FtdsStart
    BY <1>1, <1>2, <2>1 DEF PlayerOK
  <2>7. PlayerOK'
    BY <1>6, <2>5, <2>6 DEF PlayerOK
  <2> QED BY <2>4, <2>7
<1>8. CASE ~LastOfFile(n)
  <2>1. UNCHANGED <<recvdFilesNumber, fileIndex, receiver>>
    BY <1>8 DEF Write
  <2>2. IndexOf(n + 1) = IndexOf(n) /\ (Ended' <=> Ended)
    BY <1>8, <2>1, NextInFile DEF Ended
  <2>3. FirstOK'
    BY <1>2, <1>3, <1>4, <1>5, <2>1, <2>2 DEF FirstOK
  <2>4. Told => Told'
    BY <2>1, <2>2 DEF Told
  <2>5. PlayerOK'
    BY <1>6, <2>1, <2>2, <2>4 DEF PlayerOK
  <2> QED BY <2>3, <2>5
<1> QED BY <1>7, <1>8

LEMMA PlayerRecv ==
  ASSUME RelayAssumption, Types, ReceiverOK, FirstOK, PlayerOK,
         RecvNext \/ \E n \in 1..MaxSeq : RecvFirst(n)
  PROVE  FirstOK' /\ PlayerOK'
<1>1. MaxSeq \in Nat
  BY Parameters
<1>2. CASE RecvNext
  <2>1. /\ receiver = "recv" /\ nextPduSeq \in Nat \ {0}
        /\ Write(lastTsUID, nextPduSeq, firstPacketSeqNum, openFrom, recvdFilesNumber)
        /\ UNCHANGED <<needToRestartConsumer, player, playIndex, played>>
    BY <1>1, <1>2 DEF RecvNext, Receiving, playerVars
  <2> QED BY <2>1, PlayerWrite
<1>3. ASSUME NEW n \in 1..MaxSeq, RecvFirst(n) PROVE FirstOK' /\ PlayerOK'
  <2>1. nextPduSeq = 0 /\ fileIndex = 0 /\ receiver = "recv"
    BY <1>3 DEF RecvFirst, Receiving, ReceiverOK
  <2>2. recvdFilesNumber = 0
    BY <2>1 DEF FirstOK, Ended
  <2>3. PICK ts : ts = IF lastTsUID = 0 THEN 1 ELSE lastTsUID
    OBVIOUS
  <2>4. /\ n \in Nat \ {0}
        /\ Write(ts, n, n, n, recvdFilesNumber)
        /\ UNCHANGED <<needToRestartConsumer, player, playIndex, played>>
    BY <1>1, <1>3, <2>2, <2>3 DEF RecvFirst, playerVars
  <2> QED BY <2>1, <2>4, PlayerWrite
<1> QED BY <1>2, <1>3

\* and tells it once, of the file of number FtdsStart.
LEMMA PlayerReceiver ==
  ASSUME RelayAssumption, Types, FirstOK, PlayerOK, Receiver PROVE FirstOK' /\ PlayerOK'
<1>1. FtdsStart \in Nat \ {0} /\ recvdFilesNumber \in Nat
      /\ needToRestartConsumer \in BOOLEAN
  BY ToldParameters
<1>2. UNCHANGED <<nextPduSeq, firstPacketSeqNum, player, playIndex, played>>
      /\ receiver' # "finish"
  BY DEF Receiver, FlagConsumer, FlagSupplier, startOneSupplier, SaveFile, ReceiverEnds,
         ReceiverGone, playerVars
<1>3. First' = First /\ IndexOf(nextPduSeq)' = IndexOf(nextPduSeq)
  BY <1>2 DEF First, IndexOf
<1>4. CASE ReceiverEnds \/ ReceiverGone
  <2>1. Ended' /\ UNCHANGED needToRestartConsumer /\ fileIndex' \in {0, fileIndex}
    BY <1>4 DEF ReceiverEnds, ReceiverGone, Ended
  <2> QED BY <1>2, <1>3, <2>1 DEF FirstOK, PlayerOK, Told
<1>5. CASE UNCHANGED needToRestartConsumer /\ ~ReceiverEnds /\ ~ReceiverGone
  <2>1. UNCHANGED <<recvdFilesNumber, fileIndex>> /\ ~Ended /\ ~Ended'
    BY <1>5 DEF Receiver, FlagConsumer, FlagSupplier, startOneSupplier, SaveFile, Ended
  <2> QED BY <1>2, <1>3, <1>5, <2>1 DEF FirstOK, PlayerOK, Told
<1>6. CASE FlagConsumer
  <2>1. receiver = "finish" /\ UNCHANGED <<recvdFilesNumber, fileIndex>>
        /\ needToRestartConsumer' =
             (needToRestartConsumer \/ recvdFilesNumber = FtdsStart)
    BY <1>6 DEF FlagConsumer
  <2>2. ~Ended /\ ~Ended'
    BY <1>6 DEF FlagConsumer, Ended
  <2>3. needToRestartConsumer' => recvdFilesNumber >= FtdsStart
    BY <1>1, <2>1, <2>2 DEF PlayerOK
  <2>4. Told => Told'
    BY <1>2, <2>1, <2>2 DEF Told
  <2>5. FirstOK'
    BY <1>2, <1>3, <2>1, <2>2 DEF FirstOK
  <2> QED BY <1>2, <1>3, <2>1, <2>3, <2>4, <2>5 DEF PlayerOK
<1> QED BY <1>4, <1>5, <1>6 DEF Receiver, FlagSupplier, startOneSupplier, SaveFile

\* The player's own steps.
LEMMA PlayerPlays ==
  ASSUME RelayAssumption, Types, FirstOK, PlayerOK, Player PROVE FirstOK' /\ PlayerOK'
<1>1. FtdsStart \in Nat \ {0} /\ recvdFilesNumber \in Nat
      /\ needToRestartConsumer \in BOOLEAN
  BY ToldParameters
<1>9. UNCHANGED <<nextPduSeq, firstPacketSeqNum, recvdFilesNumber, fileIndex, receiver>>
  BY DEF Player, PlayWait, PlayOpen, Play, PlayCheck, PlayAgain, PlayFind, othersOfPlayer,
         receiverVars
<1>2. /\ UNCHANGED <<recvdFilesNumber, fileIndex, receiver>>
      /\ First' = First /\ (Ended' <=> Ended)
      /\ IndexOf(nextPduSeq)' = IndexOf(nextPduSeq)
  BY <1>9 DEF First, IndexOf, Ended
<1>10. FirstOK'
  BY <1>2, <1>9 DEF FirstOK
<1> SUFFICES PlayerOK'
  BY <1>10
<1>3. CASE PlayWait
  BY <1>2, <1>3 DEF PlayWait, PlayerOK
<1>4. CASE PlayOpen
  BY <1>2, <1>4 DEF PlayOpen, PlayerOK
<1>5. CASE Play
  BY <1>2, <1>5 DEF Play, PlayerOK
<1>6. CASE PlayCheck
  <2>1. needToRestartConsumer' = FALSE /\ UNCHANGED <<playIndex, played>> /\ player = "check"
    BY <1>6 DEF PlayCheck
  <2>2. CASE needToRestartConsumer
    <3>1. player' = "loop"
      BY <1>6, <2>2, Zenon DEF PlayCheck
    <3>2. Told'
      BY <1>2, <2>1, <2>2 DEF PlayerOK, Told
    <3> QED BY <1>2, <2>1, <3>1, <3>2 DEF PlayerOK
  <2>3. CASE ~needToRestartConsumer
    <3>1. player' = "find"
      BY <1>6, <2>3, Zenon DEF PlayCheck
    <3>2. Told => Told'
      BY <1>2, <2>1 DEF Told
    <3> QED BY <1>2, <2>1, <3>1, <3>2 DEF PlayerOK
  <2> QED BY <2>2, <2>3
<1>7. CASE PlayAgain
  <2>1. UNCHANGED needToRestartConsumer /\ player = "loop" /\ player' = "find"
        /\ playIndex' = fileIndex
    BY <1>7 DEF PlayAgain
  <2>2. Told'
    BY <1>2, <2>1 DEF PlayerOK, Told
  <2>3. playIndex' \in {0, First}
    BY <2>1 DEF FirstOK
  <2> QED BY <1>2, <2>1, <2>2, <2>3 DEF PlayerOK
<1>8. CASE PlayFind
  <2>1. UNCHANGED <<needToRestartConsumer, playIndex>> /\ player = "find"
    BY <1>8 DEF PlayFind
  <2>2. Told' <=> Told
    BY <1>2, <2>1 DEF Told
  <2>3. CASE player' = "play" /\ \E f \in files : f.index = playIndex /\ played' = f
    BY <1>2, <2>1, <2>2, <2>3 DEF PlayerOK
  <2>4. CASE player' \in {"check", "gone"} /\ UNCHANGED played
    BY <1>2, <2>1, <2>2, <2>4 DEF PlayerOK
  <2> QED BY <1>8, <2>3, <2>4 DEF PlayFind
<1> QED BY <1>3, <1>4, <1>5, <1>6, <1>7, <1>8 DEF Player

LEMMA InitPInv == ASSUME Init PROVE PInv
BY DEF Init, PInv, FirstOK, PlayerOK

\* The timer's last steps, when the receive thread has ended.
LEMMA PlayerTimer ==
  ASSUME Over, FirstOK, PlayerOK, RestartQuery \/ DoYouHave PROVE FirstOK' /\ PlayerOK'
<1>1. UNCHANGED <<nextPduSeq, firstPacketSeqNum, recvdFilesNumber, receiver,
                  needToRestartConsumer, player, playIndex, played>>
      /\ fileIndex' \in {0, fileIndex}
  BY DEF RestartQuery, DoYouHave, receiverVars, playerVars
<1>2. First' = First /\ Ended /\ Ended'
  BY <1>1 DEF First, IndexOf, Over, Ended
<1> QED BY <1>1, <1>2 DEF FirstOK, PlayerOK, Told

LEMMA NextPInv ==
  ASSUME RelayAssumption, Types, IInv, PInv, [Next]_vars PROVE PInv'
<1> SUFFICES ASSUME restarts' = 0 PROVE FirstOK' /\ PlayerOK'
  BY DEF PInv
<1>1. CASE UNCHANGED vars
  <2>1. UNCHANGED <<restarts, nextPduSeq, firstPacketSeqNum, recvdFilesNumber, fileIndex,
                    receiver, needToRestartConsumer, player, playIndex, played>>
    BY <1>1 DEF vars, receiverVars, playerVars
  <2> QED BY <2>1, PlayerUntouched DEF PInv
<1>2. CASE Next
  <2>1. restarts \in Nat
    BY DEF IInv
  <2>2. restarts' # restarts + 1
    BY <2>1
  <2>3. restarts = 0
    BY <1>2, <2>2, RestartsStep
  <2>4. FirstOK /\ PlayerOK /\ (OneStream \/ Over)
    BY <2>3 DEF PInv, IInv
  <2>5. CASE Supplier \/ (\E e \in 0..MaxSeq : updateSupplierTask(e)) \/ ResendEnds
             \/ ReleaseSupplier \/ Release
    <3>1. UNCHANGED <<receiverVars, fileIndex, needToRestartConsumer, player, playIndex,
                      played>>
      BY <2>5 DEF Supplier, OpenFirst, Number, Increment, Send, Keep, CheckFlag, Copy, Find,
                  EndOfSupplier, updateSupplierTask, ResendEnds, ReleaseSupplier, Release,
                  ReleaseErase, ReleaseConsumer, ReleaseDone, othersOfRelease, playerVars
    <3> QED BY <2>4, <3>1, PlayerUntouched DEF receiverVars
  <2>6. CASE RestartQuery \/ DoYouHave
    <3>1. link # "started"
      BY <2>6 DEF RestartQuery, DoYouHave
    <3>2. Over
      BY <2>4, <3>1 DEF OneStream, ReceiverOK
    <3> QED BY <2>4, <2>6, <3>2, PlayerTimer
  <2>7. CASE RecvNext \/ \E n \in 1..MaxSeq : RecvFirst(n)
    <3>1. receiver = "recv"
      BY <2>7 DEF RecvNext, RecvFirst, Receiving
    <3>2. ReceiverOK
      BY <2>4, <3>1 DEF OneStream, Over, Ended
    <3> QED BY <2>4, <2>7, <3>2, PlayerRecv
  <2>8. CASE Receiver \/ Player
    BY <2>4, <2>8, PlayerReceiver, PlayerPlays
  <2>9. ~RestartClear /\ \A ts \in Stream, n \in 1..MaxSeq : ~ChangeTs(ts, n)
    BY <2>2 DEF RestartClear, ChangeTs
  <2> QED BY <1>2, <2>5, <2>6, <2>7, <2>8, <2>9 DEF Next
<1> QED BY <1>1, <1>2 DEF vars

\* Only the player's two ways to open a file change what it played last.
LEMMA PlayedStep ==
  ASSUME [Next]_vars, played' # played PROVE PlayOpen \/ PlayFind
<1>1. played' = played \/ Player
  BY DEF vars, playerVars, Next, RecvNext, RecvFirst, ChangeTs, Receiver, FlagConsumer,
         FlagSupplier, startOneSupplier, SaveFile, ReceiverEnds, ReceiverGone, RestartClear,
         RestartQuery, DoYouHave, Supplier, OpenFirst, Number, Increment, Send, Keep, CheckFlag,
         Copy, Find, EndOfSupplier, updateSupplierTask, ResendEnds, ReleaseSupplier, Release,
         ReleaseErase, ReleaseConsumer, ReleaseDone, othersOfRelease
<1> QED BY <1>1 DEF Player, PlayWait, Play, PlayCheck, PlayAgain

\* Until the stream is restarted the player skips no file, and goes back only when it
\* was told and will not be told again.
THEOREM PlayerCorrect == Spec => PlayerInOrder
<1> DEFINE All == Types /\ IInv /\ PInv
<1>1. Init => All
  BY InitTypes, InitIInv, InitPInv
<1>2. All /\ [Next]_vars => All'
  BY RelayAssumption, NextTypes, NextIInv, NextPInv
<1>3. ASSUME All, [Next]_vars, restarts = 0, played' # played, played # NoFile
      PROVE  \/ played'.index = played.index + 1
             \/ /\ played'.index = IndexOf(firstPacketSeqNum)
                /\ ~needToRestartConsumer
                /\ receiver = "finish" => recvdFilesNumber # FtdsStart
  <2>1. PlayerOK
    BY <1>3 DEF PInv
  <2>2. PlayOpen \/ PlayFind
    BY <1>3, PlayedStep
  <2>3. PlayFind /\ player = "find"
    BY <1>3, <2>1, <2>2 DEF PlayOpen, PlayFind, PlayerOK
  <2>4. played'.index = playIndex /\ played'.index # 0
    BY <1>3, <2>3 DEF PlayFind, Types, DiskTypes, File
  <2> QED BY <2>1, <2>3, <2>4 DEF PlayerOK, Told, First
<1> HIDE DEF All
<1> QED BY <1>1, <1>2, <1>3, PTL DEF PlayerInOrder, Spec

-----------------------------------------------------------------------------
(* The disk, whatever is restarted.                                        *)

\* A file written is the one being finished, and every other one is queued.
LEMMA DiskWrite ==
  ASSUME Types, DiskQueued, receiver = "recv",
         NEW ts, NEW n \in Nat \ {0}, NEW first, NEW from, NEW recvd,
         Write(ts, n, first, from, recvd), UNCHANGED savedFile
  PROVE  DiskQueued'
<1>1. \A f \in files : \E i \in DOMAIN savedFile : savedFile[i] = NameOf(f)
  BY DEF DiskQueued
<1>2. Len(savedFile) <= MaxSaved
  BY DEF DiskQueued
<1>3. CASE LastOfFile(n)
  <2> DEFINE new == [ts |-> ts, index |-> IndexOf(n), from |-> from]
  <2>1. files' \subseteq files \union {new} /\ receiver' = "finish"
    BY <1>3 DEF Write, Without
  <2>2. Finished' = [ts |-> ts, index |-> IndexOf(n)]
    <3>1. lastTsUID' = ts /\ nextPduSeq' = n + 1
      BY DEF Write
    <3>2. nextPduSeq' - 1 = n
      BY <3>1
    <3> QED BY <3>1, <3>2 DEF Finished, IndexOf
  <2>3. NameOf(new) = Finished'
    BY <2>2 DEF NameOf
  <2> HIDE DEF new
  <2> QED BY <1>1, <1>2, <2>1, <2>3 DEF DiskQueued, NameOf
<1>4. CASE ~LastOfFile(n)
  <2>1. UNCHANGED <<files, receiver>>
    BY <1>4 DEF Write
  <2> QED BY <1>1, <1>2, <2>1 DEF DiskQueued, NameOf
<1> QED BY <1>3, <1>4

\* The file is queued; one removed is on disk no more.
LEMMA DiskSave ==
  ASSUME RelayAssumption, Types, DiskQueued, SaveFile PROVE DiskQueued'
<1> DEFINE all == Append(savedFile, Finished)
<1>1. savedFile \in Seq(Name) /\ MaxSaved \in Nat \ {0} /\ Len(savedFile) \in Nat
      /\ Finished \in Name
  <2>1. savedFile \in Seq(Name) /\ lastTsUID \in Stream
    BY DEF Types, DiskTypes, ReceiverTypes, SaveFile
  <2>2. PICK n \in Nat \ {0} : n = nextPduSeq - 1
    BY DEF Types, ReceiverTypes, SaveFile
  <2>3. Finished \in Name
    BY <2>1, <2>2, IndexType DEF Finished, Name
  <2> QED BY <2>1, <2>3, LenProperties DEF RelayAssumption
<1>2. /\ all \in Seq(Name) /\ Len(all) = Len(savedFile) + 1
      /\ \A i \in 1..Len(savedFile) : all[i] = savedFile[i]
      /\ all[Len(savedFile) + 1] = Finished
  BY <1>1, AppendProperties
<1>3. \A f \in files : \E i \in 1..Len(all) : all[i] = NameOf(f)
  <2> SUFFICES ASSUME NEW f \in files PROVE \E i \in 1..Len(all) : all[i] = NameOf(f)
    OBVIOUS
  <2>1. (\E i \in DOMAIN savedFile : savedFile[i] = NameOf(f)) \/ NameOf(f) = Finished
    BY DEF DiskQueued, SaveFile
  <2>2. DOMAIN savedFile = 1..Len(savedFile)
    BY <1>1, LenProperties
  <2>3. 1..Len(savedFile) \subseteq 1..Len(all) /\ Len(savedFile) + 1 \in 1..Len(all)
    BY <1>1, <1>2
  <2> QED BY <1>2, <2>1, <2>2, <2>3
<1>4. receiver' = "recv" /\ Len(savedFile) <= MaxSaved
  BY DEF SaveFile, DiskQueued
<1>5. CASE Len(all) > MaxSaved
  <2>1. savedFile' = Tail(all) /\ files' = Without(Head(all))
    BY <1>5 DEF SaveFile
  <2>2. all # <<>>
    BY <1>1, <1>2
  <2> HIDE DEF all
  <2>3. /\ Tail(all) \in Seq(Name) /\ Len(Tail(all)) = Len(all) - 1 /\ Head(all) = all[1]
        /\ \A i \in 1..Len(Tail(all)) : Tail(all)[i] = all[i + 1]
    BY <1>2, <2>2, HeadTailProperties
  <2>4. DOMAIN savedFile' = 1..Len(savedFile) /\ Len(savedFile') = Len(savedFile)
    <3>1. Len(Tail(all)) = Len(savedFile)
      BY <1>1, <1>2, <2>3
    <3> QED BY <2>1, <2>3, <3>1, LenProperties
  <2>5. ASSUME NEW f \in files' PROVE \E i \in DOMAIN savedFile' : savedFile'[i] = NameOf(f)
    <3>1. f \in files /\ NameOf(f) # all[1]
      BY <2>1, <2>3 DEF Without
    <3>2. PICK i \in 1..Len(all) : all[i] = NameOf(f) /\ i # 1
      BY <1>3, <3>1
    <3>3. PICK j \in 1..Len(savedFile) : j + 1 = i
      BY <1>1, <1>2, <3>2
    <3> QED BY <2>1, <2>3, <2>4, <3>2, <3>3
  <2> QED BY <1>4, <2>4, <2>5 DEF DiskQueued, NameOf
<1>6. CASE ~(Len(all) > MaxSaved)
  <2>1. savedFile' = all /\ files' = files
    BY <1>6 DEF SaveFile
  <2> HIDE DEF all
  <2>2. Len(all) <= MaxSaved /\ DOMAIN all = 1..Len(all)
    BY <1>1, <1>2, <1>6, LenProperties
  <2> QED BY <1>3, <1>4, <2>1, <2>2 DEF DiskQueued, NameOf
<1> QED BY <1>5, <1>6

\* Every step keeps it.
LEMMA DiskStep ==
  ASSUME RelayAssumption, Types, DiskQueued, [Next]_vars PROVE DiskQueued'
<1>1. MaxSeq \in Nat
  BY Parameters
<1>2. CASE RecvNext
  <2>1. receiver = "recv" /\ nextPduSeq \in Nat \ {0} /\ UNCHANGED savedFile
        /\ Write(lastTsUID, nextPduSeq, firstPacketSeqNum, openFrom, recvdFilesNumber)
    BY <1>1, <1>2 DEF RecvNext, Receiving
  <2> QED BY <2>1, DiskWrite
<1>3. ASSUME NEW n \in 1..MaxSeq, RecvFirst(n) PROVE DiskQueued'
  <2>1. receiver = "recv" /\ n \in Nat \ {0} /\ UNCHANGED savedFile
    BY <1>1, <1>3 DEF RecvFirst, Receiving
  <2>2. PICK ts : Write(ts, n, n, n, 0)
    BY <1>3 DEF RecvFirst
  <2> QED BY <2>1, <2>2, DiskWrite
<1>4. ASSUME NEW ts \in Stream, NEW n \in 1..MaxSeq, ChangeTs(ts, n) PROVE DiskQueued'
  <2>1. receiver = "recv" /\ n \in Nat \ {0} /\ UNCHANGED savedFile
    BY <1>1, <1>4 DEF ChangeTs, Receiving
  <2>2. CASE link = "query"
    BY <1>4, <2>1, <2>2 DEF ChangeTs, DiskQueued, NameOf
  <2>3. CASE link # "query"
    <3>1. Write(ts, n, n, n, 0)
      BY <1>4, <2>3 DEF ChangeTs
    <3> QED BY <2>1, <3>1, DiskWrite
  <2> QED BY <2>2, <2>3
<1>5. CASE RestartClear
  BY <1>5 DEF RestartClear, diskVars, DiskQueued, NameOf
<1>6. CASE SaveFile
  BY <1>6, DiskSave
<1>7. CASE ReceiverEnds \/ ReceiverGone
  BY <1>7 DEF ReceiverEnds, ReceiverGone, DiskQueued
<1>8. CASE /\ UNCHANGED <<files, savedFile, lastTsUID, nextPduSeq>>
           /\ \/ UNCHANGED receiver
              \/ receiver \notin {"recv", "end", "gone"} /\ receiver' # "recv"
  <2>1. Finished' = Finished
    BY <1>8 DEF Finished, IndexOf
  <2> QED BY <1>8, <2>1 DEF DiskQueued, NameOf
<1>9. CASE FlagConsumer \/ FlagSupplier \/ startOneSupplier
  BY <1>8, <1>9 DEF FlagConsumer, FlagSupplier, startOneSupplier, diskVars
<1>10. CASE RestartQuery \/ DoYouHave \/ Supplier
            \/ (\E e \in 0..MaxSeq : updateSupplierTask(e)) \/ ResendEnds \/ Player
            \/ ReleaseSupplier \/ ReleaseErase \/ ReleaseConsumer \/ UNCHANGED vars
  <2>1. UNCHANGED <<receiverVars, diskVars>>
    BY <1>10 DEF RestartQuery, DoYouHave, Supplier, OpenFirst, Number, Increment, Send, Keep,
                 CheckFlag, Copy, Find, EndOfSupplier, updateSupplierTask, ResendEnds, Player,
                 PlayWait, PlayOpen, Play, PlayCheck, PlayAgain, PlayFind, othersOfPlayer,
                 ReleaseSupplier, ReleaseErase, ReleaseConsumer, othersOfRelease, vars, diskVars
  <2> QED BY <1>8, <2>1 DEF receiverVars, diskVars
<1>11. CASE ReleaseDone
  BY <1>11 DEF ReleaseDone, othersOfRelease, receiverVars, DiskQueued
<1> QED BY <1>2, <1>3, <1>4, <1>5, <1>6, <1>7, <1>9, <1>10, <1>11 DEF Next, Receiver, Release

\* For any number of restarts, and of files kept, no file is left on disk that nothing
\* will remove.
THEOREM DiskCorrect == Spec => []DiskQueued
<1>1. Init => DiskQueued
  <2> SUFFICES ASSUME Init PROVE DiskQueued
    OBVIOUS
  <2>1. files = {} /\ Len(savedFile) = 0 /\ MaxSaved \in Nat
    BY RelayAssumption, EmptySeq DEF Init, RelayAssumption
  <2> QED BY <2>1 DEF DiskQueued
<1>2. Types /\ DiskQueued /\ [Next]_vars => DiskQueued'
  BY RelayAssumption, DiskStep
<1> QED BY <1>1, <1>2, TypesHold, PTL DEF Spec
-----------------------------------------------------------------------------
(* No two files have the same name, so the names that are queued bound the *)
(* files on disk.                                                          *)

UniqueNames == \A f, g \in files : NameOf(f) = NameOf(g) => f = g

\* Files are only written and removed by name.
LEMMA FilesStep ==
  ASSUME [Next]_vars
  PROVE  \/ UNCHANGED files
         \/ \E name : files' = Without(name)
         \/ \E f : files' = Without(NameOf(f)) \union {f}
         \/ files' = {}
<1>1. ASSUME NEW ts, NEW n, NEW first, NEW from, NEW recvd, Write(ts, n, first, from, recvd)
      PROVE  UNCHANGED files \/ \E f : files' = Without(NameOf(f)) \union {f}
  <2>1. CASE LastOfFile(n)
    <3> DEFINE f == [ts |-> ts, index |-> IndexOf(n), from |-> from]
    <3>1. NameOf(f) = [ts |-> ts, index |-> IndexOf(n)]
      BY DEF NameOf
    <3>2. files' = Without(NameOf(f)) \union {f}
      BY <1>1, <2>1, <3>1 DEF Write
    <3> QED BY <3>2
  <2>2. CASE ~LastOfFile(n)
    BY <1>1, <2>2 DEF Write
  <2> QED BY <2>1, <2>2
<1>2. CASE RecvNext
  BY <1>1, <1>2 DEF RecvNext
<1>3. ASSUME NEW n \in 1..MaxSeq, RecvFirst(n)
      PROVE  UNCHANGED files \/ \E f : files' = Without(NameOf(f)) \union {f}
  <2>1. PICK ts : Write(ts, n, n, n, 0)
    BY <1>3 DEF RecvFirst
  <2> QED BY <1>1, <2>1
<1>4. ASSUME NEW ts \in Stream, NEW n \in 1..MaxSeq, ChangeTs(ts, n)
      PROVE  UNCHANGED files \/ \E f : files' = Without(NameOf(f)) \union {f}
  BY <1>1, <1>4, Zenon DEF ChangeTs
<1>5. CASE SaveFile
  BY <1>5 DEF SaveFile
<1>6. CASE \/ RestartClear \/ RestartQuery \/ DoYouHave
           \/ FlagConsumer \/ FlagSupplier \/ startOneSupplier \/ ReceiverEnds \/ ReceiverGone
           \/ Supplier \/ (\E e \in 0..MaxSeq : updateSupplierTask(e)) \/ ResendEnds
           \/ Player \/ ReleaseSupplier \/ Release \/ UNCHANGED vars
  BY <1>6 DEF RestartClear, RestartQuery, DoYouHave, FlagConsumer, FlagSupplier,
              startOneSupplier, ReceiverEnds, ReceiverGone, Supplier, OpenFirst, Number,
              Increment, Send, Keep, CheckFlag, Copy, Find, EndOfSupplier, updateSupplierTask,
              ResendEnds, Player, PlayWait, PlayOpen, Play, PlayCheck, PlayAgain, PlayFind,
              othersOfPlayer, ReleaseSupplier, Release, ReleaseErase, ReleaseConsumer,
              ReleaseDone, vars, diskVars
<1> QED BY <1>2, <1>3, <1>4, <1>5, <1>6 DEF Next, Receiver

LEMMA UniqueNamesStep ==
  ASSUME UniqueNames, [Next]_vars PROVE UniqueNames'
<1>1. CASE UNCHANGED files
  BY <1>1 DEF UniqueNames, NameOf
<1>2. ASSUME NEW name, files' = Without(name) PROVE UniqueNames'
  BY <1>2 DEF UniqueNames, Without, NameOf
<1>3. ASSUME NEW h, files' = Without(NameOf(h)) \union {h} PROVE UniqueNames'
  <2> SUFFICES ASSUME NEW f \in files', NEW g \in files', NameOf(f) = NameOf(g) PROVE f = g
    BY DEF UniqueNames, NameOf
  <2>1. f = h \/ (f \in files /\ NameOf(f) # NameOf(h))
    BY <1>3 DEF Without
  <2>2. g = h \/ (g \in files /\ NameOf(g) # NameOf(h))
    BY <1>3 DEF Without
  <2> QED BY <2>1, <2>2 DEF UniqueNames
<1>4. CASE files' = {}
  BY <1>4 DEF UniqueNames
<1> QED BY <1>1, <1>2, <1>3, <1>4, FilesStep

\* Every file has a place: in the queue, or 0 when it is the one being finished.
LEMMA QueueBoundsDisk ==
  ASSUME RelayAssumption, Types, DiskQueued, UniqueNames, ~Ended
  PROVE  IsFiniteSet(files) /\ Cardinality(files) <= MaxSaved + 1
<1>1. PICK l \in Nat : l = Len(savedFile) /\ l <= MaxSaved /\ DOMAIN savedFile = 1..l
  BY LenProperties DEF DiskQueued, Ended, Types, DiskTypes
<1> DEFINE Placed(f, i) == \/ i \in 1..l /\ savedFile[i] = NameOf(f)
                           \/ i = 0 /\ NameOf(f) = Finished
<1> DEFINE P == [f \in files |-> CHOOSE i \in 0..l : Placed(f, i)]
<1>2. \A f \in files : \E i \in 0..l : Placed(f, i)
  <2> SUFFICES ASSUME NEW f \in files PROVE \E i \in 0..l : Placed(f, i)
    OBVIOUS
  <2>1. (\E i \in 1..l : savedFile[i] = NameOf(f)) \/ NameOf(f) = Finished
    BY <1>1 DEF DiskQueued, Ended
  <2>2. 1..l \subseteq 0..l /\ 0 \in 0..l
    OBVIOUS
  <2> QED BY <2>1, <2>2
<1>3. \A f, g \in files, i \in 0..l : Placed(f, i) /\ Placed(g, i) => f = g
  <2> SUFFICES ASSUME NEW f \in files, NEW g \in files, NEW i \in 0..l,
                      Placed(f, i), Placed(g, i)
               PROVE  f = g
    OBVIOUS
  <2>1. 0 \notin 1..l
    OBVIOUS
  <2>2. NameOf(f) = NameOf(g)
    BY <2>1
  <2> QED BY <2>2 DEF UniqueNames
<1> HIDE DEF Placed
<1>4. \A f \in files : P[f] \in 0..l /\ Placed(f, P[f])
  BY <1>2
<1>5. P \in [files -> 0..l]
  BY <1>4
<1> HIDE DEF P
<1>6. \A f, g \in files : P[f] = P[g] => f = g
  BY <1>3, <1>4
<1>7. P \in Injection(files, 0..l)
  BY <1>5, <1>6 DEF Injection, IsInjective
<1>8. IsFiniteSet(0..l) /\ Cardinality(0..l) = l + 1
  <2>1. 0 \in Int /\ l \in Int /\ ~(0 > l)
    OBVIOUS
  <2>2. Cardinality(0..l) = l - 0 + 1
    BY <2>1, FS_Interval
  <2>3. IsFiniteSet(0..l)
    BY <2>1, FS_Interval
  <2> QED BY <2>2, <2>3
<1>9. IsFiniteSet(files) /\ Cardinality(files) <= Cardinality(0..l)
  BY <1>7, <1>8, FS_Injection
<1>10. Cardinality(files) \in Nat /\ MaxSaved \in Nat
  BY <1>9, FS_CardinalityType DEF RelayAssumption
<1> QED BY <1>1, <1>8, <1>9, <1>10

\* The node keeps one file more on disk than MAX_FILE_SAVED says, and never two more.
THEOREM DiskBounded ==
  Spec => [](~Ended => IsFiniteSet(files) /\ Cardinality(files) <= MaxSaved + 1)
<1>1. Init => UniqueNames
  BY DEF Init, UniqueNames
<1>2. UniqueNames /\ [Next]_vars => UniqueNames'
  BY UniqueNamesStep
<1>3. Types /\ DiskQueued /\ UniqueNames =>
        (~Ended => IsFiniteSet(files) /\ Cardinality(files) <= MaxSaved + 1)
  BY RelayAssumption, QueueBoundsDisk
<1> QED BY <1>1, <1>2, <1>3, TypesHold, DiskCorrect, PTL DEF Spec
===============================================================================
