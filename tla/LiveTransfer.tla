---------------------------- MODULE LiveTransfer ----------------------------
(***************************************************************************)
(* The transfer of one live channel from its supplier nodes to one         *)
(* consumer node, over UDP: the supplier thread numbers, sends and keeps   *)
(* the packets, the consumer thread puts them back in order and writes     *)
(* them, the consumer's resend thread asks for the missing ones, the       *)
(* supplier's resend thread answers, and the 100 ms timer (checkConsumer)  *)
(* restarts a consumer that starves or falls behind.                       *)
(*                                                                         *)
(* A supplier of this module is a "super TS" node (initSuperTsSupplierTask)*)
(* whose tsUID is its own UID.  A node keeps its address when its process  *)
(* is started again, but every process draws a new UID: PLEASE_START_TRANS *)
(* and NEXT_TRANS, sent to the address, reach whatever process runs there, *)
(* and what that answers is not from the supplier the consumer has chosen. *)
(* The locks of the code (lockConsumerArrivedDeque on the consumer,        *)
(* lockSentBufQue on a supplier) make each action one critical section.    *)
(***************************************************************************)
EXTENDS Naturals, Sequences, FiniteSets, SequencesExt

CONSTANTS
  Supplier,      \* addresses of the nodes that supply the channel
  NoSupplier,    \* supplierUID = 0, lastTsUID = 0
  NULL,          \* an empty slot of arrivedBufDeque
  SentLimit,     \* RESTART_CHANNEL_CONDITION_2: packets a supplier keeps
  BufLimit,      \* RESTART_CHANNEL_CONDITION_2 * NEED_TO_RESTART_PERCENT
  MaxPairs,      \* MAX_RESEND_PAIR_NUMBER
  MaxResend,     \* MAX_RESEND_PACKET_NUMBER
  MaxSeq,        \* bound: packets a supplier sends in one life
  MaxLife,       \* bound: lives (process starts) of one supplier
  MaxData,       \* bound: TRANS_DATA datagrams in flight
  MaxRequests    \* bound: NEXT_TRANS requests in flight, and queued

\* The UIDs, and so tsUIDs, of the processes of a node: no two are the same.
UIDs == Supplier \X (Nat \ {0})

\* Its body is where the content is in the channel its process sends.
Packet == [ts : UIDs, seq : Nat \ {0}, body : Nat]

ASSUME ConstantsAssumption ==
  /\ NoSupplier \notin UIDs
  /\ NULL \notin Packet
  /\ {SentLimit, BufLimit, MaxPairs, MaxResend} \subseteq Nat \ {0}
  /\ {MaxSeq, MaxLife, MaxData, MaxRequests} \subseteq Nat

VARIABLES
  seqNum,        \* per supplier: number of the next packet
  life,          \* per supplier: which start of the process this is
  sentBufQue,    \* per supplier: the packets kept for resending
  entry,         \* per supplier: the consumer's consumerDeque entry has UID > 0
  nextTrans,     \* per supplier: NEXT_TRANS requests queued on that entry
  todo,          \* per supplier: ranges the resend thread is working on
  data,          \* TRANS_DATA datagrams in flight
  requests,      \* NEXT_TRANS datagrams in flight
  control,       \* PLEASE_START_TRANS and START_TRANS datagrams in flight
  Status,        \* the consumer task's status
  supplierUID,   \* the supplier the consumer task has chosen
  tsUID,         \* pInfo->tsUID, quoted in NEXT_TRANS
  lastTsUID,     \* the receive thread's lastTsUID
  nextPduSeq,    \* the number the file needs next; 0: no packet yet
  arrivedBufDeque, \* packets from nextPduSeq on, NULL where one is missing
  written,       \* the packets written since the file was last truncated
  restart        \* how far checkConsumer is in a restart

supplierVars == <<seqNum, life, sentBufQue, entry, nextTrans, todo>>
networkVars  == <<data, requests, control>>
sessionVars  == <<Status, supplierUID, restart>>
streamVars   == <<tsUID, lastTsUID, nextPduSeq, arrivedBufDeque, written>>
vars == <<supplierVars, networkVars, sessionVars, streamVars>>

Statuses == {"ctsTrackerQuery", "ctsNotStarted", "ctsQueryFinished", "ctsStarted"}

\* To an address, and from a process.
Control == ({"PLEASE_START_TRANS"} \X Supplier) \union ({"START_TRANS"} \X UIDs)

\* globalConfig.UID of the process that runs on node s.
UID(s) == <<s, life[s]>>

\* The node at the address of process u.
NodeOf(u) == u[1]

Init ==
  /\ seqNum = [s \in Supplier |-> 1]
  /\ life = [s \in Supplier |-> 1]
  /\ sentBufQue = [s \in Supplier |-> <<>>]
  /\ entry = [s \in Supplier |-> FALSE]
  /\ nextTrans = [s \in Supplier |-> <<>>]
  /\ todo = [s \in Supplier |-> <<>>]
  /\ data = {}
  /\ requests = {}
  /\ control = {}
  /\ Status = "ctsTrackerQuery"
  /\ supplierUID = NoSupplier
  /\ tsUID = NoSupplier
  /\ lastTsUID = NoSupplier
  /\ nextPduSeq = 0
  /\ arrivedBufDeque = <<>>
  /\ written = <<>>
  /\ restart = "idle"

-----------------------------------------------------------------------------
(* The supplier node.                                                      *)

\* Mutant of Keep: the newest packet goes instead of the oldest.
KeepOldest(que, packet) ==
  IF Len(que) = SentLimit THEN que ELSE Append(que, packet)

\* sentBufQue after push_back, and pop_front when it is too long.
Keep(que, packet) ==
  IF Len(Append(que, packet)) > SentLimit THEN Tail(Append(que, packet))
                                          ELSE Append(que, packet)

\* supplierTaskThreadProc_CDN sends the next packet of the channel to the
\* consumer, if the consumer has a live entry, keeps it and drops the oldest.
SupplierSend(s) ==
  LET packet == [ts |-> UID(s), seq |-> seqNum[s], body |-> seqNum[s]]
  IN
  /\ seqNum[s] <= MaxSeq
  /\ entry[s] => Cardinality(data) < MaxData
  /\ seqNum' = [seqNum EXCEPT ![s] = @ + 1]
  /\ data' = IF entry[s] THEN data \union {packet} ELSE data
  /\ sentBufQue' = [sentBufQue EXCEPT ![s] = Keep(@, packet)]
  /\ UNCHANGED <<life, entry, nextTrans, todo, requests, control,
                 sessionVars, streamVars>>

\* NEXT_TRANS: ignored for another TS or without a live entry.
RecvNextTrans(s, r) ==
  /\ r \in requests
  /\ r.to = s
  /\ Len(nextTrans[s]) < MaxRequests
  /\ requests' = requests \ {r}
  /\ nextTrans' = IF r.ts = UID(s) /\ entry[s]
                    THEN [nextTrans EXCEPT ![s] = Append(@, r)]
                    ELSE nextTrans
  /\ UNCHANGED <<seqNum, life, sentBufQue, entry, todo, data, control,
                 sessionVars, streamVars>>

\* The resend thread takes the whole queue; with nothing kept it drops it.
ResendTake(s) ==
  /\ entry[s]
  /\ todo[s] = <<>>
  /\ nextTrans[s] # <<>>
  /\ todo' = [todo EXCEPT ![s] =
       IF sentBufQue[s] = <<>> THEN <<>>
       ELSE FlattenSeq([i \in DOMAIN nextTrans[s] |-> nextTrans[s][i].pairs])]
  /\ nextTrans' = [nextTrans EXCEPT ![s] = <<>>]
  /\ UNCHANGED <<seqNum, life, sentBufQue, entry, networkVars,
                 sessionVars, streamVars>>

\* The ranges left once the first number of the first one is done.
Advance(ranges) ==
  LET start == Head(ranges)[1]
      stop  == Head(ranges)[2]
  IN IF start = stop THEN Tail(ranges)
     ELSE <<<<start + 1, stop>>>> \o Tail(ranges)

\* Mutant of SlotOf: the slot of a ring that never dropped its oldest packet.
SlotInRing(que, i) == ((i - 1) % Len(que)) + 1

\* Where the resend thread looks for number i: i - sentBufQue.front()->seqNum.
SlotOf(que, i) == i - que[1].seq + 1

\* One turn of the resend loop: send number i from slot i - front, or give the
\* consumer up (its entry's UID becomes 0) when i is no longer, or not yet, kept.
ResendOne(s) ==
  LET i     == Head(todo[s])[1]
      front == sentBufQue[s][1].seq
      back  == Last(sentBufQue[s]).seq
  IN
  /\ entry[s]
  /\ todo[s] # <<>>
  /\ \/ /\ sentBufQue[s] # <<>>
        /\ i \in front..back
        /\ Cardinality(data) < MaxData
        /\ data' = data \union
             {[ts |-> UID(s), seq |-> i, body |-> sentBufQue[s][SlotOf(sentBufQue[s], i)].body]}
        /\ todo' = [todo EXCEPT ![s] = Advance(@)]
        /\ UNCHANGED <<entry, nextTrans>>
     \/ /\ sentBufQue[s] # <<>>
        /\ i \notin front..back
        /\ entry' = [entry EXCEPT ![s] = FALSE]
        /\ nextTrans' = [nextTrans EXCEPT ![s] = <<>>]
        /\ todo' = [todo EXCEPT ![s] = <<>>]
        /\ UNCHANGED data
  /\ UNCHANGED <<seqNum, life, sentBufQue, requests, control,
                 sessionVars, streamVars>>

\* No NEXT_TRANS for RESTART_CHANNEL_CONDITION_1/2 seconds: the resend thread
\* ends and the entry's UID becomes 0.  The one-per-second keep-alives of the
\* consumer can be lost, so only a request already at hand forbids it.
ResendTimeout(s) ==
  /\ entry[s]
  /\ todo[s] = <<>>
  /\ nextTrans[s] = <<>>
  /\ \A r \in requests : r.to # s
  /\ entry' = [entry EXCEPT ![s] = FALSE]
  /\ UNCHANGED <<seqNum, life, sentBufQue, nextTrans, todo, networkVars,
                 sessionVars, streamVars>>

\* The process dies and is started again: everything is in memory, tsLoadConfig
\* draws a new UID and initSuperTsSupplierTask starts the channel at number 1 with it.
SupplierCrash(s) ==
  /\ life[s] < MaxLife
  /\ life' = [life EXCEPT ![s] = @ + 1]
  /\ seqNum' = [seqNum EXCEPT ![s] = 1]
  /\ sentBufQue' = [sentBufQue EXCEPT ![s] = <<>>]
  /\ entry' = [entry EXCEPT ![s] = FALSE]
  /\ nextTrans' = [nextTrans EXCEPT ![s] = <<>>]
  /\ todo' = [todo EXCEPT ![s] = <<>>]
  /\ UNCHANGED <<networkVars, sessionVars, streamVars>>

\* PLEASE_START_TRANS: the consumer gets an entry and a resend thread, or keeps
\* those it has; START_TRANS answers.
RecvPleaseStartTrans(s) ==
  /\ <<"PLEASE_START_TRANS", s>> \in control
  /\ control' = (control \ {<<"PLEASE_START_TRANS", s>>})
                  \union {<<"START_TRANS", UID(s)>>}
  /\ entry' = [entry EXCEPT ![s] = TRUE]
  /\ UNCHANGED <<seqNum, life, sentBufQue, nextTrans, todo, data, requests,
                 sessionVars, streamVars>>

-----------------------------------------------------------------------------
(* The network: datagrams are lost here, reordered because the sets are    *)
(* unordered, and duplicated by RecvData, which may leave its packet.      *)

LoseData(p) ==
  /\ p \in data
  /\ data' = data \ {p}
  /\ UNCHANGED <<supplierVars, requests, control, sessionVars, streamVars>>

LoseRequest(r) ==
  /\ r \in requests
  /\ requests' = requests \ {r}
  /\ UNCHANGED <<supplierVars, data, control, sessionVars, streamVars>>

LoseControl(c) ==
  /\ c \in control
  /\ control' = control \ {c}
  /\ UNCHANGED <<supplierVars, data, requests, sessionVars, streamVars>>

-----------------------------------------------------------------------------
(* The consumer's receive thread.                                          *)

\* Mutant of NewTs: compares with the chosen supplier, not with the last packet.
NewTsBySupplier(p) == lastTsUID # NoSupplier /\ p.ts # supplierUID

\* Mutant of NewTs: the change is not noticed.
NewTsIgnored(p) == FALSE

\* The packet is of another TS than the last one was.
NewTs(p) == lastTsUID # NoSupplier /\ p.ts # lastTsUID

\* In order: a stored copy in the first slot gives way to the new packet.
PopHead(buf, p) ==
  IF buf = <<>> THEN buf
  ELSE IF buf[1] = NULL \/ buf[1].seq = p.seq THEN Tail(buf)
  ELSE buf

\* Ahead: slots up to the packet's, the packet in its own unless one is there.
FillSlot(buf, next, p) ==
  LET slot == p.seq - next + 1
      size == IF Len(buf) < slot THEN slot ELSE Len(buf)
  IN [i \in 1..size |->
        IF i <= Len(buf) /\ buf[i] # NULL THEN buf[i]
        ELSE IF i = slot THEN p ELSE NULL]

\* Mutant of Drain: everything goes to the file, holes too.
DrainAll(buf, next, file) ==
  /\ nextPduSeq' = next + Len(buf)
  /\ written' = file \o buf
  /\ arrivedBufDeque' = <<>>

\* The packets before the first empty slot go to the file.
Drain(buf, next, file) ==
  \E n \in 0..Len(buf) :
    /\ \A i \in 1..n : buf[i] # NULL
    /\ n < Len(buf) => buf[n + 1] = NULL
    /\ nextPduSeq' = next + n
    /\ written' = file \o SubSeq(buf, 1, n)
    /\ arrivedBufDeque' = SubSeq(buf, n + 1, Len(buf))

\* Mutant of Reorder: the last packet written is written again.
ReorderRepeats(p, buf, next, file) ==
  \/ p.seq = next /\ Drain(PopHead(buf, p), next + 1, Append(file, p))
  \/ p.seq > next /\ Drain(FillSlot(buf, next, p), next, file)
  \/ p.seq < next /\ Drain(buf, next, Append(file, p))

\* Mutant of Reorder: an old packet is taken for a new start of the channel.
ReorderStartsOver(p, buf, next, file) ==
  \/ p.seq = next /\ Drain(PopHead(buf, p), next + 1, Append(file, p))
  \/ p.seq > next /\ Drain(FillSlot(buf, next, p), next, file)
  \/ p.seq = next - 1 /\ Drain(buf, next, file)
  \/ p.seq < next - 1 /\ Drain(<<>>, p.seq + 1, <<p>>)

\* Packet p against the number next that the file needs.
Reorder(p, buf, next, file) ==
  \/ /\ p.seq = next
     /\ Drain(PopHead(buf, p), next + 1, Append(file, p))
  \/ /\ p.seq > next
     /\ Drain(FillSlot(buf, next, p), next, file)
  \/ /\ p.seq = next - 1
     /\ Drain(buf, next, file)
  \/ /\ p.seq < next - 1
     /\ nextPduSeq' = next
     /\ written' = file
     /\ arrivedBufDeque' = buf

\* consumerTaskThreadProc_CDN handles one TRANS_DATA datagram: a new tsUID
\* empties the buffer; a packet before ctsQueryFinished is dropped; the first
\* packet truncates the file and sets the number to start from.
RecvData(p, again) ==
  LET changed == NewTs(p)
      buf     == IF changed THEN <<>> ELSE arrivedBufDeque
      next    == IF changed THEN 0 ELSE nextPduSeq
  IN
  /\ p \in data
  /\ data' = IF again THEN data ELSE data \ {p}
  /\ \/ /\ Status \in {"ctsTrackerQuery", "ctsNotStarted"}
        /\ lastTsUID' = IF changed THEN p.ts ELSE lastTsUID
        /\ arrivedBufDeque' = buf
        /\ nextPduSeq' = next
        /\ UNCHANGED <<tsUID, written>>
     \/ /\ Status \in {"ctsQueryFinished", "ctsStarted"}
        /\ next = 0
        /\ tsUID' = p.ts
        /\ lastTsUID' = p.ts
        /\ Reorder(p, buf, p.seq, <<>>)
     \/ /\ Status \in {"ctsQueryFinished", "ctsStarted"}
        /\ next > 0
        /\ UNCHANGED <<tsUID, lastTsUID>>
        /\ Reorder(p, buf, next, written)
  /\ UNCHANGED <<supplierVars, requests, control, sessionVars>>

-----------------------------------------------------------------------------
(* The consumer's resend thread.                                           *)

\* Mutant of LostRange: the end is the packet that is there.
LostRangeTooLong(start, stop) == <<start, stop>>

\* The missing numbers from start up to, not including, stop.
LostRange(start, stop) == <<start, stop - 1>>

\* One slot of the scan; old: the slots stored for longer than PDU_ROUND_TRIP.
ScanSlot(st, k, old) ==
  LET slot  == arrivedBufDeque[k]
      total == st.total + (slot.seq - st.start)
      stop  == IF total > MaxResend THEN slot.seq - (total - MaxResend)
                                    ELSE slot.seq
      pairs == IF stop > st.start THEN Append(st.pairs, LostRange(st.start, stop))
                                  ELSE st.pairs
  IN IF st.done THEN st
     ELSE IF slot = NULL
       THEN [st EXCEPT !.start = IF @ = 0 THEN nextPduSeq + k - 1 ELSE @]
     ELSE IF st.start = 0 THEN st
     ELSE IF k \notin old THEN [st EXCEPT !.start = 0]
     ELSE [start |-> 0,
           total |-> IF total > MaxResend THEN MaxResend ELSE total,
           pairs |-> pairs,
           done  |-> total > MaxResend \/ Len(pairs) >= MaxPairs]

ResendPairs(old) ==
  FoldLeft(LAMBDA st, k : ScanSlot(st, k, old),
           [start |-> 0, total |-> 0, pairs |-> <<>>, done |-> FALSE],
           [k \in 1..Len(arrivedBufDeque) |-> k]).pairs

Stored == {k \in 1..Len(arrivedBufDeque) : arrivedBufDeque[k] # NULL}

\* consumerResendTaskThreadProc_CDN, one turn under the lock, with the request
\* of sendNextTransForSomeLost.
ResendScan(old) ==
  LET pairs == ResendPairs(old)
  IN
  /\ Status = "ctsStarted"
  /\ pairs # <<>>
  /\ Cardinality(requests) < MaxRequests
  /\ requests' = requests \union {[to |-> NodeOf(supplierUID), ts |-> tsUID, pairs |-> pairs]}
  /\ UNCHANGED <<supplierVars, data, control, sessionVars, streamVars>>

-----------------------------------------------------------------------------
(* The consumer's session: status changes and the restart of the timer.    *)

\* LIVECDN_REPLY_CHANNEL_QUERY names suppliers; DO_YOU_HAVE follows.
RecvQueryReply ==
  /\ Status = "ctsTrackerQuery"
  /\ Status' = "ctsNotStarted"
  /\ UNCHANGED <<supplierVars, networkVars, supplierUID, restart, streamVars>>

\* checkCtsNotStartedStatus: nobody answered, ask the tracker again.
NotStartedTooLong ==
  /\ restart = "idle"
  /\ Status = "ctsNotStarted"
  /\ Status' = "ctsTrackerQuery"
  /\ UNCHANGED <<supplierVars, networkVars, supplierUID, restart, streamVars>>

\* I_HAVE (updateConsumerTask): a supplier behind the consumer is not chosen.
\* Only a supplier that has sent a packet (update2TrackerEvent is evtAlive) answers.
RecvIHave(s) ==
  /\ Status = "ctsNotStarted"
  /\ seqNum[s] > 1
  /\ ~(supplierUID # NoSupplier /\ nextPduSeq > 0 /\ tsUID = UID(s)
       /\ nextPduSeq > seqNum[s])
  /\ supplierUID' = UID(s)
  /\ Status' = "ctsQueryFinished"
  /\ UNCHANGED <<supplierVars, networkVars, restart, streamVars>>

\* checkConsumer in ctsQueryFinished: PLEASE_START_TRANS to the address of the chosen
\* supplier, every 100 ms.
SendPleaseStartTrans ==
  /\ restart = "idle"
  /\ Status = "ctsQueryFinished"
  /\ control' = control \union {<<"PLEASE_START_TRANS", NodeOf(supplierUID)>>}
  /\ UNCHANGED <<supplierVars, data, requests, sessionVars, streamVars>>

\* The processes whose START_TRANS is under way.
Answering == {u \in {c[2] : c \in control} : <<"START_TRANS", u>> \in control}

\* START_TRANS (updateConsumerTaskA): from the chosen supplier, in any status.
RecvStartTrans(u) ==
  /\ u \in Answering
  /\ control' = control \ {<<"START_TRANS", u>>}
  /\ Status' = IF supplierUID = u THEN "ctsStarted" ELSE Status
  /\ UNCHANGED <<supplierVars, data, requests, supplierUID, restart, streamVars>>

\* Mutant of RestartDecide: only a buffer that is too long restarts.
RestartDecideOnLength ==
  /\ restart = "idle"
  /\ Status = "ctsStarted"
  /\ Len(arrivedBufDeque) > BufLimit
  /\ restart' = "decided"
  /\ UNCHANGED <<supplierVars, networkVars, Status, supplierUID, streamVars>>

\* checkConsumer finds, without the lock, that nothing came for
\* RESTART_CHANNEL_CONDITION_1 seconds or that the buffer is too long.  No
\* datagram spends that long in the network, so silence means none is there.
RestartDecide ==
  /\ restart = "idle"
  /\ Status = "ctsStarted"
  /\ data = {} \/ Len(arrivedBufDeque) > BufLimit
  /\ restart' = "decided"
  /\ UNCHANGED <<supplierVars, networkVars, Status, supplierUID, streamVars>>

\* Mutant of RestartClear: the buffer keeps what it holds.
RestartClearNumberOnly ==
  /\ restart = "decided"
  /\ restart' = "cleared"
  /\ nextPduSeq' = 0
  /\ UNCHANGED <<supplierVars, networkVars, Status, supplierUID,
                 tsUID, lastTsUID, arrivedBufDeque, written>>

\* Under the lock it empties the buffer ...
RestartClear ==
  /\ restart = "decided"
  /\ restart' = "cleared"
  /\ nextPduSeq' = 0
  /\ arrivedBufDeque' = <<>>
  /\ UNCHANGED <<supplierVars, networkVars, Status, supplierUID,
                 tsUID, lastTsUID, written>>

\* ... and after the unlock it leaves ctsStarted.
RestartQuery ==
  /\ restart = "cleared"
  /\ restart' = "idle"
  /\ Status' = "ctsTrackerQuery"
  /\ UNCHANGED <<supplierVars, networkVars, supplierUID, streamVars>>

-----------------------------------------------------------------------------
SupplierNext(s) ==
  \/ SupplierSend(s)
  \/ \E r \in requests : RecvNextTrans(s, r)
  \/ ResendTake(s)
  \/ ResendOne(s)
  \/ ResendTimeout(s)
  \/ SupplierCrash(s)
  \/ RecvPleaseStartTrans(s)

NetworkNext ==
  \/ \E p \in data : LoseData(p)
  \/ \E r \in requests : LoseRequest(r)
  \/ \E c \in control : LoseControl(c)

ConsumerNext ==
  \/ \E p \in data, again \in BOOLEAN : RecvData(p, again)
  \/ \E old \in SUBSET Stored : ResendScan(old)
  \/ RecvQueryReply
  \/ NotStartedTooLong
  \/ \E s \in Supplier : RecvIHave(s)
  \/ SendPleaseStartTrans
  \/ \E u \in Answering : RecvStartTrans(u)
  \/ RestartDecide
  \/ RestartClear
  \/ RestartQuery

Next ==
  \/ \E s \in Supplier : SupplierNext(s)
  \/ NetworkNext
  \/ ConsumerNext

Spec == Init /\ [][Next]_vars

\* What the code's loops and timers give: threads keep running, a datagram that
\* is sent again and again is received in the end, a timer fires when its
\* condition stays, and every stored packet becomes older than a round trip.
Fairness ==
  /\ \A s \in Supplier :
       /\ WF_vars(SupplierSend(s))
       /\ WF_vars(ResendTake(s))
       /\ WF_vars(ResendOne(s))
       /\ SF_vars(\E r \in requests : RecvNextTrans(s, r))
       /\ SF_vars(RecvPleaseStartTrans(s))
       /\ SF_vars(\E u \in Answering : NodeOf(u) = s /\ RecvStartTrans(u))
       /\ \A n \in 1..MaxSeq :
            SF_vars(\E p \in data : NodeOf(p.ts) = s /\ p.seq = n /\ RecvData(p, FALSE))
  /\ WF_vars(ResendScan(Stored))
  /\ WF_vars(RecvQueryReply)
  /\ SF_vars(\E s \in Supplier : RecvIHave(s))
  /\ WF_vars(SendPleaseStartTrans)
  /\ WF_vars(RestartDecide)
  /\ WF_vars(RestartClear)
  /\ WF_vars(RestartQuery)

FairSpec == Spec /\ Fairness

-----------------------------------------------------------------------------
(* What the transfer promises.                                             *)

\* Types of the consumer's stream and of the suppliers' packets.
TypeOK ==
  /\ seqNum \in [Supplier -> Nat \ {0}]
  /\ life \in [Supplier -> Nat \ {0}]
  /\ sentBufQue \in [Supplier -> Seq(Packet)]
  /\ entry \in [Supplier -> BOOLEAN]
  /\ data \subseteq Packet
  /\ control \subseteq Control
  /\ Status \in Statuses
  /\ supplierUID \in UIDs \union {NoSupplier}
  /\ tsUID \in UIDs \union {NoSupplier}
  /\ lastTsUID \in UIDs \union {NoSupplier}
  /\ nextPduSeq \in Nat
  /\ arrivedBufDeque \in Seq(Packet \union {NULL})
  /\ written \in Seq(Packet)
  /\ restart \in {"idle", "decided", "cleared"}

\* Every kept packet sits in the slot the resend thread computes for its number
\* (i - front), so an index never reaches past the queue or to another packet.
SentBufIndexed ==
  \A s \in Supplier :
    /\ Len(sentBufQue[s]) <= SentLimit
    /\ \A k \in 1..Len(sentBufQue[s]) :
         /\ sentBufQue[s][k].seq + Len(sentBufQue[s]) = seqNum[s] + k - 1
         /\ sentBufQue[s][k].ts = UID(s)

\* Header and content agree wherever a packet is: the resend thread never sends
\* the content of one packet under the number of another.
BodyMatchesHeader ==
  /\ \A s \in Supplier : \A k \in 1..Len(sentBufQue[s]) :
       sentBufQue[s][k].body = sentBufQue[s][k].seq
  /\ \A p \in data : p.body = p.seq
  /\ \A k \in Stored : arrivedBufDeque[k].body = arrivedBufDeque[k].seq

\* The reorder buffer, whatever was lost, repeated or out of order and whenever
\* the timer emptied it: it starts with a hole and ends with a packet (so
\* back()->seqNum in checkConsumer is never taken of NULL and the branches
\* logged "LIKE IMPOSSIBLE" are), and each packet is in its own slot.
BufferShape ==
  /\ arrivedBufDeque # <<>> =>
       /\ nextPduSeq > 0
       /\ arrivedBufDeque[1] = NULL
       /\ arrivedBufDeque[Len(arrivedBufDeque)] # NULL
  /\ \A k \in 1..Len(arrivedBufDeque) :
       arrivedBufDeque[k] # NULL =>
         /\ arrivedBufDeque[k].seq = nextPduSeq + k - 1
         /\ arrivedBufDeque[k].ts = lastTsUID

\* The file is one unbroken run of the channel's packets of one TS: nothing is
\* missing, repeated or swapped, and nextPduSeq is the number after its last.
FileIsRun ==
  /\ \A i \in 1..Len(written) :
       /\ written[i].ts = written[1].ts
       /\ written[i].body = written[1].body + i - 1
  /\ nextPduSeq > 0 =>
       /\ written # <<>>
       /\ written[Len(written)].body + 1 = nextPduSeq
       /\ written[Len(written)].ts = lastTsUID
       /\ tsUID = lastTsUID

\* The numbers the buffer lacks.
Missing == {nextPduSeq + k - 1 : k \in (1..Len(arrivedBufDeque)) \ Stored}

\* How many packets the ranges name.
Packets(pairs) == FoldLeft(LAMBDA sum, pair : sum + pair[2] - pair[1] + 1, 0, pairs)

\* A NEXT_TRANS asks for missing packets only, in rising order, in at most
\* MaxPairs ranges of at most MaxResend packets altogether.
RequestsOnlyMissing ==
  [][\A r \in requests' \ requests :
       /\ Len(r.pairs) \in 1..MaxPairs
       /\ \A i \in 1..Len(r.pairs) :
            /\ r.pairs[i][1] <= r.pairs[i][2]
            /\ r.pairs[i][1]..r.pairs[i][2] \subseteq Missing
            /\ i > 1 => r.pairs[i - 1][2] < r.pairs[i][1]
       /\ Packets(r.pairs) <= MaxResend]_vars

\* The chosen supplier's process went before its START_TRANS came: the one now at
\* its address may start to send, but the consumer asks for nothing that is lost and
\* checkConsumer restarts nothing before ctsStarted.
Stuck == Status = "ctsQueryFinished" /\ supplierUID # UID(NodeOf(supplierUID))

\* A hole at the head of the buffer is filled or given up by a restart, also when the
\* supplier gave the consumer up or its process went: the consumer is never held up
\* by a lost packet, but in Stuck.
HoleCloses ==
  \A n \in 1..MaxSeq :
    (nextPduSeq = n /\ arrivedBufDeque # <<>>) ~> (nextPduSeq # n \/ Stuck)

\* What a reader sees of the packets of a file.
Chunks(file) == [i \in 1..Len(file) |-> [ts |-> file[i].ts, n |-> file[i].body]]

\* The consumer implements LiveStream: a step appends the next chunks to the
\* file, breaks it off (a restart, or a packet of another TS), or begins a new
\* one, which it never does while packets of the same TS can still be appended.
Stream == INSTANCE LiveStream WITH file <- Chunks(written), open <- nextPduSeq > 0

StreamSpec == Stream!Spec
=============================================================================
