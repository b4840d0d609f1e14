------------------------------- MODULE Session -------------------------------
(***************************************************************************)
(* How a consumer of one channel finds a supplier among several: the       *)
(* tracker's answer fills supplierDeque, DO_YOU_HAVE asks all of them, the *)
(* first I_HAVE chooses one, PLEASE_START_TRANS asks it for the stream,    *)
(* and START_TRANS says that it comes.  LiveTransfer has the stream        *)
(* itself; here it is only whether a supplier sends.                       *)
(*                                                                         *)
(* A supplier answers the nodes in its neighbour list only: HOW_ARE_YOU    *)
(* puts the consumer there, and the neighbour timer counts it down again.  *)
(* The process of a supplier may stop at any time, and the next one at its *)
(* address has a UID of its own and an empty neighbour list.  HOW_ARE_YOU  *)
(* and PLEASE_START_TRANS reach whatever process runs at the address,      *)
(* DO_YOU_HAVE is answered under the UID it names only.  Datagrams are     *)
(* lost and delayed until the network is stable, if ever it is: from then  *)
(* on none is lost, and an answer takes less than the 100 ms of            *)
(* checkConsumer.                                                          *)
(***************************************************************************)
EXTENDS Naturals, FiniteSets

CONSTANTS
  Supplier,     \* addresses of the nodes that can supply the channel
  NoSupplier,   \* supplierUID = 0
  Mortal,       \* those whose process may stop
  nnsAlive,     \* the neighbour status after HOW_ARE_YOU; nnsDead is 0
  MaxTimes,     \* timesInCtsNotStartedStatus starts again beyond it
  MaxLife,      \* bound: lives (process starts) of one supplier
  MaxNet        \* bound: datagrams under way when the timer fires

\* The UIDs of the processes of a node: no two are the same.
UIDs == Supplier \X (Nat \ {0})

ASSUME SessionAssumption ==
  /\ NoSupplier \notin UIDs
  /\ Mortal \subseteq Supplier
  /\ {nnsAlive, MaxTimes} \subseteq Nat \ {0}
  /\ {MaxLife, MaxNet} \subseteq Nat

Statuses == {"ctsTrackerQuery", "ctsNotStarted", "ctsQueryFinished", "ctsStarted"}

\* From a process, and to an address.
Message == ({"I_HAVE", "START_TRANS"} \X UIDs) \union ({"PLEASE_START_TRANS"} \X Supplier)

VARIABLES
  Status, supplierUID,
  supplierDeque,  \* the suppliers whose addresses are known
  times,          \* timesInCtsNotStartedStatus
  received,       \* nextPduSeq > 0
  restart,        \* where checkConsumer is in a restart
  crashed,        \* a NULL address was dereferenced
  up,             \* the suppliers whose process runs and has the channel
  life,           \* per supplier: which start of the process this is, or was last
  serves,         \* the suppliers with the consumer in their consumerDeque
  neighbor,       \* Status of the consumer in each supplier's neighbour list
  net,            \* datagrams under way, with the process or address
  stable          \* the network is stable

consumerVars == <<Status, supplierUID, supplierDeque, times, received, restart, crashed>>
supplierVars == <<up, life, serves, neighbor>>
vars == <<consumerVars, supplierVars, net, stable>>

\* globalConfig.UID of the last process of supplier s; those of all that run; and those
\* of all that ever did, which the tracker may know.
UID(s) == <<s, life[s]>>
Running == {UID(s) : s \in up}
Seen == UNION {{s} \X (1..life[s]) : s \in Supplier}

\* The node at the address of process u.
NodeOf(u) == u[1]

Init ==
  /\ Status = "ctsTrackerQuery" /\ supplierUID = NoSupplier
  /\ supplierDeque = {} /\ times = 0
  /\ received = FALSE /\ restart = "idle" /\ crashed = FALSE
  /\ up = Supplier /\ serves = {}
  /\ life = [s \in Supplier |-> 1]
  /\ neighbor = [s \in Supplier |-> 0]
  /\ net = {} /\ stable = FALSE

-----------------------------------------------------------------------------
(* The consumer's publication thread.                                      *)

\* HOW_ARE_YOU of the consumer arrives at some of the addresses of S (updateNeighborList).
Hear(S) ==
  LET addr == {NodeOf(u) : u \in S} \intersect up IN
  \E heard \in SUBSET addr :
    /\ stable => heard = addr
    /\ neighbor' = [s \in Supplier |-> IF s \in heard THEN nnsAlive ELSE neighbor[s]]

\* Mutant of RecvQueryReply: an answer that comes late replaces the addresses too.
RecvQueryReplyLate(S) ==
  /\ stable => Running \subseteq S
  /\ supplierDeque' = S
  /\ IF S # {} /\ Status = "ctsTrackerQuery"
       THEN Status' = "ctsNotStarted" /\ Hear(S)
       ELSE UNCHANGED <<Status, neighbor>>
  /\ UNCHANGED <<supplierUID, times, received, restart, crashed, up, life, serves, net, stable>>

\* The tracker's answer to one of the queries, with suppliers S, which are greeted: it
\* may name processes that have stopped, and miss others while the network is not stable.
RecvQueryReply(S) ==
  /\ stable => Running \subseteq S
  /\ Status = "ctsTrackerQuery"
  /\ supplierDeque' = S
  /\ IF S # {} THEN Status' = "ctsNotStarted" /\ Hear(S) ELSE UNCHANGED <<Status, neighbor>>
  /\ UNCHANGED <<supplierUID, times, received, restart, crashed, up, life, serves, net, stable>>

\* The first I_HAVE in ctsNotStarted chooses its supplier, also one of an earlier
\* answer of the tracker, ...
Choose(u) ==
  /\ <<"I_HAVE", u>> \in net
  /\ Status = "ctsNotStarted"
  /\ Status' = "ctsQueryFinished"
  /\ supplierUID' = u
  /\ net' = net \ {<<"I_HAVE", u>>}
  /\ UNCHANGED <<supplierDeque, times, received, restart, crashed, supplierVars, stable>>

\* ... unless a packet came after the buffer was emptied and its number is beyond the
\* supplier's: NOT CHOSEN.
Refuse(u) ==
  /\ <<"I_HAVE", u>> \in net
  /\ Status = "ctsNotStarted" => supplierUID # NoSupplier /\ received
  /\ net' = net \ {<<"I_HAVE", u>>}
  /\ UNCHANGED <<consumerVars, supplierVars, stable>>

\* START_TRANS counts in any status, but from the chosen process only.
RecvStartTrans(u) ==
  /\ <<"START_TRANS", u>> \in net
  /\ net' = net \ {<<"START_TRANS", u>>}
  /\ Status' = IF supplierUID = u THEN "ctsStarted" ELSE Status
  /\ UNCHANGED <<supplierUID, supplierDeque, times, received, restart, crashed,
                 supplierVars, stable>>

-----------------------------------------------------------------------------
(* The consumer's receive thread: a packet of any supplier that sends.     *)

RecvData(s) ==
  /\ s \in serves
  /\ Status \in {"ctsQueryFinished", "ctsStarted"}
  /\ received' = TRUE
  /\ UNCHANGED <<Status, supplierUID, supplierDeque, times, restart, crashed,
                 supplierVars, net, stable>>

-----------------------------------------------------------------------------
(* The consumer's timers: checkConsumer every 100 ms ...                   *)

Timer == restart = "idle" /\ (IF stable THEN net = {} ELSE Cardinality(net) < MaxNet)

\* getNeighborPublicationAddr finds the consumer.
Known(s) == neighbor[s] > 0

\* DO_YOU_HAVE goes to the suppliers S.  It or its answer is lost, or the process it
\* names runs, knows the consumer and answers I_HAVE, which may come late.
DoYouHave(S) ==
  LET answering == {u \in S \intersect Running : Known(NodeOf(u))} IN
  \E asked \in SUBSET answering :
    /\ stable => asked = answering
    /\ net' = net \union {<<"I_HAVE", u>> : u \in asked}

\* Mutant of NotStarted: the limit is passed by one.
NotStartedPast ==
  /\ Timer
  /\ Status = "ctsNotStarted"
  /\ IF times > MaxTimes
       THEN times' = 0 /\ Status' = "ctsTrackerQuery" /\ UNCHANGED net
       ELSE /\ times' = times + 1
            /\ DoYouHave(supplierDeque)
            /\ UNCHANGED Status
  /\ UNCHANGED <<supplierUID, supplierDeque, received, restart, crashed, supplierVars, stable>>

\* Every supplier is asked, and after MaxTimes times the tracker again.
NotStarted ==
  /\ Timer
  /\ Status = "ctsNotStarted"
  /\ IF times = MaxTimes
       THEN times' = 0 /\ Status' = "ctsTrackerQuery" /\ UNCHANGED net
       ELSE /\ times' = times + 1
            /\ DoYouHave(supplierDeque)
            /\ UNCHANGED Status
  /\ UNCHANGED <<supplierUID, supplierDeque, received, restart, crashed, supplierVars, stable>>

\* The chosen supplier is asked for the stream, at the address in supplierDeque.
QueryFinished ==
  /\ Timer
  /\ Status = "ctsQueryFinished"
  /\ IF supplierUID \in supplierDeque
       THEN /\ net' = net \union
                        {<<"PLEASE_START_TRANS", s>> : s \in {NodeOf(supplierUID)} \intersect up}
            /\ UNCHANGED crashed
       ELSE crashed' = TRUE /\ UNCHANGED net
  /\ UNCHANGED <<Status, supplierUID, supplierDeque, times, received, restart,
                 supplierVars, stable>>

\* Nothing came for RESTART_CHANNEL_CONDITION_1 seconds ...
Silence ==
  /\ Timer
  /\ Status = "ctsStarted" /\ supplierUID # NoSupplier
  /\ serves = {}
  /\ restart' = "clear"
  /\ UNCHANGED <<Status, supplierUID, supplierDeque, times, received, crashed,
                 supplierVars, net, stable>>

\* ... or packets wait behind a hole that is not filled: ...
Overflow ==
  /\ Timer
  /\ Status = "ctsStarted" /\ supplierUID # NoSupplier
  /\ received
  /\ restart' = "clear"
  /\ UNCHANGED <<Status, supplierUID, supplierDeque, times, received, crashed,
                 supplierVars, net, stable>>

\* ... the buffer is emptied under its lock ...
RestartClear ==
  /\ restart = "clear"
  /\ restart' = "query"
  /\ received' = FALSE
  /\ UNCHANGED <<Status, supplierUID, supplierDeque, times, crashed, supplierVars, net, stable>>

\* Mutant of RestartQuery: the status changes before supplierDeque is cleared.
RestartQueryFirst ==
  /\ \/ /\ restart = "query"
        /\ restart' = "deque" /\ Status' = "ctsTrackerQuery"
        /\ UNCHANGED <<supplierDeque, times>>
     \/ /\ restart = "deque"
        /\ restart' = "idle" /\ supplierDeque' = {} /\ times' = 0
        /\ UNCHANGED Status
  /\ UNCHANGED <<supplierUID, received, crashed, supplierVars, net, stable>>

\* ... and the addresses go; only then the publication thread takes an answer again.
RestartQuery ==
  /\ restart = "query"
  /\ restart' = "idle"
  /\ supplierDeque' = {} /\ times' = 0
  /\ Status' = "ctsTrackerQuery"
  /\ UNCHANGED <<supplierUID, received, crashed, supplierVars, net, stable>>

\* Mutant of Greeted: HOW_ARE_YOU goes to the last supplier only.
GreetedLast == {NodeOf(u) : u \in {supplierUID} \intersect supplierDeque}

\* The addresses to which sayHello2Supplier sends HOW_ARE_YOU.
Greeted ==
  {NodeOf(u) : u \in
     IF supplierUID = NoSupplier \/ Status \in {"ctsTrackerQuery", "ctsNotStarted"}
       THEN supplierDeque
       ELSE {supplierUID} \intersect supplierDeque}

\* ... and every ten seconds HOW_ARE_YOU, which arrives (updateNeighborList) or not.
sayHello2Supplier(s) ==
  /\ s \in Greeted \intersect up
  /\ neighbor' = [neighbor EXCEPT ![s] = nnsAlive]
  /\ UNCHANGED <<consumerVars, up, life, serves, net, stable>>

-----------------------------------------------------------------------------
(* The suppliers.                                                          *)

\* The stream is sent also to a consumer that is not a neighbour and gets no answer.
\* Nobody hears it at the address of a process that has stopped meanwhile.
RecvPleaseStartTrans(s) ==
  /\ <<"PLEASE_START_TRANS", s>> \in net
  /\ serves' = serves \union ({s} \intersect up)
  /\ net' = (net \ {<<"PLEASE_START_TRANS", s>>})
              \union (IF s \in up /\ Known(s) THEN {<<"START_TRANS", UID(s)>>} ELSE {})
  /\ UNCHANGED <<consumerVars, up, life, neighbor, stable>>

\* The neighbour timer of the supplier: counted down to nnsDead and erased, but not when
\* HOW_ARE_YOU arrives as often.
CheckNeighbor(s) ==
  /\ s \in up /\ neighbor[s] > 0
  /\ stable => s \notin Greeted
  /\ neighbor' = [neighbor EXCEPT ![s] = @ - 1]
  /\ UNCHANGED <<consumerVars, up, life, serves, net, stable>>

\* The supplier whose address NEXT_TRANS goes to.
Bound(s) == supplierUID # NoSupplier /\ NodeOf(supplierUID) = s

\* The resend thread has had no NEXT_TRANS, or one it cannot serve.
GiveUp(s) ==
  /\ s \in serves
  /\ stable => supplierUID # UID(s) \/ Status \in {"ctsTrackerQuery", "ctsNotStarted"}
  /\ serves' = serves \ {s}
  /\ UNCHANGED <<consumerVars, up, life, neighbor, net, stable>>

\* The process of a supplier stops: its UID is never used again.
Stop(s) ==
  /\ s \in up \intersect Mortal
  /\ up' = up \ {s} /\ serves' = serves \ {s}
  /\ neighbor' = [neighbor EXCEPT ![s] = 0]
  /\ UNCHANGED <<consumerVars, life, net, stable>>

\* The next process at its address draws a UID of its own.
Restart(s) ==
  /\ s \notin up /\ life[s] < MaxLife
  /\ up' = up \union {s}
  /\ life' = [life EXCEPT ![s] = @ + 1]
  /\ UNCHANGED <<consumerVars, serves, neighbor, net, stable>>

-----------------------------------------------------------------------------
(* The network.                                                            *)

Lose(m) ==
  /\ ~stable
  /\ m \in net
  /\ net' = net \ {m}
  /\ UNCHANGED <<consumerVars, supplierVars, stable>>

Stabilise ==
  /\ ~stable
  /\ stable' = TRUE
  /\ UNCHANGED <<consumerVars, supplierVars, net>>

Consumer ==
  \/ NotStarted \/ QueryFinished
  \/ Silence \/ Overflow \/ RestartClear \/ RestartQuery

Next ==
  /\ ~crashed
  /\ \/ Consumer
     \/ \E S \in SUBSET Seen : RecvQueryReply(S)
     \/ \E u \in Seen : Choose(u) \/ Refuse(u) \/ RecvStartTrans(u)
     \/ \E s \in Supplier :
          \/ RecvData(s) \/ sayHello2Supplier(s)
          \/ RecvPleaseStartTrans(s) \/ CheckNeighbor(s) \/ GiveUp(s)
          \/ Stop(s) \/ Restart(s)
     \/ \E m \in net : Lose(m)
     \/ Stabilise

Spec == Init /\ [][Next]_vars

\* The timers fire, datagrams arrive, and a supplier gives up a consumer that sends
\* NEXT_TRANS to another; a supplier's number grows, so that it is not refused for ever.
\* Nothing is assumed of suppliers that stop, of Overflow, of losses, or of the network
\* becoming stable.
Fairness ==
  /\ WF_vars(~crashed /\ Consumer)
  /\ WF_vars(~crashed /\ \E S \in SUBSET Seen : Running \subseteq S /\ RecvQueryReply(S))
  /\ \A u \in Supplier \X (1..MaxLife) :
       /\ SF_vars(~crashed /\ Choose(u))
       /\ WF_vars(~crashed /\ Refuse(u))
       /\ WF_vars(~crashed /\ RecvStartTrans(u))
  /\ \A s \in Supplier :
       /\ WF_vars(~crashed /\ sayHello2Supplier(s))
       /\ WF_vars(~crashed /\ RecvPleaseStartTrans(s))
       /\ WF_vars(~crashed /\ ~Bound(s) /\ GiveUp(s))

FairSpec == Spec /\ Fairness

-----------------------------------------------------------------------------
(* Properties.                                                             *)

\* The variables have their types.
TypeOK ==
  /\ Status \in Statuses
  /\ supplierUID \in UIDs \union {NoSupplier}
  /\ supplierDeque \subseteq UIDs
  /\ times \in 0..MaxTimes
  /\ {received, crashed} \subseteq BOOLEAN
  /\ restart \in {"idle", "clear", "query"}
  /\ up \subseteq Supplier
  /\ life \in [Supplier -> Nat \ {0}]
  /\ serves \subseteq up
  /\ neighbor \in [Supplier -> 0..nnsAlive]
  /\ net \subseteq Message
  /\ stable \in BOOLEAN

\* The timer thread clears supplierDeque and the publication thread fills it, without a
\* lock: what keeps them apart is Status.  In ctsNotStarted there is somebody to ask.
SomebodyToAsk == Status = "ctsNotStarted" => supplierDeque # {}

\* A supplier chosen from the list stays in it until the transfer starts, whatever
\* answers of the tracker come meanwhile: PLEASE_START_TRANS finds its address.
AddressKept ==
  [][Status = "ctsQueryFinished" /\ supplierUID \in supplierDeque
       => (Status' = "ctsQueryFinished" => supplierUID' \in supplierDeque')]_vars

\* The stream comes from the address of the chosen supplier.
Served == Status = "ctsStarted" /\ \E s \in serves : Bound(s)

\* A consumer waits for a process that has stopped, for ever unless that has sent its
\* START_TRANS: there is no other way out of ctsQueryFinished, and no other process has
\* its UID.
Stuck == Status = "ctsQueryFinished" /\ supplierUID \notin Running

\* Once the network is stable the consumer is served again and again, whatever suppliers
\* stop, start again under another UID or give it up and whatever datagrams of earlier
\* attempts arrive, unless it has chosen a process that stops before START_TRANS, or one
\* whose address it has lost.
ServedInTheEnd == stable ~> Served \/ Stuck \/ crashed
=============================================================================
