--------------------------- MODULE BandwidthProofs ---------------------------
(***************************************************************************)
(* The server's table counts its sessions right and keeps a client's       *)
(* measurements apart, for any number of clients and sessions.             *)
(*                                                                         *)
(* RoundsApart is not inductive: that a datagram's checkid is the one of   *)
(* its measurement has to be followed from the request through the answer  *)
(* and the client (NetInv, GrantInv), and that a session begins with no    *)
(* length from udpclearsession (FreeIsEmpty).                              *)
(***************************************************************************)
EXTENDS Bandwidth, TLAPS, FiniteSetTheorems

NetInv == \A m \in net : m.type \in {"ack", "data"} => m.checkid = m.round[2] + 1

GrantInv == \A c \in Client : at[c] = "send" => grant[c].checkid = round[c] + 1

FreeIsEmpty == \A i \in Session : ~udpsessionuse[i] => counted[i] = {}

IInv == TypeOK /\ NetInv /\ GrantInv /\ FreeIsEmpty /\ RoundsApart

\* What the network does with a datagram.
LEMMA WithSubset ==
  ASSUME NEW S, NEW m
  PROVE  With(S, m) \subseteq S \union {m}
BY DEF With

\* The sessions are finitely many, and so are those in use.
LEMMA InUseFinite ==
  ASSUME BandwidthAssumption
  PROVE  /\ IsFiniteSet(InUse)
         /\ Cardinality(InUse) \in Nat
         /\ Session \subseteq Nat
<1>1. SESSIONMAXNUM - 1 \in Int /\ 0 \in Int
  BY DEF BandwidthAssumption
<1>2. IsFiniteSet(Session)
  BY <1>1, FS_Interval DEF Session
<1>3. InUse \in SUBSET Session
  BY DEF InUse
<1>4. IsFiniteSet(InUse)
  BY <1>2, <1>3, FS_Subset
<1> QED BY <1>4, FS_CardinalityType DEF Session

\* Clearing sessions that are in use leaves the table right.
LEMMA ClearedKeeps ==
  ASSUME BandwidthAssumption, TypeOK, FreeIsEmpty,
         NEW S \in SUBSET InUse, Cleared(S)
  PROVE  /\ udpsessionuse' \in [Session -> BOOLEAN]
         /\ counted' \in [Session -> SUBSET Round]
         /\ clientadd' \in [Session -> Round \union {NoRound}]
         /\ sessionnum' = Cardinality(InUse)'
         /\ InUse' = InUse \ S
         /\ FreeIsEmpty'
         /\ \A i \in InUse' : counted'[i] = counted[i] /\ clientadd'[i] = clientadd[i]
<1>1. /\ udpsessionuse' = [i \in Session |-> i \in InUse \ S]
      /\ counted' = [i \in Session |-> IF i \in S THEN {} ELSE counted[i]]
      /\ clientadd' = [i \in Session |-> IF i \in S THEN NoRound ELSE clientadd[i]]
      /\ sessionnum' = sessionnum - Cardinality(S)
  BY DEF Cleared
<1>2. InUse \subseteq Session
  BY DEF InUse
<1>3. /\ udpsessionuse' \in [Session -> BOOLEAN]
      /\ counted' \in [Session -> SUBSET Round]
      /\ clientadd' \in [Session -> Round \union {NoRound}]
  BY <1>1 DEF TypeOK
<1>4. InUse' = InUse \ S
  BY <1>1, <1>2 DEF InUse
<1>5. Cardinality(InUse \ S) = Cardinality(InUse) - Cardinality(S)
  <2>1. IsFiniteSet(InUse)
    BY InUseFinite
  <2>2. IsFiniteSet(S) /\ IsFiniteSet(InUse \ S)
    BY <2>1, FS_Subset
  <2>3. Cardinality(S \union (InUse \ S)) =
          Cardinality(S) + Cardinality(InUse \ S) - Cardinality(S \intersect (InUse \ S))
    BY <2>2, FS_Union
  <2>4. S \union (InUse \ S) = InUse /\ S \intersect (InUse \ S) = {}
    OBVIOUS
  <2>5. Cardinality(S) \in Nat /\ Cardinality(InUse \ S) \in Nat /\ Cardinality({}) = 0
    BY <2>2, FS_CardinalityType, FS_EmptySet
  <2> QED BY <2>3, <2>4, <2>5
<1>6. sessionnum' = Cardinality(InUse)'
  BY <1>1, <1>4, <1>5 DEF TypeOK
<1>7. FreeIsEmpty'
  BY <1>1, <1>2, <1>4 DEF FreeIsEmpty, InUse
<1>8. \A i \in InUse' : counted'[i] = counted[i] /\ clientadd'[i] = clientadd[i]
  BY <1>1, <1>2, <1>4
<1> QED BY <1>3, <1>4, <1>6, <1>7, <1>8

LEMMA InitInv == ASSUME BandwidthAssumption, Init PROVE IInv
<1>1. 0 \in Session /\ 0 \in Checkid /\ 0 \in 0..(MaxRound - 1) /\ 0 \in 0..MAX_CHECK_TIME
  BY DEF BandwidthAssumption, Session, Checkid
<1>2. InUse = {}
  BY DEF Init, InUse
<1>3. sessionnum = Cardinality(InUse)
  BY <1>2, FS_EmptySet DEF Init
<1>4. NoGrant \in [id : Session, checkid : Checkid]
  BY <1>1 DEF NoGrant
<1>5. TypeOK
  BY <1>1, <1>3, <1>4 DEF Init, TypeOK
<1>6. NetInv /\ GrantInv /\ FreeIsEmpty /\ RoundsApart
  BY <1>2 DEF Init, NetInv, GrantInv, FreeIsEmpty, RoundsApart
<1> QED BY <1>5, <1>6 DEF IInv

\* A pass over the sessions.
LEMMA UpdateStep ==
  ASSUME BandwidthAssumption, IInv,
         NEW late \in SUBSET Session, NEW sent \in BOOLEAN, udpupdatesession(late, sent)
  PROVE  IInv'
<1> USE DEF IInv
<1>1. late \subseteq InUse /\ UNCHANGED <<checkid, at, round, checktime, grant>>
  BY DEF udpupdatesession, clientVars
<1>2. PICK S \in SUBSET InUse :
        /\ Cleared(S)
        /\ \/ UNCHANGED net
           \/ \E i \in InUse : /\ counted[i] # {}
                               /\ net' = With(net, [type |-> "report", round |-> clientadd[i]])
  <2>1. CASE Cleared(Idle(late)) /\ UNCHANGED net
    BY <1>1, <2>1 DEF Idle
  <2>2. ASSUME NEW first \in late, counted[first] # {},
               IF sent
                 THEN /\ Cleared(Idle({i \in late : i < first}) \union {first})
                      /\ Send([type |-> "report", round |-> clientadd[first]])
                 ELSE Cleared(Idle({i \in late : i < first})) /\ UNCHANGED net
        PROVE  \E S \in SUBSET InUse :
                 /\ Cleared(S)
                 /\ \/ UNCHANGED net
                    \/ \E i \in InUse :
                         /\ counted[i] # {}
                         /\ net' = With(net, [type |-> "report", round |-> clientadd[i]])
    <3>1. Idle({i \in late : i < first}) \subseteq InUse /\ first \in InUse
      BY <1>1 DEF Idle
    <3>2. CASE sent
      <4>1. Idle({i \in late : i < first}) \union {first} \in SUBSET InUse
        BY <3>1
      <4> QED BY <2>2, <3>1, <3>2, <4>1 DEF Send
    <3>3. CASE ~sent
      BY <2>2, <3>1, <3>3
    <3> QED BY <3>2, <3>3
  <2> QED BY <2>1, <2>2 DEF udpupdatesession
<1>3. /\ udpsessionuse' \in [Session -> BOOLEAN]
      /\ counted' \in [Session -> SUBSET Round]
      /\ clientadd' \in [Session -> Round \union {NoRound}]
      /\ sessionnum' = Cardinality(InUse)'
      /\ InUse' = InUse \ S
      /\ FreeIsEmpty'
      /\ \A i \in InUse' : counted'[i] = counted[i] /\ clientadd'[i] = clientadd[i]
  BY <1>2, ClearedKeeps
<1>4. net' \subseteq Message /\ NetInv'
  <2>1. CASE UNCHANGED net
    BY <2>1 DEF NetInv, TypeOK
  <2>2. ASSUME NEW i \in InUse, counted[i] # {},
               net' = With(net, [type |-> "report", round |-> clientadd[i]])
        PROVE  net' \subseteq Message /\ NetInv'
    <3> DEFINE m == [type |-> "report", round |-> clientadd[i]]
    <3>1. clientadd[i] \in Round
      BY <2>2 DEF TypeOK, RoundsApart, InUse
    <3>2. m \in Message /\ m.type = "report"
      BY <3>1 DEF Message
    <3>3. net' \subseteq net \union {m}
      BY <2>2, WithSubset
    <3> HIDE DEF m
    <3> QED BY <3>2, <3>3 DEF NetInv, TypeOK
  <2> QED BY <1>2, <2>1, <2>2
<1>5. RoundsApart'
  BY <1>1, <1>3 DEF RoundsApart
<1>6. TypeOK'
  BY <1>1, <1>3, <1>4 DEF TypeOK
<1>7. GrantInv'
  BY <1>1 DEF GrantInv
<1> QED BY <1>3, <1>4, <1>5, <1>6, <1>7

\* A request.
LEMMA RequestStep ==
  ASSUME BandwidthAssumption, IInv, NEW m \in net, NEW i \in Session,
         RecvRequest(m, i) \/ RefuseRequest(m)
  PROVE  IInv'
<1> USE DEF IInv
<1>1. PICK r \in Client \X (0..(MaxRound - 1)) : r = m.round
  BY DEF TypeOK, Message, Round
<1>2. r[2] \in 0..(MaxRound - 1)
  OBVIOUS
<1>3. r[2] + 1 \in Checkid
  BY <1>2 DEF BandwidthAssumption, Checkid
<1>4. CASE RecvRequest(m, i)
  <2> DEFINE a == [type |-> "ack", round |-> r, id |-> i, checkid |-> r[2] + 1]
  <2>1. /\ ~udpsessionuse[i]
        /\ udpsessionuse' = [udpsessionuse EXCEPT ![i] = TRUE]
        /\ checkid' = [checkid EXCEPT ![i] = r[2] + 1]
        /\ sessionnum' = sessionnum + 1
        /\ UNCHANGED <<counted, clientadd, at, round, checktime, grant>>
    BY <1>1, <1>4 DEF RecvRequest, getudptransferuid, InUse, clientVars
  <2>2. checkid'[i] = r[2] + 1
    BY <2>1 DEF TypeOK
  <2>3. net' \subseteq net \union {a}
    BY <1>1, <1>4, <2>2, WithSubset DEF RecvRequest, Reply
  <2>4. a \in Message /\ a.checkid = a.round[2] + 1
    BY <1>3 DEF Message, Round
  <2> HIDE DEF a
  <2>5. net' \subseteq Message /\ NetInv'
    BY <2>3, <2>4 DEF TypeOK, NetInv
  <2>6. InUse' = InUse \union {i} /\ i \notin InUse
    BY <2>1 DEF TypeOK, InUse
  <2>7. sessionnum' = Cardinality(InUse)'
    BY <2>1, <2>6, InUseFinite, FS_AddElement DEF TypeOK
  <2>8. TypeOK'
    BY <1>3, <2>1, <2>5, <2>7 DEF TypeOK
  <2>9. FreeIsEmpty'
    BY <2>1 DEF FreeIsEmpty, TypeOK
  <2>10. counted[i] = {}
    BY <2>1 DEF FreeIsEmpty
  <2>11. RoundsApart'
    BY <2>1, <2>6, <2>10 DEF RoundsApart, TypeOK, InUse
  <2> QED BY <2>1, <2>5, <2>8, <2>9, <2>11 DEF GrantInv
<1>5. CASE RefuseRequest(m)
  <2> DEFINE b == [type |-> "bye", round |-> r]
  <2>1. net' \subseteq net \union {b}
    BY <1>1, <1>5, WithSubset DEF RefuseRequest, Reply
  <2>2. b \in Message /\ b.type = "bye"
    BY DEF Message, Round
  <2> HIDE DEF b
  <2>3. net' \subseteq Message /\ NetInv'
    BY <2>1, <2>2 DEF TypeOK, NetInv
  <2> QED
    BY <1>5, <2>3 DEF RefuseRequest, serverVars, clientVars, TypeOK, GrantInv,
       FreeIsEmpty, RoundsApart, InUse
<1> QED BY <1>4, <1>5

\* A datagram that is counted.
LEMMA DataStep ==
  ASSUME BandwidthAssumption, IInv, NEW m \in net, RecvData(m)
  PROVE  IInv'
<1> USE DEF IInv
<1>1. m.type = "data" /\ m \in Message
  BY DEF RecvData, TypeOK
<1>2. m.id \in Session /\ m.round \in Round
  BY <1>1 DEF Message
<1>3. m.round[2] + 1 = checkid[m.id] /\ udpsessionuse[m.id]
  BY <1>1 DEF RecvData, Allowed, NetInv
<1>4. /\ counted' = [counted EXCEPT ![m.id] = @ \union {m.round}]
      /\ clientadd' = [clientadd EXCEPT ![m.id] =
                         IF counted[m.id] = {} THEN m.round ELSE @]
      /\ net' \subseteq net
      /\ UNCHANGED <<udpsessionuse, sessionnum, checkid, at, round, checktime, grant>>
  BY DEF RecvData, clientVars
<1>5. InUse' = InUse
  BY <1>4 DEF InUse
<1>6. TypeOK'
  BY <1>2, <1>4, <1>5 DEF TypeOK
<1>7. NetInv' /\ GrantInv'
  BY <1>4 DEF NetInv, GrantInv
<1>8. FreeIsEmpty'
  BY <1>2, <1>3, <1>4 DEF FreeIsEmpty, TypeOK
<1>9. RoundsApart'
  <2>1. ASSUME NEW i \in InUse
        PROVE  /\ \A r \in counted'[i] : r[2] + 1 = checkid[i]
               /\ counted'[i] # {} => clientadd'[i] \in counted'[i]
    <3>1. i \in Session
      BY DEF InUse
    <3>2. CASE i = m.id
      BY <1>2, <1>3, <1>4, <3>2 DEF RoundsApart, TypeOK
    <3>3. CASE i # m.id
      BY <1>2, <1>4, <3>1, <3>3 DEF RoundsApart, TypeOK
    <3> QED BY <3>2, <3>3
  <2> QED BY <1>4, <1>5, <2>1 DEF RoundsApart
<1> QED BY <1>6, <1>7, <1>8, <1>9

\* A step of a client.
LEMMA ClientStep ==
  ASSUME BandwidthAssumption, IInv, NEW c \in Client, ClientNext(c)
  PROVE  IInv'
<1> USE DEF IInv
<1>1. UNCHANGED serverVars
  BY DEF ClientNext, Request, CheckTimeout, SendData, SendEnds, WaitTimeout, RecvAck,
     RecvBye, RecvReport
<1>2. /\ InUse' = InUse
      /\ UNCHANGED <<udpsessionuse, sessionnum, checkid, counted, clientadd>>
  BY <1>1 DEF InUse, serverVars
<1>3. FreeIsEmpty' /\ RoundsApart'
  BY <1>2 DEF FreeIsEmpty, RoundsApart
<1>4. round[c] \in 0..(MaxRound - 1) /\ This(c) \in Round /\ round[c] + 1 \in Checkid
  <2>1. round[c] \in 0..(MaxRound - 1)
    BY DEF TypeOK
  <2> QED BY <2>1 DEF This, Round, Checkid, BandwidthAssumption
<1>5. This(c)[2] = round[c]
  BY DEF This
<1>6. 0 \in 0..MAX_CHECK_TIME
  BY DEF BandwidthAssumption
<1>7. NoGrant \in [id : Session, checkid : Checkid]
  BY DEF NoGrant, BandwidthAssumption, Session, Checkid
<1> DEFINE ClientOK ==
  /\ at \in [Client -> {"request", "ask", "send", "wait", "done"}]
  /\ round \in [Client -> 0..(MaxRound - 1)]
  /\ checktime \in [Client -> 0..MAX_CHECK_TIME]
  /\ grant \in [Client -> [id : Session, checkid : Checkid]]
<1>8. net' \subseteq Message /\ NetInv' /\ ClientOK' /\ GrantInv'
  <2>1. CASE Request(c)
    <3> DEFINE m == [type |-> "request", round |-> This(c)]
    <3>1. m \in Message /\ m.type = "request"
      BY <1>4 DEF Message
    <3>2. net' \subseteq net \union {m}
      BY <2>1, WithSubset DEF Request, Send
    <3> HIDE DEF m
    <3>3. net' \subseteq Message /\ NetInv'
      BY <3>1, <3>2 DEF TypeOK, NetInv
    <3> QED BY <2>1, <3>3 DEF Request, TypeOK, GrantInv
  <2>2. CASE CheckTimeout(c)
    <3>1. net' = net /\ round' = round /\ grant' = grant
      BY <2>2 DEF CheckTimeout
    <3>2. net' \subseteq Message /\ NetInv'
      BY <3>1 DEF TypeOK, NetInv
    <3>3. checktime[c] \in 0..MAX_CHECK_TIME
      BY DEF TypeOK
    <3>4. checktime[c] < MAX_CHECK_TIME => checktime[c] + 1 \in 0..MAX_CHECK_TIME
      BY <3>3 DEF BandwidthAssumption
    <3>5. /\ at' = [at EXCEPT ![c] = at'[c]]
          /\ at'[c] \in {"request", "done"}
          /\ checktime' = [checktime EXCEPT ![c] = checktime'[c]]
          /\ checktime'[c] \in 0..MAX_CHECK_TIME
      <4>1. CASE checktime[c] < MAX_CHECK_TIME
        BY <2>2, <3>4, <4>1 DEF CheckTimeout, TypeOK
      <4>2. CASE ~(checktime[c] < MAX_CHECK_TIME)
        BY <2>2, <1>6, <4>2 DEF CheckTimeout, TypeOK
      <4> QED BY <4>1, <4>2
    <3>6. ClientOK'
      BY <3>1, <3>5 DEF TypeOK
    <3>7. GrantInv'
      BY <3>1, <3>5 DEF GrantInv, TypeOK
    <3> QED BY <3>2, <3>6, <3>7
  <2>3. CASE SendData(c)
    <3> DEFINE m == [type |-> "data", round |-> This(c), id |-> grant[c].id,
                     checkid |-> grant[c].checkid]
    <3>1. grant[c] \in [id : Session, checkid : Checkid]
      BY DEF TypeOK
    <3>2. grant[c].checkid = round[c] + 1
      BY <2>3 DEF SendData, GrantInv
    <3>3. m \in Message /\ m.checkid = m.round[2] + 1
      BY <1>4, <1>5, <3>1, <3>2 DEF Message
    <3>4. net' \subseteq net \union {m}
      BY <2>3, WithSubset DEF SendData, Send
    <3> HIDE DEF m
    <3>5. net' \subseteq Message /\ NetInv'
      BY <3>3, <3>4 DEF TypeOK, NetInv
    <3> QED BY <2>3, <3>5 DEF SendData, clientVars, TypeOK, GrantInv
  <2>4. CASE SendEnds(c)
    BY <2>4, <1>7 DEF SendEnds, TypeOK, GrantInv, NetInv
  <2>5. CASE WaitTimeout(c)
    BY <2>5 DEF WaitTimeout, TypeOK, GrantInv, NetInv
  <2>6. ASSUME NEW m \in net, RecvAck(c, m)
       PROVE  net' \subseteq Message /\ NetInv' /\ ClientOK' /\ GrantInv'
    <3>1. m.type = "ack" /\ m.round = This(c) /\ m \in Message
      BY <2>6 DEF RecvAck, TypeOK
    <3>2. m.id \in Session /\ m.checkid \in Checkid
      BY <3>1 DEF Message
    <3>3. m.checkid = round[c] + 1
      BY <1>5, <3>1 DEF NetInv
    <3>4. /\ at' = [at EXCEPT ![c] = "send"]
          /\ grant' = [grant EXCEPT ![c] = [id |-> m.id, checkid |-> m.checkid]]
          /\ checktime' = [checktime EXCEPT ![c] = 0]
          /\ net' = net \ {m}
          /\ round' = round
      BY <2>6 DEF RecvAck
    <3>5. ClientOK'
      BY <1>6, <3>2, <3>4 DEF TypeOK
    <3>6. GrantInv'
      BY <3>3, <3>4 DEF TypeOK, GrantInv
    <3> QED BY <3>4, <3>5, <3>6 DEF TypeOK, NetInv
  <2>7. ASSUME NEW m \in net, RecvBye(c, m)
       PROVE  net' \subseteq Message /\ NetInv' /\ ClientOK' /\ GrantInv'
    BY <2>7, <1>6 DEF RecvBye, TypeOK, GrantInv, NetInv
  <2>8. ASSUME NEW m \in net, RecvReport(c, m)
       PROVE  net' \subseteq Message /\ NetInv' /\ ClientOK' /\ GrantInv'
    <3>1. round[c] < MaxRound - 1 => round[c] + 1 \in 0..(MaxRound - 1)
      BY <1>4 DEF BandwidthAssumption
    <3>2. /\ net' = net \ {m}
          /\ UNCHANGED <<checktime, grant>>
          /\ \/ /\ round[c] < MaxRound - 1
                /\ at' = [at EXCEPT ![c] = "request"]
                /\ round' = [round EXCEPT ![c] = round[c] + 1]
             \/ at' = [at EXCEPT ![c] = "done"] /\ UNCHANGED round
      BY <2>8 DEF RecvReport
    <3>3. ClientOK'
      BY <3>1, <3>2 DEF TypeOK
    <3>4. GrantInv'
      BY <3>2 DEF TypeOK, GrantInv
    <3> QED BY <3>2, <3>3, <3>4 DEF TypeOK, NetInv
  <2> HIDE DEF ClientOK
  <2> QED BY <2>1, <2>2, <2>3, <2>4, <2>5, <2>6, <2>7, <2>8 DEF ClientNext
<1>9. TypeOK'
  BY <1>2, <1>8 DEF TypeOK
<1> QED BY <1>3, <1>8, <1>9

LEMMA NextInv == ASSUME BandwidthAssumption, IInv, [Next]_vars PROVE IInv'
<1>1. CASE \E late \in SUBSET Session, sent \in BOOLEAN : udpupdatesession(late, sent)
  BY <1>1, UpdateStep
<1>2. ASSUME NEW m \in net, NEW i \in Session, RecvRequest(m, i) PROVE IInv'
  BY <1>2, RequestStep
<1>3. ASSUME NEW m \in net, RefuseRequest(m) PROVE IInv'
  <2>1. 0 \in Session
    BY DEF BandwidthAssumption, Session
  <2> QED BY <1>3, <2>1, RequestStep
<1>4. ASSUME NEW m \in net, RecvData(m) PROVE IInv'
  BY <1>4, DataStep
<1>5. ASSUME NEW c \in Client, ClientNext(c) PROVE IInv'
  BY <1>5, ClientStep
<1>6. ASSUME NEW m \in net, Lose(m) PROVE IInv'
  BY <1>6 DEF Lose, serverVars, clientVars, IInv, TypeOK, NetInv, GrantInv, FreeIsEmpty,
     RoundsApart, InUse
<1>7. CASE UNCHANGED vars
  BY <1>7 DEF vars, serverVars, clientVars, IInv, TypeOK, NetInv, GrantInv, FreeIsEmpty,
     RoundsApart, InUse
<1> QED BY <1>1, <1>2, <1>3, <1>4, <1>5, <1>6, <1>7 DEF Next, Server

\* IInv is an invariant of the specification.
THEOREM Invariance == Spec => []IInv
<1>1. Init => IInv
  BY InitInv, BandwidthAssumption
<1>2. IInv /\ [Next]_vars => IInv'
  BY NextInv, BandwidthAssumption
<1> QED BY <1>1, <1>2, PTL DEF Spec

\* The variables of server, clients and network keep their types, and sessionnum
\* (server.h) is the number of sessions in use.
THEOREM TypeCorrect == Spec => []TypeOK
<1>1. IInv => TypeOK
  BY DEF IInv
<1> QED BY <1>1, Invariance, PTL

\* A session counts no datagram that carries another measurement's checkid, although
\* places in the table are used again while datagrams of earlier ones are under way.
THEOREM RoundsCorrect == Spec => []RoundsApart
<1>1. IInv => RoundsApart
  BY DEF IInv
<1> QED BY <1>1, Invariance, PTL
=============================================================================
