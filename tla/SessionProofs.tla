---------------------------- MODULE SessionProofs ----------------------------
(***************************************************************************)
(* For any number of suppliers, any limit and any network: the types of a  *)
(* consumer's session, that it has somebody to ask, and that the address   *)
(* of the chosen supplier stays known.                                     *)
(*                                                                         *)
(* IInv says what the order of RestartQuery's assignments is for: the      *)
(* addresses are cleared while no other thread looks at them.              *)
(***************************************************************************)
EXTENDS Session, TLAPS

IInv == TypeOK /\ SomebodyToAsk

\* The processes that run, and ran, have UIDs.
LEMMA SeenType ==
  ASSUME SessionAssumption, TypeOK
  PROVE  /\ Running \subseteq UIDs /\ Seen \subseteq UIDs
         /\ \A s \in Supplier : UID(s) \in UIDs
<1>1. ASSUME NEW s \in Supplier PROVE UID(s) \in UIDs /\ {s} \X (1..life[s]) \subseteq UIDs
  BY <1>1 DEF TypeOK, UID, UIDs
<1> QED BY <1>1 DEF TypeOK, Running, Seen

LEMMA InitInv == ASSUME SessionAssumption, Init PROVE IInv
<1>1. nnsAlive \in Nat /\ MaxTimes \in Nat
  BY DEF SessionAssumption
<1>2. 0 \in 0..nnsAlive /\ 0 \in 0..MaxTimes
  BY <1>1
<1>3. /\ life \in [Supplier -> Nat \ {0}]
      /\ neighbor \in [Supplier -> 0..nnsAlive]
  BY <1>2 DEF Init
<1>4. {received, crashed} \subseteq BOOLEAN /\ restart \in {"idle", "clear", "query"}
  BY DEF Init
<1>5. /\ Status \in Statuses /\ Status # "ctsNotStarted"
      /\ supplierUID = NoSupplier /\ supplierDeque = {} /\ times = 0
      /\ up = Supplier /\ serves = {} /\ net = {} /\ stable = FALSE
  BY DEF Init, Statuses
<1> QED BY <1>2, <1>3, <1>4, <1>5 DEF IInv, TypeOK, SomebodyToAsk

\* HOW_ARE_YOU, heard by some, is counted from the top.
LEMMA HearType ==
  ASSUME SessionAssumption, TypeOK, NEW S \in SUBSET UIDs, Hear(S)
  PROVE  neighbor' \in [Supplier -> 0..nnsAlive]
<1>1. nnsAlive \in 0..nnsAlive
  BY DEF SessionAssumption
<1> QED BY <1>1 DEF Hear, TypeOK

\* Steps of the consumer's publication and receive threads.
LEMMA PublicationStep ==
  ASSUME SessionAssumption, IInv,
         \/ \E S \in SUBSET Seen : RecvQueryReply(S)
         \/ \E u \in Seen : Choose(u) \/ Refuse(u) \/ RecvStartTrans(u)
         \/ \E s \in Supplier : RecvData(s)
  PROVE  IInv'
<1> USE DEF IInv
<1>1. ASSUME NEW S \in SUBSET Seen, RecvQueryReply(S) PROVE IInv'
  <2>1. S \in SUBSET UIDs
    BY SeenType
  <2>2. S = {} => UNCHANGED <<Status, neighbor>>
    BY <1>1 DEF RecvQueryReply
  <2>3. neighbor' \in [Supplier -> 0..nnsAlive]
    BY <1>1, <2>1, HearType DEF RecvQueryReply, TypeOK
  <2>4. /\ Status' \in {"ctsTrackerQuery", "ctsNotStarted"}
       /\ Status' = "ctsNotStarted" => S # {}
    BY <1>1, <2>2 DEF RecvQueryReply
  <2> QED BY <1>1, <2>1, <2>3, <2>4 DEF RecvQueryReply, TypeOK, SomebodyToAsk, Statuses
<1>2. ASSUME NEW u \in Seen, Choose(u) PROVE IInv'
  BY <1>2, SeenType DEF Choose, TypeOK, SomebodyToAsk, Statuses, supplierVars
<1>3. ASSUME NEW u \in Seen, Refuse(u) PROVE IInv'
  BY <1>3 DEF Refuse, TypeOK, SomebodyToAsk, consumerVars, supplierVars
<1>4. ASSUME NEW u \in Seen, RecvStartTrans(u) PROVE IInv'
  BY <1>4 DEF RecvStartTrans, TypeOK, SomebodyToAsk, Statuses, supplierVars
<1>5. ASSUME NEW s \in Supplier, RecvData(s) PROVE IInv'
  BY <1>5 DEF RecvData, TypeOK, SomebodyToAsk, supplierVars
<1> QED BY <1>1, <1>2, <1>3, <1>4, <1>5

\* Steps of its timer.
LEMMA TimerStep ==
  ASSUME SessionAssumption, IInv, Consumer PROVE IInv'
<1> USE DEF IInv
<1>1. CASE NotStarted
  <2>1. PICK n \in Nat : n = MaxTimes
    BY DEF SessionAssumption
  <2>2. times \in 0..n
    BY <2>1 DEF TypeOK
  <2>3. times # n => times + 1 \in 0..n
    BY <2>2
  <2>4. times' \in 0..MaxTimes
    BY <1>1, <2>1, <2>2, <2>3 DEF NotStarted
  <2>5. net' \subseteq Message
    <3>1. CASE UNCHANGED net
      BY <3>1 DEF TypeOK
    <3>2. CASE DoYouHave(supplierDeque)
      <4>1. PICK asked \in SUBSET UIDs : net' = net \union {<<"I_HAVE", u>> : u \in asked}
        BY <3>2 DEF DoYouHave, TypeOK
      <4>2. {<<"I_HAVE", u>> : u \in asked} \subseteq Message
        BY DEF Message
      <4> QED BY <4>1, <4>2 DEF TypeOK
    <3> QED BY <1>1, <3>1, <3>2 DEF NotStarted
  <2>6. Status' \in {"ctsTrackerQuery", "ctsNotStarted"} /\ supplierDeque' = supplierDeque
    BY <1>1 DEF NotStarted
  <2>7. Status = "ctsNotStarted"
    BY <1>1 DEF NotStarted
  <2> QED
    BY <1>1, <2>4, <2>5, <2>6, <2>7 DEF NotStarted, TypeOK, SomebodyToAsk,
                                        Statuses, supplierVars
<1>2. CASE QueryFinished
  <2>1. net' \subseteq net \union {<<"PLEASE_START_TRANS", s>> : s \in up}
    BY <1>2 DEF QueryFinished
  <2>2. {<<"PLEASE_START_TRANS", s>> : s \in up} \subseteq Message
    BY DEF TypeOK, Message
  <2>3. net' \subseteq Message
    BY <2>1, <2>2 DEF TypeOK
  <2> QED BY <1>2, <2>3 DEF QueryFinished, TypeOK, SomebodyToAsk, supplierVars
<1>3. CASE Silence \/ Overflow
  BY <1>3 DEF Silence, Overflow, TypeOK, SomebodyToAsk, supplierVars
<1>4. CASE RestartClear
  BY <1>4 DEF RestartClear, TypeOK, SomebodyToAsk, supplierVars
<1>5. CASE RestartQuery
  <2>1. 0 \in 0..MaxTimes
    BY DEF SessionAssumption
  <2> QED BY <1>5, <2>1 DEF RestartQuery, TypeOK, SomebodyToAsk, Statuses,
                            supplierVars
<1> QED BY <1>1, <1>2, <1>3, <1>4, <1>5 DEF Consumer

\* Steps of the suppliers.
LEMMA SupplierStep ==
  ASSUME SessionAssumption, IInv, NEW s \in Supplier,
         \/ sayHello2Supplier(s) \/ RecvPleaseStartTrans(s) \/ CheckNeighbor(s)
         \/ GiveUp(s) \/ Stop(s) \/ Restart(s)
  PROVE  IInv'
<1> USE DEF IInv
<1>1. PICK n \in Nat : n = nnsAlive
  BY DEF SessionAssumption
<1>2. neighbor \in [Supplier -> 0..n]
  BY <1>1 DEF TypeOK
<1>3. CASE sayHello2Supplier(s)
  <2>1. neighbor' \in [Supplier -> 0..n]
    BY <1>1, <1>2, <1>3 DEF sayHello2Supplier
  <2> QED BY <1>1, <1>3, <2>1 DEF sayHello2Supplier, TypeOK, SomebodyToAsk,
                                  consumerVars
<1>4. CASE RecvPleaseStartTrans(s)
  <2>1. <<"START_TRANS", UID(s)>> \in Message
    BY SeenType DEF Message
  <2>2. net' \subseteq net \union {<<"START_TRANS", UID(s)>>}
    BY <1>4 DEF RecvPleaseStartTrans
  <2>3. net' \subseteq Message
    BY <2>1, <2>2 DEF TypeOK
  <2> QED BY <1>4, <2>3 DEF RecvPleaseStartTrans, TypeOK, SomebodyToAsk, consumerVars
<1>5. CASE CheckNeighbor(s)
  <2>1. neighbor[s] \in 0..n /\ neighbor[s] > 0
    BY <1>2, <1>5 DEF CheckNeighbor
  <2>2. neighbor[s] - 1 \in 0..n
    BY <2>1
  <2>3. neighbor' \in [Supplier -> 0..n]
    BY <1>2, <1>5, <2>2 DEF CheckNeighbor
  <2> QED BY <1>1, <1>5, <2>3 DEF CheckNeighbor, TypeOK, SomebodyToAsk, consumerVars
<1>6. CASE GiveUp(s)
  BY <1>6 DEF GiveUp, TypeOK, SomebodyToAsk, consumerVars
<1>7. CASE Stop(s)
  <2>1. neighbor' \in [Supplier -> 0..n]
    BY <1>2, <1>7 DEF Stop
  <2> QED BY <1>1, <1>7, <2>1 DEF Stop, TypeOK, SomebodyToAsk, consumerVars
<1>8. CASE Restart(s)
  <2>1. life' \in [Supplier -> Nat \ {0}]
    BY <1>8 DEF Restart, TypeOK
  <2> QED BY <1>8, <2>1 DEF Restart, TypeOK, SomebodyToAsk, consumerVars
<1> QED BY <1>3, <1>4, <1>5, <1>6, <1>7, <1>8

LEMMA NextInv ==
  ASSUME SessionAssumption, IInv, [Next]_vars PROVE IInv'
<1>1. CASE Next
  <2>1. CASE Consumer
    BY <2>1, TimerStep
  <2>2. CASE \E S \in SUBSET Seen : RecvQueryReply(S)
    BY <2>2, PublicationStep
  <2>3. CASE \/ \E u \in Seen : Choose(u) \/ Refuse(u) \/ RecvStartTrans(u)
             \/ \E s \in Supplier : RecvData(s)
    BY <2>3, PublicationStep
  <2>4. ASSUME NEW s \in Supplier,
               \/ sayHello2Supplier(s) \/ RecvPleaseStartTrans(s) \/ CheckNeighbor(s)
               \/ GiveUp(s) \/ Stop(s) \/ Restart(s)
        PROVE  IInv'
    BY <2>4, SupplierStep
  <2>5. ASSUME NEW m \in net, Lose(m) PROVE IInv'
    BY <2>5 DEF Lose, IInv, TypeOK, SomebodyToAsk, consumerVars, supplierVars
  <2>6. CASE Stabilise
    BY <2>6 DEF Stabilise, IInv, TypeOK, SomebodyToAsk, consumerVars, supplierVars
  <2> QED BY <1>1, <2>1, <2>2, <2>3, <2>4, <2>5, <2>6 DEF Next
<1>2. CASE UNCHANGED vars
  BY <1>2 DEF vars, consumerVars, supplierVars, IInv, TypeOK, SomebodyToAsk
<1> QED BY <1>1, <1>2

\* The types and SomebodyToAsk are inductive together.
THEOREM Invariance == Spec => []IInv
<1>1. Init => IInv
  BY InitInv, SessionAssumption
<1>2. IInv /\ [Next]_vars => IInv'
  BY NextInv, SessionAssumption
<1> QED BY <1>1, <1>2, PTL DEF Spec

\* The variables have their types: times stays in its bound, a status is one of the
\* four, and only suppliers that run send.
THEOREM TypeCorrect == Spec => []TypeOK
<1>1. IInv => TypeOK
  BY DEF IInv
<1> QED BY <1>1, Invariance, PTL

\* A consumer that asks its suppliers has some, whoever clears and fills the list.
THEOREM AskCorrect == Spec => []SomebodyToAsk
<1>1. IInv => SomebodyToAsk
  BY DEF IInv
<1> QED BY <1>1, Invariance, PTL

\* Who leaves the addresses and the choice alone, while PLEASE_START_TRANS is sent.
LEMMA AddressStep ==
  ASSUME Status = "ctsQueryFinished", supplierUID \in supplierDeque, [Next]_vars,
         Status' = "ctsQueryFinished"
  PROVE  supplierUID' \in supplierDeque'
<1>1. CASE Consumer
  BY <1>1 DEF Consumer, NotStarted, QueryFinished, Silence, Overflow, RestartClear, RestartQuery
<1>2. ASSUME NEW S, RecvQueryReply(S) PROVE supplierUID' \in supplierDeque'
  BY <1>2 DEF RecvQueryReply
<1>3. ASSUME NEW u \in Seen, Choose(u) \/ Refuse(u) \/ RecvStartTrans(u)
      PROVE  supplierUID' \in supplierDeque'
  BY <1>3 DEF Choose, Refuse, RecvStartTrans, consumerVars
<1>8. ASSUME NEW s \in Supplier, RecvData(s) PROVE supplierUID' \in supplierDeque'
  BY <1>8 DEF RecvData
<1>4. ASSUME NEW s \in Supplier,
             \/ sayHello2Supplier(s) \/ RecvPleaseStartTrans(s) \/ CheckNeighbor(s)
             \/ GiveUp(s) \/ Stop(s) \/ Restart(s)
      PROVE  supplierUID' \in supplierDeque'
  BY <1>4 DEF sayHello2Supplier, RecvPleaseStartTrans, CheckNeighbor, GiveUp, Stop, Restart,
     consumerVars
<1>5. ASSUME NEW m \in net, Lose(m) PROVE supplierUID' \in supplierDeque'
  BY <1>5 DEF Lose, consumerVars
<1>6. CASE Stabilise
  BY <1>6 DEF Stabilise, consumerVars
<1>7. CASE UNCHANGED vars
  BY <1>7 DEF vars, consumerVars
<1> QED BY <1>1, <1>2, <1>3, <1>4, <1>5, <1>6, <1>7, <1>8 DEF Next

\* The chosen supplier's address stays known, for any number of suppliers: no late answer
\* of the tracker replaces the list, and a restart clears it only with the status.
THEOREM AddressCorrect == Spec => AddressKept
<1>1. [Next]_vars =>
        [Status = "ctsQueryFinished" /\ supplierUID \in supplierDeque
           => (Status' = "ctsQueryFinished" => supplierUID' \in supplierDeque')]_vars
  BY AddressStep
<1> QED BY <1>1, PTL DEF Spec, AddressKept
=============================================================================
