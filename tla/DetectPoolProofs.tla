--------------------------- MODULE DetectPoolProofs ---------------------------
(***************************************************************************)
(* A free slot of the detectwang server has no open session, for any       *)
(* number of ports, sessions and requests: the order of the two threads'   *)
(* steps does what a lock on the sessions would.                           *)
(*                                                                         *)
(* FreeIsClosed is not inductive: it does not say what holds between       *)
(* clearsession and setfreesource, when the thread has closed a session    *)
(* whose slot is still handed out.  Handover does: the slot is the         *)
(* thread's until setfreesource, so the listener cannot be opening it.     *)
(*                                                                         *)
(* With it every step of the two threads is a step of SlotLease, where     *)
(* each slot has one owner at a time, or is not seen there at all.         *)
(***************************************************************************)
EXTENDS DetectPool, TLAPS

Closed(k) == ~udpsessionuse[k] /\ clientadd[k] = NoOne

\* Between clearsession and setfreesource.
Handover ==
  \A p \in Port :
    pc[p] \in {"reported", "unused"} =>
      /\ isuse[Leaving(p)]
      /\ Closed(Leaving(p))
      /\ listener = "set" => target # Leaving(p)

\* Between getfreesource and setsession.
Taken == listener = "set" => isuse[target] /\ Closed(target)

FreeClosed == \A k \in Slot : ~isuse[k] => Closed(k)

IInv == TypeOK /\ FreeClosed /\ Taken /\ Handover

LEMMA InitInv == ASSUME CountsAssumption, Init PROVE IInv
<1>1. 1 \in Port /\ 1 \in Session
  BY DEF CountsAssumption, Port, Session
<1>2. TypeOK
  <2>1. target \in Slot
    BY <1>1 DEF Init, Slot
  <2>2. /\ isuse \in [Slot -> BOOLEAN] /\ udpsessionuse \in [Slot -> BOOLEAN]
        /\ randid \in [Slot -> Nat] /\ clientadd \in [Slot -> Nat]
        /\ granted \subseteq Slot \X Nat
    BY DEF Init, NoOne
  <2>3. /\ m_pTask \in [Port -> BOOLEAN] /\ m_hEvent \in [Port -> BOOLEAN]
        /\ m_bIsThreadExit \in [Port -> 0..2] /\ pc \in [Port -> Place]
        /\ itemp \in [Port -> Session]
    BY <1>1 DEF Init, Place
  <2> QED BY <2>1, <2>2, <2>3 DEF Init, TypeOK
<1>3. FreeClosed /\ Taken /\ Handover
  BY DEF Init, FreeClosed, Taken, Handover, Closed, Slot, Port
<1> QED BY <1>2, <1>3 DEF IInv

\* The slot of a thread.
LEMMA LeavingSlot ==
  ASSUME TypeOK, NEW p \in Port
  PROVE  Leaving(p) \in Slot
BY DEF TypeOK, Leaving, Slot

\* Types.
LEMMA TypeStep == ASSUME CountsAssumption, TypeOK, Next PROVE TypeOK'
<1> USE DEF TypeOK, sessionVars, threadVars, listenerVars, Slot, NoOne, Place, Goto
<1>1. ASSUME NEW p \in Port, NextSession(p)
      PROVE  pc' \in [Port -> Place] /\ itemp' \in [Port -> Session]
  <2>1. PICK n \in Nat \ {0} : n = NSession
    BY DEF CountsAssumption
  <2>2. PICK i \in 1..n : i = itemp[p]
    BY <2>1 DEF Session
  <2>3. CASE i = n
    BY <1>1, <2>1, <2>2, <2>3 DEF NextSession
  <2>4. CASE i # n
    <3>1. pc' = [pc EXCEPT ![p] = "update"] /\ itemp' = [itemp EXCEPT ![p] = i + 1]
      BY <1>1, <2>1, <2>2, <2>4 DEF NextSession
    <3>2. i + 1 \in Session
      BY <2>1, <2>2, <2>4 DEF Session
    <3> QED BY <3>1, <3>2
  <2> QED BY <2>3, <2>4
<1>2. 1 \in Session
  BY DEF CountsAssumption, Session
<1>3. CASE ListenerNext
  <2>1. CASE GetFreeSource
    BY <2>1 DEF GetFreeSource
  <2>2. CASE SetSession
    BY <2>2 DEF SetSession
  <2>3. CASE SetRandid
    BY <2>3 DEF SetRandid
  <2>4. CASE AssignTask
    BY <2>4 DEF AssignTask
  <2>5. CASE StartTask
    BY <2>5 DEF StartTask
  <2>6. CASE \E lost \in BOOLEAN : Reply(lost)
    BY <2>6 DEF Reply
  <2>7. CASE ListenerStops
    BY <2>7 DEF ListenerStops
  <2>8. CASE \E p \in Port : AskExit(p)
    BY <2>8 DEF AskExit
  <2> QED BY <1>3, <2>1, <2>2, <2>3, <2>4, <2>5, <2>6, <2>7, <2>8 DEF ListenerNext
<1>4. ASSUME NEW p \in Port, ThreadNext(p) PROVE TypeOK'
  <2>1. CASE Wake(p)
    BY <2>1 DEF Wake
  <2>2. CASE Loop(p)
    BY <2>2, <1>2 DEF Loop
  <2>3. CASE UpdateNothing(p)
    BY <2>3, <1>1 DEF UpdateNothing
  <2>4. CASE Report(p)
    BY <2>4 DEF Report, ClearSession
  <2>5. CASE ReportFails(p)
    BY <2>5 DEF ReportFails
  <2>6. CASE ClearUnused(p)
    BY <2>6 DEF ClearUnused, ClearSession
  <2>7. CASE SetFreeSource(p)
    BY <2>7, <1>1 DEF SetFreeSource
  <2>8. CASE HaveUseSession(p)
    BY <2>8 DEF HaveUseSession
  <2>9. CASE RecvNothing(p)
    BY <2>9 DEF RecvNothing
  <2>10. ASSUME NEW k \in Slot, NEW n \in 1..drawn, RecvData(p, k, n) PROVE TypeOK'
    BY <2>10 DEF RecvData
  <2>11. CASE EndTask(p)
    BY <2>11 DEF EndTask
  <2>12. CASE ThreadExits(p)
    BY <2>12 DEF ThreadExits
  <2> QED
    BY <1>4, <2>1, <2>2, <2>3, <2>4, <2>5, <2>6, <2>7, <2>8, <2>9, <2>10, <2>11,
       <2>12 DEF ThreadNext
<1>5. ASSUME NEW p \in Port, SelectFails(p) PROVE TypeOK'
  BY <1>5 DEF SelectFails
<1> QED BY <1>3, <1>4, <1>5 DEF Next, ReliableNext

\* The listener's steps.
LEMMA ListenerStep ==
  ASSUME IInv, TypeOK', ListenerNext
  PROVE  FreeClosed' /\ Taken' /\ Handover'
<1> USE DEF IInv, FreeClosed, Taken, Handover, Closed, Leaving, sessionVars,
            threadVars, listenerVars
<1>1. CASE GetFreeSource
  <2>1. PICK k \in Slot : /\ FirstFree(k)
                          /\ isuse' = [isuse EXCEPT ![k] = TRUE]
                          /\ target' = k
    BY <1>1 DEF GetFreeSource
  <2>2. ~isuse[k] /\ isuse'[k]
    BY <2>1 DEF FirstFree, TypeOK
  <2>3. \A j \in Slot : isuse[j] => isuse'[j]
    BY <2>1 DEF TypeOK
  <2>4. \A p \in Port : Leaving(p) \in Slot
    BY LeavingSlot
  <2> QED BY <1>1, <2>1, <2>2, <2>3, <2>4 DEF GetFreeSource
<1>2. CASE SetSession
  <2>1. \A p \in Port : Leaving(p) \in Slot
    BY LeavingSlot
  <2>2. target \in Slot
    BY DEF TypeOK
  <2>3. \A j \in Slot : j # target => udpsessionuse'[j] = udpsessionuse[j]
    BY <1>2 DEF SetSession, TypeOK
  <2>4. /\ listener = "set" /\ listener' # "set"
        /\ isuse' = isuse /\ clientadd' = clientadd
        /\ pc' = pc /\ itemp' = itemp
    BY <1>2 DEF SetSession
  <2>5. FreeClosed'
    BY <2>2, <2>3, <2>4
  <2>6. Handover'
    BY <2>1, <2>3, <2>4
  <2> QED BY <2>4, <2>5, <2>6
<1>3. CASE SetRandid
  BY <1>3 DEF SetRandid
<1>4. CASE AssignTask
  BY <1>4 DEF AssignTask
<1>5. CASE StartTask
  BY <1>5 DEF StartTask
<1>6. CASE \E lost \in BOOLEAN : Reply(lost)
  BY <1>6 DEF Reply
<1>7. CASE ListenerStops
  BY <1>7 DEF ListenerStops
<1>8. CASE \E p \in Port : AskExit(p)
  BY <1>8 DEF AskExit
<1> QED
  BY <1>1, <1>2, <1>3, <1>4, <1>5, <1>6, <1>7, <1>8 DEF ListenerNext

\* A step of thread p that closes nothing, opens nothing and frees nothing.
LEMMA ThreadKeeps ==
  ASSUME IInv, TypeOK', NEW p \in Port,
         UNCHANGED <<isuse, udpsessionuse, clientadd, listener, target>>,
         \A q \in Port \ {p} : pc'[q] = pc[q] /\ itemp'[q] = itemp[q],
         pc'[p] \notin {"reported", "unused"}
  PROVE  FreeClosed' /\ Taken' /\ Handover'
BY DEF IInv, FreeClosed, Taken, Handover, Closed, Leaving

\* Clearing the open session the thread is at: its slot stays handed out.
LEMMA ThreadClears ==
  ASSUME IInv, TypeOK', NEW p \in Port,
         pc[p] = "update",
         udpsessionuse[Leaving(p)],
         ClearSession(Leaving(p)),
         UNCHANGED <<isuse, listener, target, itemp>>,
         \A q \in Port \ {p} : pc'[q] = pc[q]
  PROVE  FreeClosed' /\ Taken' /\ Handover'
<1>1. \A q \in Port : Leaving(q) \in Slot
  BY LeavingSlot DEF IInv
<1>2. \A j \in Slot : Closed(j) => Closed(j)'
  BY <1>1 DEF ClearSession, Closed, IInv, TypeOK, NoOne
<1>3. Closed(Leaving(p))'
  BY <1>1 DEF ClearSession, Closed, IInv, TypeOK, Leaving, NoOne
<1>4. isuse[Leaving(p)] /\ (listener = "set" => target # Leaving(p))
  BY <1>1 DEF IInv, FreeClosed, Taken, Closed
<1>5. \A q \in Port : Leaving(q)' = Leaving(q)
  BY DEF Leaving
<1>6. FreeClosed'
  BY <1>2 DEF IInv, FreeClosed
<1>7. Taken'
  BY <1>2 DEF IInv, Taken, TypeOK
<1>8. Handover'
  <2> SUFFICES ASSUME NEW q \in Port, pc'[q] \in {"reported", "unused"}
               PROVE  /\ isuse[Leaving(q)]
                      /\ Closed(Leaving(q))'
                      /\ listener = "set" => target # Leaving(q)
    BY <1>5 DEF Handover, Leaving
  <2>1. CASE q = p
    BY <2>1, <1>3, <1>4
  <2>2. CASE q # p
    <3>1. Closed(Leaving(q)) /\ Leaving(q) \in Slot
      BY <2>2, <1>1 DEF IInv, Handover
    <3>2. Closed(Leaving(q))'
      BY <3>1, <1>2, <1>5 DEF Leaving
    <3> QED BY <2>2, <3>2 DEF IInv, Handover
  <2> QED BY <2>1, <2>2
<1> QED BY <1>6, <1>7, <1>8

\* setfreesource gives back a closed slot that the listener is not opening.
LEMMA ThreadFrees ==
  ASSUME IInv, TypeOK', NEW p \in Port, SetFreeSource(p)
  PROVE  FreeClosed' /\ Taken' /\ Handover'
<1>1. \A q \in Port : Leaving(q) \in Slot
  BY LeavingSlot DEF IInv
<1>2. /\ isuse' = [isuse EXCEPT ![Leaving(p)] = FALSE]
      /\ UNCHANGED <<udpsessionuse, clientadd, listener, target>>
      /\ pc[p] \in {"reported", "unused"}
  BY DEF SetFreeSource, Leaving, sessionVars, listenerVars
<1>3. /\ \A q \in Port \ {p} : pc'[q] = pc[q] /\ itemp'[q] = itemp[q]
      /\ pc'[p] \in {"check", "update"}
  BY DEF SetFreeSource, NextSession, Goto, IInv, TypeOK
<1>4. \A j \in Slot : j # Leaving(p) => isuse'[j] = isuse[j]
  BY <1>2 DEF IInv, TypeOK
<1>5. Closed(Leaving(p)) /\ (listener = "set" => target # Leaving(p))
  BY <1>2 DEF IInv, Handover
<1>6. FreeClosed'
  BY <1>2, <1>4, <1>5 DEF IInv, FreeClosed, Closed
<1>7. Taken'
  BY <1>2, <1>4, <1>5 DEF IInv, Taken, Closed, TypeOK
<1>8. \A q \in Port \ {p} : Leaving(q)' = Leaving(q) /\ Leaving(q) # Leaving(p)
  BY <1>3 DEF Leaving
<1>9. Handover'
  BY <1>1, <1>2, <1>3, <1>4, <1>8 DEF IInv, Handover, Closed, Leaving
<1> QED BY <1>6, <1>7, <1>9

\* The first datagram of an open session fixes its address: the slot of an open
\* session is neither free, nor about to be freed, nor being opened.
LEMMA ThreadReceives ==
  ASSUME IInv, TypeOK', NEW p \in Port, NEW k \in Slot, NEW n \in 1..drawn,
         RecvData(p, k, n)
  PROVE  FreeClosed' /\ Taken' /\ Handover'
<1>1. \A q \in Port : Leaving(q) \in Slot
  BY LeavingSlot DEF IInv
<1>2. /\ UNCHANGED <<isuse, udpsessionuse, listener, target, itemp>>
      /\ udpsessionuse[k]
      /\ \A j \in Slot : j # k => clientadd'[j] = clientadd[j]
  BY DEF RecvData, sessionVars, listenerVars, IInv, TypeOK
<1>3. /\ \A q \in Port \ {p} : pc'[q] = pc[q]
      /\ pc'[p] = "loop"
  BY DEF RecvData, Goto, IInv, TypeOK
<1>4. \A j \in Slot : Closed(j) => Closed(j)'
  BY <1>2 DEF Closed
<1>5. FreeClosed' /\ Taken'
  BY <1>2, <1>4 DEF IInv, FreeClosed, Taken, TypeOK
<1>6. Handover'
  BY <1>1, <1>2, <1>3 DEF IInv, Handover, Closed, Leaving
<1> QED BY <1>5, <1>6

\* The steps of the thread of port p.
LEMMA ThreadStep ==
  ASSUME IInv, TypeOK', NEW p \in Port, ThreadNext(p) \/ SelectFails(p)
  PROVE  FreeClosed' /\ Taken' /\ Handover'
<1> USE DEF sessionVars, threadVars, listenerVars, Goto
<1>0. pc \in [Port -> Place] /\ itemp \in [Port -> Session]
  BY DEF IInv, TypeOK
<1>1. CASE Wake(p)
  BY <1>0, <1>1, ThreadKeeps DEF Wake
<1>2. CASE Loop(p)
  BY <1>0, <1>2, ThreadKeeps DEF Loop
<1>3. CASE UpdateNothing(p)
  BY <1>0, <1>3, ThreadKeeps DEF UpdateNothing, NextSession
<1>4. CASE Report(p)
  BY <1>0, <1>4, ThreadClears DEF Report, Leaving
<1>5. CASE ReportFails(p)
  BY <1>0, <1>5, ThreadKeeps DEF ReportFails
<1>6. CASE ClearUnused(p)
  BY <1>0, <1>6, ThreadClears DEF ClearUnused, Leaving
<1>7. CASE SetFreeSource(p)
  BY <1>7, ThreadFrees
<1>8. CASE HaveUseSession(p)
  BY <1>0, <1>8, ThreadKeeps DEF HaveUseSession
<1>9. CASE RecvNothing(p)
  BY <1>0, <1>9, ThreadKeeps DEF RecvNothing
<1>10. CASE \E k \in Slot, n \in 1..drawn : RecvData(p, k, n)
  BY <1>10, ThreadReceives
<1>11. CASE EndTask(p)
  BY <1>0, <1>11, ThreadKeeps DEF EndTask
<1>12. CASE ThreadExits(p)
  BY <1>0, <1>12, ThreadKeeps DEF ThreadExits
<1>13. CASE SelectFails(p)
  BY <1>0, <1>13, ThreadKeeps DEF SelectFails
<1> QED
  BY <1>1, <1>2, <1>3, <1>4, <1>5, <1>6, <1>7, <1>8, <1>9, <1>10, <1>11, <1>12,
     <1>13 DEF ThreadNext

LEMMA NextInv == ASSUME CountsAssumption, IInv, [Next]_vars PROVE IInv'
<1>1. CASE Next
  <2>1. TypeOK'
    BY <1>1, TypeStep DEF IInv
  <2>2. CASE ListenerNext
    BY <2>1, <2>2, ListenerStep DEF IInv
  <2>3. ASSUME NEW p \in Port, ThreadNext(p) \/ SelectFails(p) PROVE IInv'
    BY <2>1, <2>3, ThreadStep DEF IInv
  <2> QED BY <1>1, <2>2, <2>3 DEF Next, ReliableNext
<1>2. CASE UNCHANGED vars
  BY <1>2 DEF vars, sessionVars, threadVars, listenerVars, IInv, TypeOK, FreeClosed,
     Taken, Handover, Closed, Leaving
<1> QED BY <1>1, <1>2

\* The inductive invariant holds in every reachable state.
THEOREM Invariance == Spec => []IInv
<1>1. Init => IInv
  BY CountsAssumption, InitInv
<1>2. IInv /\ [Next]_vars => IInv'
  BY CountsAssumption, NextInv
<1> QED BY <1>1, <1>2, PTL DEF Spec

\* The types of the slots, the sessions and the threads.
THEOREM TypeCorrect == Spec => []TypeOK
<1>1. IInv => TypeOK
  BY DEF IInv
<1> QED BY <1>1, Invariance, PTL

\* getfreesource never hands out a slot whose session is open, and setsession
\* never fails, although nobody locks the sessions.
THEOREM FreeCorrect == Spec => []FreeIsClosed
<1>1. IInv => FreeIsClosed
  BY DEF IInv, FreeClosed, Taken, Closed, FreeIsClosed
<1> QED BY <1>1, Invariance, PTL

-----------------------------------------------------------------------------
(* The slots are handed over as SlotLease says.                            *)

AllLeases == [k \in Slot |-> Lease(k)]

\* The slot is between clearsession and setfreesource.
Leaves(k) == pc[k[1]] \in {"reported", "unused"} /\ k = Leaving(k[1])

\* What a slot's lease depends on.
LEMMA LeaseOther ==
  ASSUME NEW k \in Slot,
         isuse'[k] = isuse[k], udpsessionuse'[k] = udpsessionuse[k],
         (listener' = "set" /\ target' = k) <=> (listener = "set" /\ target = k),
         Leaves(k)' <=> Leaves(k)
  PROVE  Lease(k)' = Lease(k)
BY DEF Lease, Leaves

\* One slot's lease becomes v.
LEMMA LeaseBecomes ==
  ASSUME NEW k \in Slot, NEW v, Lease(k)' = v,
         \A j \in Slot : j # k => Lease(j)' = Lease(j)
  PROVE  AllLeases' = [AllLeases EXCEPT ![k] = v]
<1> DEFINE f == [AllLeases EXCEPT ![k] = v]
<1>1. \A j \in Slot : Lease(j)' = f[j]
  BY DEF AllLeases
<1>2. f = [j \in Slot |-> f[j]]
  BY DEF AllLeases
<1>3. AllLeases' = [j \in Slot |-> f[j]]
  <2> HIDE DEF f
  <2> QED BY <1>1 DEF AllLeases
<1> QED BY <1>2, <1>3

LEMMA LeasesStay ==
  ASSUME \A j \in Slot : Lease(j)' = Lease(j)
  PROVE  AllLeases' = AllLeases
BY DEF AllLeases

\* The abstract step in terms of the leases.
LEMMA AbstractStep ==
  ASSUME \/ AllLeases' = AllLeases /\ clientadd' = clientadd
         \/ \E k \in Slot :
              \/ /\ \A j \in Slot : Lease(j) # "granted"
                 /\ Lease(k) = "free" /\ AllLeases' = [AllLeases EXCEPT ![k] = "granted"]
                 /\ UNCHANGED clientadd
              \/ /\ Lease(k) = "granted" /\ AllLeases' = [AllLeases EXCEPT ![k] = "open"]
                 /\ UNCHANGED clientadd
              \/ /\ Lease(k) = "open" /\ clientadd[k] = NoOne /\ AllLeases' = AllLeases
                 /\ clientadd' = [clientadd EXCEPT ![k] = clientadd'[k]]
              \/ /\ Lease(k) = "open" /\ AllLeases' = [AllLeases EXCEPT ![k] = "closing"]
                 /\ clientadd' = [clientadd EXCEPT ![k] = NoOne]
              \/ /\ Lease(k) = "closing" /\ AllLeases' = [AllLeases EXCEPT ![k] = "free"]
                 /\ UNCHANGED clientadd
  PROVE  [Slots!Next]_Slots!vars
<1>1. \A k \in Slot : AllLeases[k] = Lease(k)
  BY DEF AllLeases
<1>2. CASE AllLeases' = AllLeases /\ clientadd' = clientadd
  BY <1>2 DEF Slots!vars, AllLeases
<1>3. ASSUME NEW k \in Slot, \A j \in Slot : Lease(j) # "granted", Lease(k) = "free",
             AllLeases' = [AllLeases EXCEPT ![k] = "granted"], UNCHANGED clientadd
      PROVE  Slots!Next
  <2>1. Slots!Grant(k)
    BY <1>1, <1>3 DEF Slots!Grant, Slots!Becomes, AllLeases
  <2> QED BY <2>1 DEF Slots!Next
<1>4. ASSUME NEW k \in Slot, Lease(k) = "granted",
             AllLeases' = [AllLeases EXCEPT ![k] = "open"], UNCHANGED clientadd
      PROVE  Slots!Next
  <2>1. Slots!Open(k)
    BY <1>1, <1>4 DEF Slots!Open, Slots!Becomes, AllLeases
  <2> QED BY <2>1 DEF Slots!Next
<1>5. ASSUME NEW k \in Slot, Lease(k) = "open", clientadd[k] = NoOne,
             AllLeases' = AllLeases, clientadd' = [clientadd EXCEPT ![k] = clientadd'[k]]
      PROVE  Slots!Next
  <2>1. Slots!Address(k)
    BY <1>1, <1>5 DEF Slots!Address, AllLeases
  <2> QED BY <2>1 DEF Slots!Next
<1>6. ASSUME NEW k \in Slot, Lease(k) = "open",
             AllLeases' = [AllLeases EXCEPT ![k] = "closing"],
             clientadd' = [clientadd EXCEPT ![k] = NoOne]
      PROVE  Slots!Next
  <2>1. Slots!Close(k)
    BY <1>1, <1>6 DEF Slots!Close, Slots!Becomes, AllLeases
  <2> QED BY <2>1 DEF Slots!Next
<1>7. ASSUME NEW k \in Slot, Lease(k) = "closing",
             AllLeases' = [AllLeases EXCEPT ![k] = "free"], UNCHANGED clientadd
      PROVE  Slots!Next
  <2>1. Slots!Free(k)
    BY <1>1, <1>7 DEF Slots!Free, Slots!Becomes, AllLeases
  <2> QED BY <2>1 DEF Slots!Next
<1> QED BY <1>2, <1>3, <1>4, <1>5, <1>6, <1>7

\* getfreesource grants a free slot, when nobody else is being granted one.
LEMMA GetGrants ==
  ASSUME IInv, GetFreeSource PROVE [Slots!Next]_Slots!vars
<1>1. PICK k \in Slot : FirstFree(k) /\ isuse' = [isuse EXCEPT ![k] = TRUE] /\ target' = k
  BY DEF GetFreeSource
<1>2. /\ listener = "recv" /\ listener' = "set"
      /\ UNCHANGED <<udpsessionuse, clientadd, pc, itemp>>
  BY DEF GetFreeSource, sessionVars, threadVars
<1>3. ~isuse[k] /\ ~udpsessionuse[k] /\ isuse'[k] /\ isuse \in [Slot -> BOOLEAN]
  BY <1>1 DEF FirstFree, IInv, FreeClosed, Closed, TypeOK
<1>4. Lease(k) = "free" /\ Lease(k)' = "granted"
  BY <1>1, <1>2, <1>3 DEF Lease
<1>5. \A j \in Slot : Lease(j) # "granted"
  BY <1>2 DEF Lease
<1>6. ASSUME NEW j \in Slot, j # k PROVE Lease(j)' = Lease(j)
  <2>1. isuse'[j] = isuse[j]
    BY <1>1, <1>3, <1>6
  <2> QED BY <1>1, <1>2, <1>6, <2>1, LeaseOther DEF Leaves, Leaving
<1>7. AllLeases' = [AllLeases EXCEPT ![k] = "granted"]
  BY <1>4, <1>6, LeaseBecomes
<1> QED BY <1>2, <1>4, <1>5, <1>7, AbstractStep

\* setsession opens the slot that was granted.
LEMMA SetOpens ==
  ASSUME IInv, SetSession PROVE [Slots!Next]_Slots!vars
<1>1. target \in Slot /\ isuse[target] /\ ~udpsessionuse[target]
      /\ udpsessionuse \in [Slot -> BOOLEAN]
  BY DEF IInv, Taken, Closed, TypeOK, SetSession
<1>2. /\ listener = "set" /\ listener' = "randid"
      /\ udpsessionuse' = [udpsessionuse EXCEPT ![target] = TRUE]
      /\ UNCHANGED <<isuse, target, clientadd, pc, itemp>>
  BY <1>1 DEF SetSession, threadVars
<1>3. Lease(target) = "granted"
  BY <1>1, <1>2 DEF Lease
<1>4. PICK k \in Slot : k = target
  BY <1>1
<1>5. Lease(k)' = "open"
  BY <1>1, <1>2, <1>4 DEF Lease
<1>6. ASSUME NEW j \in Slot, j # k PROVE Lease(j)' = Lease(j)
  <2>1. udpsessionuse'[j] = udpsessionuse[j]
    BY <1>1, <1>2, <1>4, <1>6
  <2> QED BY <1>2, <1>4, <1>6, <2>1, LeaseOther DEF Leaves, Leaving
<1>7. AllLeases' = [AllLeases EXCEPT ![k] = "open"]
  BY <1>5, <1>6, LeaseBecomes
<1> QED BY <1>2, <1>3, <1>4, <1>7, AbstractStep

\* The other steps of the listener are not seen.
LEMMA ListenerElse ==
  ASSUME SetRandid \/ AssignTask \/ StartTask \/ (\E lost \in BOOLEAN : Reply(lost))
         \/ ListenerStops \/ \E p \in Port : AskExit(p)
  PROVE  [Slots!Next]_Slots!vars
<1>1. /\ listener # "set" /\ listener' # "set"
      /\ UNCHANGED <<isuse, udpsessionuse, clientadd, pc, itemp>>
  BY DEF SetRandid, AssignTask, StartTask, Reply, ListenerStops, AskExit, sessionVars,
         threadVars, listenerVars
<1>2. \A j \in Slot : Lease(j)' = Lease(j)
  BY <1>1, LeaseOther DEF Leaves, Leaving
<1>3. AllLeases' = AllLeases
  BY <1>2, LeasesStay
<1> QED BY <1>1, <1>3, AbstractStep

\* Neither are those of a thread that is not at a session's end.
LEMMA ThreadUnseen ==
  ASSUME IInv, NEW p \in Port,
         UNCHANGED <<isuse, udpsessionuse, listener, target>>,
         \A q \in Port \ {p} : pc'[q] = pc[q] /\ itemp'[q] = itemp[q],
         pc[p] \notin {"reported", "unused"}, pc'[p] \notin {"reported", "unused"}
  PROVE  AllLeases' = AllLeases
<1>1. ASSUME NEW j \in Slot PROVE Lease(j)' = Lease(j)
  <2>1. j[1] \in Port
    BY DEF Slot
  <2>2. Leaves(j)' <=> Leaves(j)
    BY <2>1 DEF Leaves, Leaving
  <2> QED BY <2>2, LeaseOther
<1> QED BY <1>1, LeasesStay

\* clearsession closes an open slot.
LEMMA ThreadCloses ==
  ASSUME IInv, NEW p \in Port, Report(p) \/ ClearUnused(p)
  PROVE  [Slots!Next]_Slots!vars
<1>1. PICK k \in Slot : k = Leaving(p)
  BY LeavingSlot DEF IInv
<1>2. /\ pc[p] = "update" /\ udpsessionuse[k]
      /\ udpsessionuse' = [udpsessionuse EXCEPT ![k] = FALSE]
      /\ clientadd' = [clientadd EXCEPT ![k] = NoOne]
      /\ UNCHANGED <<isuse, itemp, listener, target>>
  BY <1>1 DEF Report, ClearUnused, ClearSession, Leaving, listenerVars
<1>3. pc'[p] \in {"reported", "unused"} /\ \A q \in Port \ {p} : pc'[q] = pc[q]
  BY DEF Report, ClearUnused, Goto, IInv, TypeOK
<1>4. udpsessionuse \in [Slot -> BOOLEAN]
  BY DEF IInv, TypeOK
<1>5. isuse[k] /\ (listener = "set" => target # k)
  BY <1>2 DEF IInv, FreeClosed, Taken, Closed
<1>6. Lease(k) = "open"
  BY <1>2, <1>5 DEF Lease
<1>7. Lease(k)' = "closing"
  <2>1. k[1] = p /\ k = <<p, itemp'[p]>>
    BY <1>1, <1>2 DEF Leaving
  <2>2. ~udpsessionuse'[k]
    BY <1>2, <1>4
  <2> QED BY <1>2, <1>3, <1>5, <2>1, <2>2 DEF Lease, Leaving
<1>8. ASSUME NEW j \in Slot, j # k PROVE Lease(j)' = Lease(j)
  <2>1. udpsessionuse'[j] = udpsessionuse[j]
    BY <1>2, <1>4, <1>8
  <2>2. j[1] \in Port
    BY DEF Slot
  <2>3. Leaves(j)' <=> Leaves(j)
    <3>1. CASE j[1] = p
      BY <1>1, <1>2, <1>8, <3>1 DEF Leaves, Leaving
    <3>2. CASE j[1] # p
      BY <1>2, <1>3, <2>2, <3>2 DEF Leaves, Leaving
    <3> QED BY <3>1, <3>2
  <2> QED BY <1>2, <2>1, <2>3, LeaseOther
<1>9. AllLeases' = [AllLeases EXCEPT ![k] = "closing"]
  BY <1>7, <1>8, LeaseBecomes
<1> QED BY <1>2, <1>6, <1>9, AbstractStep

\* setfreesource frees a slot that was closed.
LEMMA ThreadLets ==
  ASSUME IInv, NEW p \in Port, SetFreeSource(p)
  PROVE  [Slots!Next]_Slots!vars
<1>1. PICK k \in Slot : k = Leaving(p)
  BY LeavingSlot DEF IInv
<1>2. /\ pc[p] \in {"reported", "unused"}
      /\ isuse' = [isuse EXCEPT ![k] = FALSE]
      /\ UNCHANGED <<udpsessionuse, clientadd, listener, target>>
  BY <1>1 DEF SetFreeSource, Leaving, sessionVars, listenerVars
<1>3. /\ pc'[p] \notin {"reported", "unused"}
      /\ \A q \in Port \ {p} : pc'[q] = pc[q] /\ itemp'[q] = itemp[q]
  BY DEF SetFreeSource, NextSession, Goto, IInv, TypeOK
<1>4. isuse \in [Slot -> BOOLEAN]
  BY DEF IInv, TypeOK
<1>5. isuse[k] /\ ~udpsessionuse[k] /\ ~(listener = "set" /\ target = k)
  BY <1>1, <1>2 DEF IInv, Handover, Closed
<1>6. Lease(k) = "closing"
  <2>1. k[1] = p
    BY <1>1 DEF Leaving
  <2> QED BY <1>1, <1>2, <1>5, <2>1 DEF Lease
<1>7. Lease(k)' = "free"
  <2>1. ~isuse'[k] /\ ~udpsessionuse'[k]
    BY <1>2, <1>4, <1>5
  <2> QED BY <2>1 DEF Lease
<1>8. ASSUME NEW j \in Slot, j # k PROVE Lease(j)' = Lease(j)
  <2>1. isuse'[j] = isuse[j]
    BY <1>2, <1>4, <1>8
  <2>2. j[1] \in Port
    BY DEF Slot
  <2>3. Leaves(j)' <=> Leaves(j)
    <3>1. CASE j[1] = p
      BY <1>1, <1>3, <1>8, <3>1 DEF Leaves
    <3>2. CASE j[1] # p
      BY <1>3, <2>2, <3>2 DEF Leaves, Leaving
    <3> QED BY <3>1, <3>2
  <2> QED BY <1>2, <2>1, <2>3, LeaseOther
<1>9. AllLeases' = [AllLeases EXCEPT ![k] = "free"]
  BY <1>7, <1>8, LeaseBecomes
<1> QED BY <1>2, <1>6, <1>9, AbstractStep

\* The first datagram gives an open slot its address; later ones do not change it.
LEMMA ThreadAddresses ==
  ASSUME IInv, NEW p \in Port, NEW k \in Slot, NEW n \in 1..drawn, RecvData(p, k, n)
  PROVE  [Slots!Next]_Slots!vars
<1>1. /\ pc[p] = "select" /\ udpsessionuse[k]
      /\ clientadd' = [clientadd EXCEPT ![k] = IF @ = NoOne THEN n ELSE @]
      /\ UNCHANGED <<isuse, udpsessionuse, itemp, listener, target>>
  BY DEF RecvData, listenerVars
<1>2. pc'[p] = "loop" /\ \A q \in Port \ {p} : pc'[q] = pc[q]
  BY DEF RecvData, Goto, IInv, TypeOK
<1>3. AllLeases' = AllLeases
  BY <1>1, <1>2, ThreadUnseen
<1>4. Lease(k) = "open"
  BY <1>1 DEF IInv, FreeClosed, Closed, Lease
<1>5. clientadd \in [Slot -> Nat]
  BY DEF IInv, TypeOK
<1>6. CASE clientadd[k] = NoOne
  <2>1. clientadd' = [clientadd EXCEPT ![k] = clientadd'[k]]
    BY <1>1, <1>5
  <2> QED BY <1>3, <1>4, <1>6, <2>1, AbstractStep
<1>7. CASE clientadd[k] # NoOne
  <2>1. clientadd' = clientadd
    BY <1>1, <1>5, <1>7
  <2> QED BY <1>3, <2>1, AbstractStep
<1> QED BY <1>6, <1>7

\* Every step of the two threads is one of SlotLease, or is not seen there.
LEMMA LeaseStep ==
  ASSUME IInv, [Next]_vars PROVE [Slots!Next]_Slots!vars
<1>1. CASE UNCHANGED vars
  <2>1. \A j \in Slot : Lease(j)' = Lease(j)
    BY <1>1, LeaseOther DEF vars, sessionVars, threadVars, listenerVars, Leaves, Leaving
  <2>2. clientadd' = clientadd
    BY <1>1 DEF vars, sessionVars
  <2> QED BY <2>1, <2>2, LeasesStay, AbstractStep
<1>2. CASE ListenerNext
  BY <1>2, GetGrants, SetOpens, ListenerElse DEF ListenerNext
<1>3. ASSUME NEW p \in Port, ThreadNext(p) \/ SelectFails(p)
      PROVE  [Slots!Next]_Slots!vars
  <2>1. CASE Report(p) \/ ClearUnused(p)
    BY <2>1, ThreadCloses
  <2>2. CASE SetFreeSource(p)
    BY <2>2, ThreadLets
  <2>3. CASE \E k \in Slot, n \in 1..drawn : RecvData(p, k, n)
    BY <2>3, ThreadAddresses
  <2>4. CASE Wake(p) \/ Loop(p) \/ UpdateNothing(p) \/ ReportFails(p) \/ HaveUseSession(p)
             \/ RecvNothing(p) \/ EndTask(p) \/ ThreadExits(p) \/ SelectFails(p)
    <3>1. UNCHANGED <<isuse, udpsessionuse, clientadd, listener, target>>
      BY <2>4 DEF Wake, Loop, UpdateNothing, ReportFails, HaveUseSession, RecvNothing,
                  EndTask, ThreadExits, SelectFails, sessionVars, listenerVars
    <3>2. pc[p] \notin {"reported", "unused"}
      BY <2>4 DEF Wake, Loop, UpdateNothing, ReportFails, HaveUseSession, RecvNothing,
                  EndTask, ThreadExits, SelectFails
    <3>3. /\ pc'[p] \notin {"reported", "unused"}
          /\ \A q \in Port \ {p} : pc'[q] = pc[q] /\ itemp'[q] = itemp[q]
      BY <2>4 DEF Wake, Loop, UpdateNothing, NextSession, ReportFails, HaveUseSession,
                  RecvNothing, EndTask, ThreadExits, SelectFails, Goto, IInv, TypeOK
    <3>4. AllLeases' = AllLeases
      BY <3>1, <3>2, <3>3, ThreadUnseen
    <3> QED BY <3>1, <3>4, AbstractStep
  <2> QED BY <1>3, <2>1, <2>2, <2>3, <2>4 DEF ThreadNext
<1> QED BY <1>1, <1>2, <1>3 DEF Next, ReliableNext

\* The two threads hand every slot over as SlotLease says, without a lock.
THEOREM Refinement == Spec => LeaseSpec
<1>1. Init => Slots!Init
  BY DEF Init, Slots!Init, Lease
<1>2. IInv /\ [Next]_vars => [Slots!Next]_Slots!vars
  BY LeaseStep
<1> QED BY <1>1, <1>2, Invariance, PTL DEF Spec, LeaseSpec, Slots!Spec

\* What SlotLease comes to, step by step.
LEMMA SoundStep ==
  ASSUME Slots!Sound, [Slots!Next]_Slots!vars PROVE Slots!Sound'
<1> DEFINE a == [k \in Slot |-> Lease(k)]
<1>1. /\ a \in [Slot -> {"free", "granted", "open", "closing"}]
      /\ DOMAIN clientadd = Slot
      /\ \A j, k \in Slot : a[j] = "granted" /\ a[k] = "granted" => j = k
      /\ \A k \in Slot : clientadd[k] # NoOne => a[k] = "open"
  BY DEF Slots!Sound
<1>2. \/ a' = a /\ clientadd' = clientadd
      \/ \E k \in Slot :
           \/ /\ \A j \in Slot : a[j] # "granted"
              /\ a[k] = "free" /\ a' = [a EXCEPT ![k] = "granted"]
              /\ clientadd' = clientadd
           \/ /\ a[k] = "granted" /\ a' = [a EXCEPT ![k] = "open"]
              /\ clientadd' = clientadd
           \/ /\ a[k] = "open" /\ a' = a
              /\ clientadd' = [clientadd EXCEPT ![k] = clientadd'[k]]
           \/ /\ a[k] = "open" /\ a' = [a EXCEPT ![k] = "closing"]
              /\ clientadd' = [clientadd EXCEPT ![k] = NoOne]
           \/ /\ a[k] = "closing" /\ a' = [a EXCEPT ![k] = "free"]
              /\ clientadd' = clientadd
  BY DEF Slots!vars, Slots!Next, Slots!Grant, Slots!Open, Slots!Address, Slots!Close,
         Slots!Free, Slots!Becomes
<1> HIDE DEF a
<1>3. /\ a' \in [Slot -> {"free", "granted", "open", "closing"}]
      /\ DOMAIN clientadd' = Slot
      /\ \A j, k \in Slot : a'[j] = "granted" /\ a'[k] = "granted" => j = k
      /\ \A k \in Slot : clientadd'[k] # NoOne => a'[k] = "open"
  BY <1>1, <1>2
<1> QED BY <1>3 DEF Slots!Sound, a

\* No slot is ever lost between the two threads, or open to a client while it is free.
THEOREM SlotsCorrect == Spec => []Slots!Sound
<1>1. Init => Slots!Sound
  BY DEF Init, Slots!Sound, Lease
<1>2. Slots!Sound /\ [Slots!Next]_Slots!vars => Slots!Sound'
  BY SoundStep
<1>3. IInv /\ [Next]_vars => [Slots!Next]_Slots!vars
  BY LeaseStep
<1> QED BY <1>1, <1>2, <1>3, Invariance, PTL DEF Spec
=============================================================================
