----------------------------- MODULE DetectPool -----------------------------
(***************************************************************************)
(* The server of detectwang, which measures the bandwidth of its clients:  *)
(* a listener thread (eventlisten::dealevent) hands out slots, each a port *)
(* and a session of that port, and one pool thread per port serves the     *)
(* sessions of its port (CMyThread::threadProc, CDataTask::taskProc,       *)
(* CMySession::updatesession).                                             *)
(*                                                                         *)
(* Only CSourcControl has a lock.  The table of sessions, the task pointer *)
(* and the wake-up event of a thread are shared without one, so every      *)
(* access by either side is a step of its own here.                        *)
(*                                                                         *)
(* A request is named by the random number the server draws for it, and    *)
(* clientadd, the address a session reports to, by the request of the      *)
(* client that has it.  Clocks are left out: a time limit may have passed  *)
(* or not whenever it is tested.                                           *)
(***************************************************************************)
EXTENDS Naturals, FiniteSets

CONSTANTS
  NPort,         \* MAXPORT, MAX_THREAD_NUM: ports, and threads
  NSession,      \* MAXSESSION: sessions of a port
  MaxRequests    \* bound: requests the listener grants

ASSUME CountsAssumption == {NPort, NSession, MaxRequests} \subseteq Nat \ {0}

Port == 1..NPort
Session == 1..NSession
Slot == Port \X Session
NoOne == 0               \* clientadd of a session with length 0, randid never set

VARIABLES
  isuse,          \* CSourcControl: the slot is handed out
  udpsessionuse,  \* CMySession: the session is open
  randid,         \* CMySession: the number its data must carry
  clientadd,      \* CMySession: where its first data came from; NoOne: length 0
  m_pTask,        \* per thread: a task is assigned
  m_hEvent,       \* per thread: the auto-reset event is signalled
  m_bIsThreadExit, \* per thread: 0, 1 (asked to exit), 2 (has left its loop)
  pc,             \* per thread: where it is
  itemp,          \* per thread: the session updatesession is at
  listener,       \* where the listener is
  target,         \* the slot getfreesource returned to it
  fresh,          \* getfreesource returned 0: no session of the port was in use
  drawn,          \* the random numbers drawn so far
  granted         \* the answers that reached their clients

sessionVars  == <<udpsessionuse, randid, clientadd>>
threadVars   == <<m_pTask, m_hEvent, m_bIsThreadExit, pc, itemp>>
listenerVars == <<listener, target, fresh, drawn, granted>>
vars == <<isuse, sessionVars, threadVars, listenerVars>>

Init ==
  /\ isuse = [k \in Slot |-> FALSE]
  /\ udpsessionuse = [k \in Slot |-> FALSE]
  /\ randid = [k \in Slot |-> NoOne]
  /\ clientadd = [k \in Slot |-> NoOne]
  /\ m_pTask = [p \in Port |-> FALSE]
  /\ m_hEvent = [p \in Port |-> FALSE]
  /\ m_bIsThreadExit = [p \in Port |-> 0]
  /\ pc = [p \in Port |-> "wait"]
  /\ itemp = [p \in Port |-> 1]
  /\ listener = "recv"
  /\ target = <<1, 1>>
  /\ fresh = FALSE
  /\ drawn = 0
  /\ granted = {}

-----------------------------------------------------------------------------
(* The listener thread.                                                    *)

\* The first slot, in the order of ports and then of sessions, not handed out.
FirstFree(k) ==
  /\ ~isuse[k]
  /\ \A j \in Slot :
       (j[1] < k[1] \/ (j[1] = k[1] /\ j[2] < k[2])) => isuse[j]

\* "request": getfreesource, under its lock.  Without a free slot "bye" is sent.
GetFreeSource ==
  /\ listener = "recv"
  /\ drawn < MaxRequests
  /\ \E k \in Slot :
       /\ FirstFree(k)
       /\ isuse' = [isuse EXCEPT ![k] = TRUE]
       /\ target' = k
       /\ fresh' = \A s \in Session : ~isuse[<<k[1], s>>]
  /\ drawn' = drawn + 1
  /\ listener' = "set"
  /\ UNCHANGED <<sessionVars, threadVars, granted>>

\* setsession opens the session first ...
SetSession ==
  /\ listener = "set"
  /\ IF udpsessionuse[target]
       THEN /\ listener' = IF fresh THEN "assign" ELSE "reply"
            /\ UNCHANGED udpsessionuse
       ELSE /\ udpsessionuse' = [udpsessionuse EXCEPT ![target] = TRUE]
            /\ listener' = "randid"
  /\ UNCHANGED <<isuse, randid, clientadd, threadVars, target, fresh, drawn, granted>>

\* ... and writes its number afterwards.
SetRandid ==
  /\ listener = "randid"
  /\ randid' = [randid EXCEPT ![target] = drawn]
  /\ listener' = IF fresh THEN "assign" ELSE "reply"
  /\ UNCHANGED <<isuse, udpsessionuse, clientadd, threadVars, target, fresh, drawn,
                 granted>>

\* addTask on a port that had no session in use: the task, then the event.
AssignTask ==
  /\ listener = "assign"
  /\ m_pTask' = [m_pTask EXCEPT ![target[1]] = TRUE]
  /\ listener' = "start"
  /\ UNCHANGED <<isuse, sessionVars, m_hEvent, m_bIsThreadExit, pc, itemp,
                 target, fresh, drawn, granted>>

StartTask ==
  /\ listener = "start"
  /\ m_hEvent' = [m_hEvent EXCEPT ![target[1]] = TRUE]
  /\ listener' = "reply"
  /\ UNCHANGED <<isuse, sessionVars, m_pTask, m_bIsThreadExit, pc, itemp,
                 target, fresh, drawn, granted>>

\* Port, session and number are sent to the client; lost: they do not arrive.
Reply(lost) ==
  /\ listener = "reply"
  /\ granted' = IF lost THEN granted ELSE granted \union {<<target, drawn>>}
  /\ listener' = "recv"
  /\ UNCHANGED <<isuse, sessionVars, threadVars, target, fresh, drawn>>

\* select fails: dealevent returns and destroyThreadPool begins.
ListenerStops ==
  /\ listener = "recv"
  /\ listener' = "destroy"
  /\ UNCHANGED <<isuse, sessionVars, threadVars, target, fresh, drawn, granted>>

\* Mutant of AskExit: the thread is not woken.
AskExitQuietly(p) ==
  /\ listener = "destroy"
  /\ m_bIsThreadExit[p] = 0
  /\ m_bIsThreadExit' = [m_bIsThreadExit EXCEPT ![p] = 1]
  /\ UNCHANGED <<isuse, sessionVars, m_pTask, m_hEvent, pc, itemp, listenerVars>>

\* CMyList::clear asks each thread to exit and wakes it.
AskExit(p) ==
  /\ listener = "destroy"
  /\ m_bIsThreadExit[p] = 0
  /\ m_bIsThreadExit' = [m_bIsThreadExit EXCEPT ![p] = 1]
  /\ m_hEvent' = [m_hEvent EXCEPT ![p] = TRUE]
  /\ UNCHANGED <<isuse, sessionVars, m_pTask, pc, itemp, listenerVars>>

-----------------------------------------------------------------------------
(* The pool thread of port p.                                              *)

Goto(p, place) == pc' = [pc EXCEPT ![p] = place]

\* WaitForSingleObject resets the event; only with a task does the thread work.
Wake(p) ==
  /\ pc[p] = "wait"
  /\ m_hEvent[p]
  /\ m_hEvent' = [m_hEvent EXCEPT ![p] = FALSE]
  /\ Goto(p, IF m_bIsThreadExit[p] # 0 THEN "out"
             ELSE IF m_pTask[p] THEN "loop" ELSE "wait")
  /\ UNCHANGED <<isuse, sessionVars, m_pTask, m_bIsThreadExit, itemp, listenerVars>>

\* The head of taskProc's loop.
Loop(p) ==
  /\ pc[p] = "loop"
  /\ Goto(p, IF m_bIsThreadExit[p] = 0 THEN "update" ELSE "end")
  /\ itemp' = [itemp EXCEPT ![p] = 1]
  /\ UNCHANGED <<isuse, sessionVars, m_pTask, m_hEvent, m_bIsThreadExit, listenerVars>>

\* Mutant of NextSession: the scan goes one session too far.
NextSessionTooFar(p) ==
  IF itemp[p] > NSession
    THEN Goto(p, "check") /\ UNCHANGED itemp
    ELSE Goto(p, "update") /\ itemp' = [itemp EXCEPT ![p] = @ + 1]

\* updatesession is done with session itemp.
NextSession(p) ==
  IF itemp[p] = NSession
    THEN Goto(p, "check") /\ UNCHANGED itemp
    ELSE Goto(p, "update") /\ itemp' = [itemp EXCEPT ![p] = @ + 1]

\* Mutant of ClearSession: the address stays.
ClearSessionNotAddress(k) ==
  /\ udpsessionuse' = [udpsessionuse EXCEPT ![k] = FALSE]
  /\ UNCHANGED <<randid, clientadd>>

\* clearsession leaves randid alone.
ClearSession(k) ==
  /\ udpsessionuse' = [udpsessionuse EXCEPT ![k] = FALSE]
  /\ clientadd' = [clientadd EXCEPT ![k] = NoOne]
  /\ UNCHANGED randid

\* Mutant of UpdateNothing: nothing to do ends the scan.
UpdateStops(p) ==
  /\ pc[p] = "update"
  /\ Goto(p, "check")
  /\ UNCHANGED <<isuse, sessionVars, m_pTask, m_hEvent, m_bIsThreadExit, itemp,
                 listenerVars>>

\* A closed session, or one whose time has not come.
UpdateNothing(p) ==
  /\ pc[p] = "update"
  /\ NextSession(p)
  /\ UNCHANGED <<isuse, sessionVars, m_pTask, m_hEvent, m_bIsThreadExit, listenerVars>>

\* The time of a session with data is over: the speed is sent and it is cleared.
Report(p) ==
  LET k == <<p, itemp[p]>>
  IN
  /\ pc[p] = "update"
  /\ udpsessionuse[k]
  /\ clientadd[k] # NoOne
  /\ ClearSession(k)
  /\ Goto(p, "reported")
  /\ UNCHANGED <<isuse, m_pTask, m_hEvent, m_bIsThreadExit, itemp, listenerVars>>

\* sendto fails: updatesession returns at once, the session stays.
ReportFails(p) ==
  LET k == <<p, itemp[p]>>
  IN
  /\ pc[p] = "update"
  /\ udpsessionuse[k]
  /\ clientadd[k] # NoOne
  /\ Goto(p, "check")
  /\ UNCHANGED <<isuse, sessionVars, m_pTask, m_hEvent, m_bIsThreadExit, itemp,
                 listenerVars>>

\* No data in the time a client has to begin: the session is cleared.
ClearUnused(p) ==
  LET k == <<p, itemp[p]>>
  IN
  /\ pc[p] = "update"
  /\ udpsessionuse[k]
  /\ clientadd[k] = NoOne
  /\ ClearSession(k)
  /\ Goto(p, "unused")
  /\ UNCHANGED <<isuse, m_pTask, m_hEvent, m_bIsThreadExit, itemp, listenerVars>>

\* Mutant of SetFreeSource: updatesession returns after a report without freeing.
SetFreeSourceUnused(p) ==
  /\ pc[p] \in {"reported", "unused"}
  /\ IF pc[p] = "reported"
       THEN Goto(p, "check") /\ UNCHANGED <<isuse, itemp>>
       ELSE isuse' = [isuse EXCEPT ![<<p, itemp[p]>>] = FALSE] /\ NextSession(p)
  /\ UNCHANGED <<sessionVars, m_pTask, m_hEvent, m_bIsThreadExit, listenerVars>>

\* setfreesource, under its lock; after a report updatesession returns.
SetFreeSource(p) ==
  /\ pc[p] \in {"reported", "unused"}
  /\ isuse' = [isuse EXCEPT ![<<p, itemp[p]>>] = FALSE]
  /\ IF pc[p] = "reported" THEN Goto(p, "check") /\ UNCHANGED itemp ELSE NextSession(p)
  /\ UNCHANGED <<sessionVars, m_pTask, m_hEvent, m_bIsThreadExit, listenerVars>>

\* haveusesession: without an open session taskProc ends.
HaveUseSession(p) ==
  /\ pc[p] = "check"
  /\ Goto(p, IF \E s \in Session : udpsessionuse[<<p, s>>] THEN "select" ELSE "end")
  /\ UNCHANGED <<isuse, sessionVars, m_pTask, m_hEvent, m_bIsThreadExit, itemp,
                 listenerVars>>

\* select times out, or the datagram belongs to no open session.
RecvNothing(p) ==
  /\ pc[p] = "select"
  /\ Goto(p, "loop")
  /\ UNCHANGED <<isuse, sessionVars, m_pTask, m_hEvent, m_bIsThreadExit, itemp,
                 listenerVars>>

\* A datagram of a client that was granted slot k under number n: counted if the
\* session is open under that number; the first one fixes the address.
RecvData(p, k, n) ==
  /\ pc[p] = "select"
  /\ <<k, n>> \in granted
  /\ k[1] = p
  /\ udpsessionuse[k]
  /\ randid[k] = n
  /\ clientadd' = [clientadd EXCEPT ![k] = IF @ = NoOne THEN n ELSE @]
  /\ Goto(p, "loop")
  /\ UNCHANGED <<isuse, udpsessionuse, randid, m_pTask, m_hEvent, m_bIsThreadExit,
                 itemp, listenerVars>>

\* select fails: taskProc ends whatever sessions are open.
SelectFails(p) ==
  /\ pc[p] = "select"
  /\ Goto(p, "end")
  /\ UNCHANGED <<isuse, sessionVars, m_pTask, m_hEvent, m_bIsThreadExit, itemp,
                 listenerVars>>

\* taskProc has returned: the task is dropped.
EndTask(p) ==
  /\ pc[p] = "end"
  /\ m_pTask' = [m_pTask EXCEPT ![p] = FALSE]
  /\ Goto(p, IF m_bIsThreadExit[p] = 0 THEN "wait" ELSE "out")
  /\ UNCHANGED <<isuse, sessionVars, m_hEvent, m_bIsThreadExit, itemp, listenerVars>>

ThreadExits(p) ==
  /\ pc[p] = "out"
  /\ m_bIsThreadExit' = [m_bIsThreadExit EXCEPT ![p] = 2]
  /\ Goto(p, "gone")
  /\ UNCHANGED <<isuse, sessionVars, m_pTask, m_hEvent, itemp, listenerVars>>

-----------------------------------------------------------------------------
ListenerNext ==
  \/ GetFreeSource
  \/ SetSession
  \/ SetRandid
  \/ AssignTask
  \/ StartTask
  \/ \E lost \in BOOLEAN : Reply(lost)
  \/ ListenerStops
  \/ \E p \in Port : AskExit(p)

ThreadNext(p) ==
  \/ Wake(p)
  \/ Loop(p)
  \/ UpdateNothing(p)
  \/ Report(p)
  \/ ReportFails(p)
  \/ ClearUnused(p)
  \/ SetFreeSource(p)
  \/ HaveUseSession(p)
  \/ RecvNothing(p)
  \/ \E k \in Slot, n \in 1..drawn : RecvData(p, k, n)
  \/ EndTask(p)
  \/ ThreadExits(p)

\* Every step but a failing select on the socket of a port.
ReliableNext == ListenerNext \/ \E p \in Port : ThreadNext(p)

Next == ReliableNext \/ \E p \in Port : SelectFails(p)

Spec == Init /\ [][Next]_vars

\* Both threads keep running; a time limit that is tested again and again is
\* found to have passed, and sending succeeds again and again.
Fairness ==
  /\ WF_vars(SetSession)
  /\ WF_vars(SetRandid)
  /\ WF_vars(AssignTask)
  /\ WF_vars(StartTask)
  /\ WF_vars(\E lost \in BOOLEAN : Reply(lost))
  /\ \A p \in Port :
       /\ WF_vars(AskExit(p))
       /\ WF_vars(ThreadNext(p))
       /\ \A s \in Session :
            /\ SF_vars(itemp[p] = s /\ Report(p))
            /\ SF_vars(itemp[p] = s /\ ClearUnused(p))

FairSpec == Spec /\ Fairness

\* The same where select never fails.
ReliableFairSpec == Init /\ [][ReliableNext]_vars /\ Fairness

-----------------------------------------------------------------------------
(* What the server promises.                                               *)

Place == {"wait", "loop", "update", "reported", "unused", "check", "select", "end",
          "out", "gone"}

\* Types.
TypeOK ==
  /\ isuse \in [Slot -> BOOLEAN]
  /\ udpsessionuse \in [Slot -> BOOLEAN]
  /\ randid \in [Slot -> Nat]
  /\ clientadd \in [Slot -> Nat]
  /\ m_pTask \in [Port -> BOOLEAN]
  /\ m_hEvent \in [Port -> BOOLEAN]
  /\ m_bIsThreadExit \in [Port -> 0..2]
  /\ pc \in [Port -> Place]
  /\ itemp \in [Port -> Session]
  /\ listener \in {"recv", "set", "randid", "assign", "start", "reply", "destroy"}
  /\ target \in Slot
  /\ fresh \in BOOLEAN
  /\ drawn \in Nat
  /\ granted \subseteq Slot \X Nat

\* A slot that can be handed out has no open session, and setsession, whose
\* result the listener ignores, never finds one open: the order of the comment in
\* MyThread.h (get the source before the session is set, clear the session before
\* the source is freed) keeps one slot from two clients.
FreeIsClosed ==
  /\ \A k \in Slot : ~isuse[k] => ~udpsessionuse[k] /\ clientadd[k] = NoOne
  /\ listener = "set" => isuse[target] /\ ~udpsessionuse[target]

\* The slot the thread of port p is about to free.
Leaving(p) == <<p, itemp[p]>>

\* Where a slot is on its way, as far as the state tells: "lost" is where nobody would
\* ever free it, or could use it although it is free.
Lease(k) ==
  IF ~isuse[k] THEN IF udpsessionuse[k] THEN "lost" ELSE "free"
  ELSE IF udpsessionuse[k] THEN "open"
  ELSE IF listener = "set" /\ target = k THEN "granted"
  ELSE IF pc[k[1]] \in {"reported", "unused"} /\ k = Leaving(k[1]) THEN "closing"
  ELSE "lost"

Slots == INSTANCE SlotLease WITH lease <- [k \in Slot |-> Lease(k)], client <- clientadd

\* The two threads, which share the sessions without a lock, hand every slot over as
\* the comment of MyThread.h wants it: got, set, cleared, freed, and nobody else's in
\* between.
LeaseSpec == Slots!Spec

\* MyThread.h says that CSourcControl's lock protects msession: a session with
\* data would report to the client whose number it holds.
ReportsToItsClient ==
  \A k \in Slot :
    udpsessionuse[k] /\ clientadd[k] # NoOne => clientadd[k] = randid[k]

\* A session its thread has seen open is closed in the end, reported or not, unless the
\* server stops or select fails on the port: one failure ends the task and leaves the
\* sessions of the port open, as the task of such a port can end in no other way.
SeenSessionEnds ==
  \A k \in Slot :
    (pc[k[1]] = "select" /\ udpsessionuse[k])
      ~> (~udpsessionuse[k] \/ listener = "destroy" \/ pc[k[1]] = "end")

\* By the same comment no session would be lost between the two threads: a slot
\* that is handed out is handed back, or the server stops.
SlotComesBack ==
  \A k \in Slot : isuse[k] ~> (~isuse[k] \/ listener = "destroy")

\* destroyThreadPool, which waits for every thread, can finish.
EveryThreadExits == \A p \in Port : (listener = "destroy") ~> (pc[p] = "gone")
=============================================================================
