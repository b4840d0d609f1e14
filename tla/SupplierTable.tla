---------------------------- MODULE SupplierTable ---------------------------
(***************************************************************************)
(* The consumers of one supplier task.  The publication thread keeps them  *)
(* in a std::deque, which it extends on PLEASE_START_TRANS and shortens on *)
(* NEXT_TRANS; every consumer gets a resend thread that holds a pointer    *)
(* into the deque, given through the one para of the task; a thread that   *)
(* ends marks an entry by UID 0; and the supplier thread, when it ends,    *)
(* waits until every entry is marked, then destroys the queue and the      *)
(* locks.  The task stays in globalTsSupplierTaskList, so requests find it *)
(* during the wait, between the check and the destruction, and afterwards. *)
(*                                                                         *)
(* Memory is modelled where the pointers need it: the deque is the cells   *)
(* first..last, and a cell it gives up keeps what was in it.  The threads  *)
(* race: para may be overwritten before its thread reads it, and an erased *)
(* entry moves others under the pointers.                                  *)
(***************************************************************************)
EXTENDS Naturals, FiniteSets

CONSTANTS
  NConsumer,   \* UIDs of consumers
  MaxRequest   \* bound: resend threads made

ASSUME TableAssumption == {NConsumer, MaxRequest} \subseteq Nat \ {0}

Consumer == 1..NConsumer
Gone == 0                 \* the UID of an entry that is to be erased

\* An address is the place of an entry among those ever pushed: the deque only
\* grows at its end.
Address == 1..MaxRequest
Thread == 1..MaxRequest

VARIABLES
  cell,          \* UID and whether nextTrans holds a request, by address
  first, last,   \* consumerDeque is the cells first..last
  para,          \* the consumer of para
  made,          \* resend threads made so far
  place,         \* where each resend thread is
  pConsumer,     \* its pointer
  supplier       \* "runs", "exits" (EXITsupplier is set, it waits), "checked"
                 \* (it found every entry marked), "ended" (all is destroyed)

tableVars == <<cell, first, last, para>>
threadVars == <<made, place, pConsumer>>
vars == <<tableVars, threadVars, supplier>>

Empty == [UID |-> Gone, nextTrans |-> FALSE]

Init ==
  /\ cell = [a \in Address |-> Empty]
  /\ first = 1 /\ last = 0 /\ para = 0
  /\ made = 0
  /\ place = [t \in Thread |-> "none"]
  /\ pConsumer = [t \in Thread |-> 0]
  /\ supplier = "runs"

consumerDeque == first..last

\* The first entry with UID u, if there is one.
Finds(u, a) ==
  /\ a \in consumerDeque
  /\ cell[a].UID = u
  /\ \A b \in first..(a - 1) : cell[b].UID # u

\* Mutant of Known: only the last entry is looked at.
KnownLast(u) == last >= first /\ cell[last].UID = u

Known(u) == \E a \in consumerDeque : cell[a].UID = u

\* Mutant of NewPara: one past the end, size() for size() - 1.
NewParaPast == last + 2

\* The entry the new thread is given: the last one.
NewPara == last + 1

\* PLEASE_START_TRANS of a consumer that is not in the deque: an entry at its end,
\* para and a thread, whatever the supplier thread is at.  That of one already there
\* changes its address and offset only.
updateSupplierTask(u) ==
  /\ made < MaxRequest /\ last < MaxRequest
  /\ ~Known(u)
  /\ last' = last + 1
  /\ cell' = [cell EXCEPT ![last'] = [UID |-> u, nextTrans |-> FALSE]]
  /\ para' = NewPara
  /\ made' = made + 1
  /\ place' = [place EXCEPT ![made'] = "new"]
  /\ UNCHANGED <<first, pConsumer, supplier>>

\* The request is queued at its consumer's entry.
Queued(u) ==
  [a \in Address |-> IF Finds(u, a) THEN [cell[a] EXCEPT !.nextTrans = TRUE] ELSE cell[a]]

\* deque::erase of the entry at a moves the shorter side by one.
MovedUp(c, a) == [b \in Address |-> IF b \in (first + 1)..a THEN c[b - 1] ELSE c[b]]
MovedDown(c, a) == [b \in Address |-> IF b \in a..(last - 1) THEN c[b + 1] ELSE c[b]]

\* Mutant of Erased: the front goes, marked or not.
ErasedFront(a) == a = first

\* The entry to erase: the first that was marked.
Erased(a) == Finds(Gone, a)

\* NEXT_TRANS: queued, then the first entry that was marked is erased.
NextTrans(u) ==
  /\ \/ /\ \A a \in consumerDeque : cell[a].UID # Gone
        /\ cell' = Queued(u)
        /\ UNCHANGED <<first, last>>
     \/ \E a \in consumerDeque :
          /\ Erased(a)
          /\ IF a - first < (last - first + 1) \div 2
               THEN cell' = MovedUp(Queued(u), a) /\ first' = first + 1 /\ UNCHANGED last
               ELSE cell' = MovedDown(Queued(u), a) /\ last' = last - 1 /\ UNCHANGED first
  /\ UNCHANGED <<para, threadVars, supplier>>

\* A resend thread reads its pointer from para ...
ThreadStarts(t) ==
  /\ place[t] = "new"
  /\ pConsumer' = [pConsumer EXCEPT ![t] = para]
  /\ place' = [place EXCEPT ![t] = "runs"]
  /\ UNCHANGED <<tableVars, made, supplier>>

\* ... takes what its entry holds and answers it; beyond sentBufQue it ends ...
Answer(t) ==
  /\ place[t] = "runs"
  /\ supplier = "runs"
  /\ cell[pConsumer[t]].nextTrans
  /\ cell' = [cell EXCEPT ![pConsumer[t]].nextTrans = FALSE]
  /\ \E p \in {"runs", "ends"} : place' = [place EXCEPT ![t] = p]
  /\ UNCHANGED <<first, last, para, made, pConsumer, supplier>>

\* ... as it does when it has taken no request for a time, which it finds before it
\* looks for one ...
Silence(t) ==
  /\ place[t] = "runs"
  /\ supplier = "runs"
  /\ place' = [place EXCEPT ![t] = "ends"]
  /\ UNCHANGED <<tableVars, made, pConsumer, supplier>>

\* Mutant of Told: EXITsupplier is looked at only with a request in hand.
ToldWithRequest(t) ==
  /\ place[t] = "runs"
  /\ supplier # "runs"
  /\ cell[pConsumer[t]].nextTrans
  /\ place' = [place EXCEPT ![t] = "ends"]
  /\ UNCHANGED <<tableVars, made, pConsumer, supplier>>

\* ... and when the task ends.
Told(t) ==
  /\ place[t] = "runs"
  /\ supplier # "runs"
  /\ place' = [place EXCEPT ![t] = "ends"]
  /\ UNCHANGED <<tableVars, made, pConsumer, supplier>>

\* Mutant of Marked: the search forgets to compare the UID.
MarkedAll(t) == [a \in Address |-> [cell[a] EXCEPT !.UID = Gone]]

\* The entry with the UID that the pointer now finds is marked.
Marked(t) ==
  [a \in Address |-> IF Finds(cell[pConsumer[t]].UID, a)
                       THEN [cell[a] EXCEPT !.UID = Gone] ELSE cell[a]]

ThreadEnds(t) ==
  /\ place[t] = "ends"
  /\ cell' = Marked(t)
  /\ place' = [place EXCEPT ![t] = "gone"]
  /\ UNCHANGED <<first, last, para, made, pConsumer, supplier>>

\* The supplier thread leaves its loop ...
SupplierExits ==
  /\ supplier = "runs"
  /\ supplier' = "exits"
  /\ UNCHANGED <<tableVars, threadVars>>

\* Mutant of AllMarked: the last entry is not looked at.
AllMarkedButLast == \A a \in first..(last - 1) : cell[a].UID = Gone

\* The search of the wait, under lockSupplierThread.
AllMarked == \A a \in consumerDeque : cell[a].UID = Gone

\* ... waits until it finds every entry marked ...
SupplierChecks ==
  /\ supplier = "exits"
  /\ AllMarked
  /\ supplier' = "checked"
  /\ UNCHANGED <<tableVars, threadVars>>

\* ... and, 100 and 200 ms later, destroys the packets, sentBufQue and the locks.
SupplierEnds ==
  /\ supplier = "checked"
  /\ supplier' = "ended"
  /\ UNCHANGED <<tableVars, threadVars>>

ThreadNext(t) ==
  ThreadStarts(t) \/ Answer(t) \/ Silence(t) \/ Told(t) \/ ThreadEnds(t)

Next ==
  \/ \E u \in Consumer : updateSupplierTask(u) \/ NextTrans(u)
  \/ \E t \in Thread : ThreadNext(t)
  \/ SupplierExits
  \/ SupplierChecks
  \/ SupplierEnds

Spec == Init /\ [][Next]_vars

\* Every thread is scheduled.
Fairness ==
  /\ \A t \in Thread : WF_vars(ThreadNext(t))
  /\ WF_vars(SupplierChecks)
  /\ WF_vars(SupplierEnds)

FairSpec == Spec /\ Fairness

-----------------------------------------------------------------------------
(* Properties.                                                             *)

\* The variables have their types.
TypeOK ==
  /\ cell \in [Address -> [UID : Consumer \union {Gone}, nextTrans : BOOLEAN]]
  /\ first \in 1..(MaxRequest + 1) /\ last \in 0..MaxRequest
  /\ para \in 0..MaxRequest /\ made \in 0..MaxRequest
  /\ place \in [Thread -> {"none", "new", "runs", "ends", "gone"}]
  /\ pConsumer \in [Thread -> 0..MaxRequest]
  /\ supplier \in {"runs", "exits", "checked", "ended"}

\* A consumer has one entry, however entries move and whoever marks them: two would
\* be sent every packet twice.
OneEntry == \A a, b \in consumerDeque : cell[a].UID = cell[b].UID => a = b \/ cell[a].UID = Gone

\* The entries the wait waits for, and the resend threads it is meant to wait for.
Unmarked == {a \in consumerDeque : cell[a].UID # Gone}
Live == {t \in Thread : place[t] \in {"new", "runs", "ends"}}

\* The wait looks at entries, not at threads, and a thread may mark an entry that is
\* not its own (its para was overwritten, or its pointer was left behind by an
\* erasure).  Even so, every thread has ended when the wait is over: none but one made
\* after that moment can still use sentBufQue and the locks that are destroyed.
WaitIsEnough == [][supplier = "exits" /\ supplier' = "checked" => Live = {}]_vars

\* The other way round does fail: a thread that marked no entry, or not the one its
\* maker left for it, leaves more entries unmarked than there are threads.
Orphaned == Cardinality(Unmarked) > Cardinality(Live)

\* Nothing undoes that: once an entry is left without a thread, there is one in every
\* later state, and the check of SupplierChecks can never succeed again.
OrphanStays == [][Orphaned => Orphaned']_vars

\* It is the only way to wait for ever: with finitely many requests (MaxRequest), the
\* supplier thread comes to its end or an entry was left without a thread.
SupplierTaskEnds == supplier = "exits" ~> supplier = "ended" \/ Orphaned
=============================================================================
