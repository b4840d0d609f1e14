# A verification project for PrinceCode

PrinceCode is a collection of C++ programs around live television over IP. Its main program is
**LiveChannelC2A**, a node that receives live channels from other nodes, stores them, plays them to
set-top servers and supplies them to further nodes, over UDP. Beside it stand the bandwidth
measuring programs **detectwang** and **detectbandwidth**, and smaller programs. This directory
holds TLA+ models of the parts where several threads or nodes share state, the TLC runs that check
them on small instances, and TLAPS proofs for every instance.

## 1. The system

| Part | State it keeps | Operations | Hard behaviour |
|---|---|---|---|
| Consumer of a channel (`netmain.cpp`, `tsConsumerTask`) | `nextPduSeq`, `arrivedBufDeque`, the file | receive thread: TRANS_DATA; resend thread: NEXT_TRANS; timer `checkConsumer`: restart | lost, repeated, reordered packets; the timer empties the buffer under the receive thread; a change of transport stream |
| Its session | `Status`, `supplierDeque`, `supplierUID`, counters of `checkConsumer` | tracker query, DO_YOU_HAVE, I_HAVE, PLEASE_START_TRANS, START_TRANS, restart | suppliers stop between two messages; late answers of an earlier query; a list cleared by one thread and filled by another; a status with no timeout |
| Supplier of a channel (`tsSupplierTask`) | `seqNum`, `sentBufQue`, `consumerDeque` with one entry per consumer | supplier thread: number, send, keep; resend thread per consumer; PLEASE_START_TRANS, NEXT_TRANS | a bounded window against late requests; entries that move while threads point at them; one `para` for all threads; a task that is destroyed and can still be found; the next process at its address has another UID |
| Relay (`startOneSupplier`) | the supplier task of a channel this node itself receives, the saved files | started, or restarted under a new stream, by the receive thread | a flag set before its data; numbers reset under the supplier thread; files removed under their readers |
| ftds player thread | its file index, `needToRestartConsumer` | reads files, sends them to set-top servers | waits for files another thread creates and removes |
| Tracker and publication protocol | channel lists, neighbour list | registration, queries, hello messages | a node that has not said hello is not answered; pointers into an unlocked list |
| detectwang server | slots (port, session), sessions per port, pool threads | listener grants slots; pool threads receive, report, close | sessions are shared without a lock, protected by the order of steps |
| detectbandwidth server, clients | UDP session table, `checkid`, retry counters | one select loop; request, datagrams, report | repeated requests take places; late datagrams of an earlier measurement |
| Event relay (`processCommunication`) | list of packets by second | relay, resend, clear | its acknowledgements are commented out |
| Log buffer (`log_test`) | ring with read and write offset | read, write | sequential |
| Province graph (`Graph`) | adjacency matrix | breadth-first search for nearest nodes | sequential |

`PROJECT.json` lists every component with its status, and every hazard at its line.

How the parts interact: nodes exchange UDP datagrams (`DO_YOU_HAVE` / `I_HAVE`,
`PLEASE_START_TRANS` / `START_TRANS`, `TRANS_DATA`, `NEXT_TRANS`); the threads of one node share the
task structures, most of them under one lock per task, and the files of a channel under none; the timer
thread calls `checkConsumer` every 100 ms.

## 2. Modules

| Module | What it is |
|---|---|
| `LiveTransfer` | the transfer: one channel, several suppliers, one consumer, and the network between them |
| `LiveStream` | what a reader of the consumer's file may rely on (abstract specification) |
| `MCLiveTransfer` | instances of `LiveTransfer` for TLC |
| `LiveTransferProofs` | its inductive invariant, its safety theorems, and the refinement of `LiveStream` |
| `LiveResendProofs` | what the resend scan asks for: a loop invariant of the fold over the buffer |
| `RelayNode` | inside a node: receive, supplier and player thread, their files and flags, the late consumer's catch-up, the release |
| `RelayNodeProofs` | its inductive invariant and safety theorems |
| `SupplierTable` | the consumers of one supplier: `consumerDeque`, its resend threads and their pointers, the end of the task |
| `SupplierTableProofs` | its inductive invariant and safety theorems |
| `Session` | how a consumer finds a supplier among several whose processes stop and are replaced |
| `SessionProofs` | its inductive invariant and safety theorems |
| `DetectPool` | the detectwang server: listener thread and pool threads |
| `SlotLease` | the life of a slot as the server promises it (abstract specification) |
| `DetectPoolProofs` | its inductive invariant, its safety theorems, and the refinement of `SlotLease` |
| `Bandwidth` | detectbandwidth: clients, the server's session table, the network |
| `BandwidthProofs` | its inductive invariant and safety theorems |
| `DataLemmas` | induction over numbers and finite sets, largest elements, folds: lemmas the proofs above cite |

The node is cut where its parts meet through little: `Session` tells `LiveTransfer`'s consumer whom to
receive from, and has of the stream only whether a supplier sends; `LiveTransfer` delivers packets in
order with gaps only at a change of stream, which is what `RelayNode` begins with; `SupplierTable` has the
entries to which `LiveTransfer`'s and `RelayNode`'s suppliers send.

### LiveTransfer

A supplier is a "super TS" node: it reads the source itself and its tsUID is its own UID. A process draws a new UID
at every start (`tsLoadConfig`: `rand()*r1`, assumed different from all others), so that the next process at a node's address
is another supplier of another stream: what is sent to the address reaches it, and its START_TRANS is not the one a
consumer that has chosen its predecessor waits for. The code
takes `lockSentBufQue` or `lockConsumerArrivedDeque` around each handler, so an action is one critical
section; where the code decides outside the lock or releases it in between, the steps are separate
(`RestartDecide`, `RestartClear`, `RestartQuery`).

| Code | Action |
|---|---|
| `supplierTaskThreadProc_CDN` | `SupplierSend` |
| `supplierResendThreadProc` | `ResendTake`, `ResendOne`, `ResendTimeout` |
| publication thread: NEXT_TRANS, PLEASE_START_TRANS | `RecvNextTrans`, `RecvPleaseStartTrans` |
| death of the process and a new start, with a new UID (`tsLoadConfig`, `initSuperTsSupplierTask`) | `SupplierCrash` |
| `consumerTaskThreadProc_CDN` | `RecvData`, with `NewTs`, `Reorder`, `PopHead`, `FillSlot`, `Drain` |
| `consumerResendTaskThreadProc_CDN`, `sendNextTransForSomeLost` | `ResendScan`, with `ScanSlot`, `ResendPairs` |
| publication thread: query reply, I_HAVE, START_TRANS | `RecvQueryReply`, `RecvIHave`, `RecvStartTrans` |
| `checkConsumer` | `NotStartedTooLong`, `SendPleaseStartTrans`, `RestartDecide`, `RestartClear`, `RestartQuery` |
| the UDP network | `LoseData`, `LoseRequest`, `LoseControl`; sets of datagrams give reordering, `RecvData` may leave its packet (duplication) |

A packet is a record of its header (`ts`, `seq`) and its content (`body`: its position in what the process `ts` sends), so that a property can say whether
the content is the one the header promises. Ages of packets are abstracted: the resend scan is given any set `old` of stored
packets. Silence is abstracted: the timer may find that nothing came only while no data datagram is in the
network. File boundaries (`fileMS`), the catch-up of a late consumer (`seqOffset`) and relays are `RelayNode`'s.

### RelayNode

Four threads of a node share its files, a few counters and two flags without a lock over all of them.

| Code | Action |
|---|---|
| `consumerTaskThreadProc_CDN`, packet in order | `RecvNext`, `RecvFirst`, `ChangeTs`, with `Write` |
| the end of a file there (1955-2000) | `FlagConsumer`, `FlagSupplier`, `startOneSupplier`, `SaveFile`: one step per shared write, in the code's order |
| `checkConsumer`, DO_YOU_HAVE | `RestartClear`, `RestartQuery`, `DoYouHave` |
| `supplierTaskThreadProc_CDN` | `OpenFirst`, `Number`, `Increment`, `Send`, `Keep`, `CheckFlag`, `Copy`, `Find`, `EndOfSupplier` |
| `updateSupplierTask`, the end of a resend thread | `updateSupplierTask`, `ResendEnds` |
| `ftdsThreadProc1` | `PlayWait`, `PlayOpen`, `Play`, `PlayCheck`, `PlayAgain`, `PlayFind` |
| `ReleaseChannelFromConsumerTask` | `ReleaseSupplier`, `ReleaseErase`, `ReleaseConsumer`, `ReleaseDone` |
| the end of the receive thread (2154-2205) | `ReceiverEnds`, `ReceiverGone` |

`EXITsupplier` belongs to a task: the release sets it on the task it finds, and `startOneSupplier` of the receive thread, which is
told to end later, may make another, with the flag unset, after the release has looked or after it has erased the first. The publication
thread handles nothing else during a release (`Started`). `Increment` has the outcomes of an unlocked `seqNum++`. A call that throws (`at`, `front` of an empty
deque) ends the behaviour with `thrown`. A packet's content is named by its stream and number at its
origin. A file is its stream, its index and its first packet: the supplier's numbers and the consumer's
catch-up depend on nothing else of it. On disk files are known by their names (`NameOf`: stream and index). A
supplier may be behind what a node received before, so a file can be received again; it then replaces the one of
its name, its name is in `savedFile` twice, and the first removal takes the new file (`Without`).

### SupplierTable

`updateSupplierTask` and `NextTrans` are the publication thread's handlers, `ThreadStarts` to `ThreadEnds` a resend
thread from `pthread_create` to its last assignment, `SupplierExits`, `SupplierChecks` and `SupplierEnds` the end of
`supplierTaskThreadProc_CDN`: it sets `EXITsupplier`, finds every entry marked, unlocks and sleeps, and destroys queue and locks. The
task stays in `globalTsSupplierTaskList`, so requests find it at all three stages and afterwards. (What an operation on a destroyed lock
does is undefined; it is taken to work.) Memory is modelled where pointers need it: `consumerDeque` is the cells
`first..last`, `erase` moves the shorter side as `std::deque` does, and a cell that was given up keeps its
content, so that a stale pointer reads what it would read. A deque never moves its cells when it grows at its
end. Both races are in the
model: `para` overwritten before its thread has read it, and an erasure that moves another entry under its thread's pointer. What they
lead to is `Orphaned`: more entries are unmarked than threads run, so that some entry will be marked by nobody.

### Session

`RecvQueryReply`, `Choose`, `Refuse`, `RecvStartTrans` are the publication thread's handlers at the consumer, `NotStarted`,
`QueryFinished`, `Silence`, `Overflow`, `RestartClear`, `RestartQuery` the branches of `checkConsumer`, `RecvData` the receive thread as far
as the status depends on it; `sayHello2Supplier`, `RecvPleaseStartTrans`, `CheckNeighbor`, `GiveUp` are a supplier's side, with its
neighbour list (a node it has not heard of is not answered). `Stop` ends the process of a supplier and `Restart` starts
the next one at its address, with a new UID and an empty neighbour list: a DO_YOU_HAVE is answered under the UID it names only, HOW_ARE_YOU and
PLEASE_START_TRANS by whatever process is there. Of the network, `Lose` until it is `stable`, if ever. A NULL address that is dereferenced ends the
behaviour with `crashed`.

### DetectPool

Nothing but `isuse` has a lock in that server, so every access to a session, a task pointer or an event is a step of its
own. `CMyThread::threadProc` is `Wake`, `EndTask`, `ThreadExits`; `CDataTask::taskProc` is `Loop`,
`HaveUseSession`, `RecvNothing`, `RecvData`, `SelectFails`; `CMySession::updatesession` visits one session per
step (`UpdateNothing`, `Report`, `ReportFails`, `ClearUnused`) and ends with `SetFreeSource`. The listener's
`dealevent` is `GetFreeSource`, `SetSession`, `SetRandid`, `AssignTask`, `StartTask`, `Reply`,
`ListenerStops`, and `destroyThreadPool` is `AskExit` for each thread. Clocks are left out: a time limit
may have passed or not whenever it is tested. A client is named by the request it sent, and the random number is
assumed fresh (the code draws it from `rand` seeded with the second).

### Bandwidth

The server is one thread, so an action is one datagram handled (`RecvRequest`, `RefuseRequest`, `RecvData`) or one pass of
`udpupdatesession`, which clears silent sessions and stops at the first report. A client (`client::run` and the loop of
`main`) requests (`Request`, `CheckTimeout`), sends (`SendData`, `SendEnds`), waits (`RecvReport`, `WaitTimeout`) and, as
long as the speed grows, begins again with the next `checkid` and a new socket. The network loses (`Lose`, or a
datagram beyond `MaxNet`), reorders (a set) and repeats (`Reply`, `RecvData` may leave their datagram). A datagram
to a closed socket stays until it is lost.

## 3. Runs

| Run | Instance | Shows |
|---|---|---|
| `loss` | 1 supplier, 5 packets, window 3, buffer limit 3, 2 ranges of at most 3 packets, 2 data datagrams in flight | types; the resend index; header and content agree; shape of the reorder buffer; the file is one run; requests name only missing packets; `LiveStream` is implemented |
| `switch` | 2 suppliers (symmetric), 3 packets each | no file mixes two streams; `LiveStream` is implemented across changes of supplier |
| `live` | 1 address with 2 processes after one another, window and buffer limit 2, 3 packets, 1 data datagram | a hole at the head is filled or given up; `LiveStream` is implemented when the process at the address changes |
| `relay` | 2 streams of 4 packets, files of 2, window 2, supplier and player start at the first file, 1 file saved, 1 restart or change of stream while no supplier thread runs | types; what a packet is numbered is what it is; every file on disk is queued for removal or being finished; a late consumer gets what it asked for and then every packet; the player skips no file |
| `relay_release` | 1 stream of 2 packets, files of 1, the channel released at any moment | a released channel loses its threads, also a supplier thread started too late to be told |
| `relay_numbers` | the same with a restart while the supplier thread runs | **violated**: two packets of `sentBufQue` have one number |
| `table` | 3 consumers, 3 resend threads | one entry per consumer; no thread outlives the wait for it; an entry that has lost its thread is never made good; otherwise the wait ends |
| `session` | 2 suppliers, one of which stops and is followed by a second process, neighbour status of 1, 1 repetition, 2 datagrams | there is somebody to ask; the chosen supplier's address stays; a consumer is served in the end |
| `bandwidth` | 1 client with 2 measurements, 2 sessions, 1 repetition of a request, 3 datagrams | `sessionnum` counts the sessions in use; no late datagram counts for a later measurement; every session is free again; every measurement ends |
| `pool` | 1 port, 2 sessions, 3 requests | a free slot has no open session, and `setsession` never fails; `SlotLease` is implemented; a session its thread has seen is closed in the end; every thread ends when the pool is destroyed |
| `pool_leak` | 1 port, 2 sessions, 2 requests | **violated**: a slot that is handed out may never come back |
| `pool_mix` | 1 port, 2 sessions, 3 requests | **violated**: a session may report to the client before it |

**Bounds.** `MaxSeq`, `MaxLife`, `MaxData`, `MaxRequests`, `MaxRestart`, `MaxSupplied`, `MaxRequest`, `MaxRound`, `MaxNet` stop
counters and queues that are unbounded in the code, or bounded by its clocks; they appear only in guards.

* Transfer: five packets with a window of three make a hole of one, two or three packets, a request inside the
  window, half outside it and wholly outside it, and a buffer beyond its limit; two datagrams in flight are enough
  for any two packets to change places and for a late one of an old stream.
* Relay: two files of two packets let the supplier end one and find the next, and with one file saved the oldest
  is removed before it is read; a window of two drops a packet while a consumer catches up; `SupplierStart` and
  `FtdsStart` of one (three in the code) leave the order of the flags as it is, and a first packet in the middle of a file is
  among the inputs. `MaxSupplied` = 0 keeps the restart of `relay` before the supplier's start or after its end, since
  `NumbersNameContent`, `CatchUpFollows` and `PlayerInOrder` end with the first restart; `relay_numbers` has one between. `relay_release`
  is smaller, as it is about the ends of threads and checked under fairness: one stream, files of one packet. After
  the restart a file of the same stream and index, or of the same index and another stream, is received beside the saved one.
* Table: three entries are the least for an erasure that moves another entry, on either side; three threads
  use every cell once. `MaxRequest` is more than a bound for `SupplierTaskEnds`: without it a consumer that is given up and asks again,
  each time before the check, keeps the supplier thread waiting for ever. That requests stop is an assumption of this property.
* Session: two suppliers make every answer possibly one of an earlier query or of the supplier that was left; two processes at an address
  (`MaxLife`) one of a process that is gone. `MaxNet` stops the timer, not the network, while datagrams pile up.
* Bandwidth: two sessions and two measurements let a repeated request take a second place, and a place be given
  again to the next measurement while datagrams of the first are under way. Several clients are in the proof only.
* Pool: two sessions are the least for a port whose thread is kept alive by one session while another is
  opened; three requests let a slot be used, freed and used again beside a second one. Several ports are in the proof only.

**Fairness.**

* `LiveTransfer`: threads keep running and timers fire (weak fairness); a datagram that is
  sent again and again arrives in the end (strong fairness on receiving, the least any retransmission needs);
  a stored packet gets older than a round trip (weak fairness on the scan with every packet old).
  Nothing is assumed of `SupplierCrash`, of losing, or of giving a consumer up.
* `RelayNode`: the three threads are scheduled, a resend thread that is told to end does, and the release goes on (weak fairness each).
  When nothing is received any more the supplier thread's looks for a file run out (`WAIT_FOR_ID_TIMES`; strong fairness on `Find`
  ending the thread once the receive thread is gone), and it finds its consumers' entries marked at last (strong fairness on `EndOfSupplier`):
  consumers do not ask a thread that is ending for the stream again for ever. Nothing is assumed of packets, of the timer, or of the
  operator who releases.
* `SupplierTable`: every thread is scheduled (weak fairness). Nothing is assumed of requests.
* `Session`: the timer fires, and messages that stay are handled (weak fairness). I_HAVE is asked for every 100 ms but is only
  heard in `ctsNotStarted`: `Choose` is strongly fair. Once the network is stable a tracker's answer lists every process that runs. A
  supplier's resend thread gives up a consumer whose NEXT_TRANS go to another address. Nothing is assumed of
  stopping, of losses, of restarts that the buffer's length causes, or that the network becomes `stable`; the property begins there.
* `Bandwidth`: clients run and their limits pass; the server's pass finds a session late while no other is,
  and its report is sent (weak fairness). Nothing is assumed of the network.
* `DetectPool`: both threads keep running; a time limit that is tested again and again is found to have
  passed, and a send that is tried again and again succeeds (strong fairness on `Report` and `ClearUnused`). Nothing is
  assumed of requests, of `ListenerStops` or of `SelectFails`.

Every configuration allows the system to stop (`CHECK_DEADLOCK FALSE`): the bounds run out, a process ends by an exception, and
the pool, the channel and the clients end.

**Exceptions the liveness properties name** are behaviours of the code, each listed as a hazard: a player told to
start again waits for `recvdFilesNumber` without a look at `EXITftds`, and a restart or the end of the receive thread resets that number
(`ReleaseEnds`); a consumer in `ctsQueryFinished` has no timeout, and a process that is gone never answers (`Stuck` in `ServedInTheEnd` and
`HoleCloses`, which only a START_TRANS already under way can end); one failing `select` loses a port's sessions (`SeenSessionEnds`); an entry that is left without a
thread by the races of `para` and `erase` (`Orphaned` in `SupplierTaskEnds`, which is a theorem to be without an end: `OrphanStays`).

## 4. What the violations show

* `relay_numbers`. `startOneSupplier` writes the new stream's first number to a task whose supplier thread is in the middle
  of a file of the old stream; the rest of that file is numbered from there, and `sentBufQue`, which is
  cleared at the end of the file only, holds two packets of one number.
* `pool_leak`. `getfreesource` tells the listener that a port's thread is at work because a slot of the port is in use. The
  thread may already have found no open session and be on its way out of `taskProc`. The new session
  gets no task; its slot stays in use, so the port is never given a task again.
* `pool_mix`. `setsession` opens the session first and writes its number afterwards, and `clearsession`
  leaves the old number: a late datagram of the slot's last client is accepted in between.

The last two contradict the comment of `MyThread.h` that the lock of `m_ContrSource` protects `msession`.
What it does protect is `FreeIsClosed`, which is proved.

## 5. Proofs

Each proof assumes only the named assumptions of its module: limits and counts are positive, and the values that
stand for none are not among the others. The theorems hold for every number of suppliers, consumers, packets, ports,
sessions, clients and requests, every window, every length of files and every bound.

**LiveTransferProofs.** `FileIsRun` and the others are not inductive. `IInv` adds what they rest on:
* `SentInv`: a supplier's window holds consecutive numbers up to `seqNum - 1`, each packet with its own content;
* `DataInv`: every datagram in flight has the content its number promises;
* `StreamInv`: with `nextPduSeq = 0` the buffer is empty; otherwise the file ends at `nextPduSeq - 1`, the
  buffer's packets sit in their slots, belong to `lastTsUID`, the first slot is empty and the last is not;
* `SessionInv`: types, and that a consumer beyond `ctsQueryFinished` has a supplier.

Lemmas about the data steps (`DrainKeeps`, `TailKeeps`, `AppendKeeps`, `FillKeeps`, `ReorderKeeps`, `KeepOneMore`) say what one
operation preserves; `SentStep`, `DataStep`, `StreamStep` and `SessionStep` lift them to the actions, and `NextInv` puts
them together. `Refinement` uses the invariant to show that every step is a `Begin`, `Extend` or
`Break` of `LiveStream`, or leaves file and flag alone.

**LiveResendProofs.** `RequestsOnlyMissing` is about `sendNextTransForSomeLost`, a loop over the buffer that the model writes as a
fold. `ScanInv` is its loop invariant after `k` slots: the ranges found so far rise and name only missing packets
(`Rising`), their sizes add up to the running total (`Counts`), which is at most `MaxResend`, and an open range began at a hole and
has met nothing but holes since. `ScanCases` splits a slot's effect into the loop's branches and `Cut` is the arithmetic of the
range that is cut at `MaxResend`.

**DataLemmas.** The library's induction theorems have an operator as parameter, which no installed prover can instantiate.
Induction is stated for a *set* of numbers instead (`SetInduction`, from the well-foundedness of strict inclusion between
finite sets), which can be cited like any other fact. From it follow that a non-empty bounded set of numbers has a largest
element, so that `Max` of the community modules has a value, and that a fold over the first `n` positions has a value and obeys its
recursion.

**RelayNodeProofs.** That a relay's numbers are right (`NumbersNameContent`) and that a late consumer misses nothing
(`CatchUpFollows`) cannot be seen from the supplier thread alone: it numbers packets by counting, and reads
them from files that another thread cut. `OneStream` follows the numbers through the disk:
* `ReceiverOK`, `FilesOK`: the file being written and every file but the first begin at a multiple of `FileLen`, plus one, that their
  index gives; the first begins at `firstPacketSeqNum`, which is what the supplier is told;
* `StartOK`, `FlagOK`: `startOneSupplier` and the flag it sets come once, before the supplier thread of its task exists, so that this
  thread never starts over;
* `SupplierOK`: the task's number is the place of the next packet, also between two files;
* `KeptOK`: `sentBufQue` holds every number up to the last one sent, each with its own content;
* `EntryOK`: `seqOffset` is the distance from the next packet the consumer is due to the one the supplier is at, and within `sentBufQue`.

All of it holds until the stream is restarted (`restarts = 0`), which no step comes back to; beyond that `relay_numbers` shows
that it does not. The supplier's part (`Supplied`) is stated of a first index `F` and not of the variable `fileIndex`, because the receive
thread, when it ends, forgets its files and sets that variable to 0 while a supplier thread that was started too late to be told may go on
reading them (`Over`): what it sends is still numbered right. The quotients of file indices
are handled in `Quotient`, `InFile`, `LastPacket`, the deque in `KeepPacket`.

The other theorems of this module need no restriction, or another invariant:
* `TypeCorrect` (`Types`) holds across restarts. `getTheMaxFileIndex` takes the largest index of a set, so the invariant says
  that the indices on disk are bounded. That `seqOffset` is a number rests on the guard of `CatchesUp`.
* `PlayerCorrect` (`FirstOK`, `PlayerOK`, `Told`) is about the order in which the receive thread counts a file, sets
  `needToRestartConsumer` and goes on: a player that has begun on the count may be told once more, and goes back only then.
* `DiskCorrect` holds for any number of restarts and files received again; with the uniqueness of names (`UniqueNames`) it
  gives `DiskBounded`, at most `MaxSaved + 1` files on disk, by an injection of the files into the places of the queue.

**SupplierTableProofs.** The races make it false that a thread is at its own entry, so nothing can be said of pairs of entries and
threads. What holds is a count: `Balance` says that no step lowers the number of unmarked entries less the number of threads that have not
ended. A new consumer adds one to both, a thread that ends takes away one thread and marks at most one entry, and an erasure takes a
marked entry, wherever it moves the others. From it follow `Counted`, never fewer unmarked
entries than threads, and with it `WaitIsEnough`: no unmarked entry, no thread; and `OrphanStays`: once there are more, there always are.

**SessionProofs.** `SomebodyToAsk` is kept because only `RestartQuery` clears the list, and it gives the publication thread the
status in which that fills it again afterwards, not before; it is inductive with the types. `AddressKept` is an action property with no
further invariant.

**BandwidthProofs.** `RoundsApart` needs the `checkid` followed from the request to the answer, the client and its
datagrams (`NetInv`, `GrantInv`), and that a session begins with nothing counted (`FreeIsEmpty`). `TypeOK` includes that `sessionnum` is the number of sessions
in use, which is a proof about cardinalities (`ClearedKeeps`).

**DetectPoolProofs.** `FreeIsClosed` says nothing of the moment between `clearsession` and `setfreesource`, so
it is not inductive. `Handover` is the missing fact: in that moment the slot is still handed out, closed, and
not the one the listener is opening. The theorem is that the order of the two threads' steps does what a lock would.
`Refinement` states what that order is: `SlotLease` is a slot's life free, granted, open, closing, free, with one client while it is
open, and every statement of either thread is one of its steps or none. A slot is never lost by this order; what `pool_leak` shows
is that a lease may wait for ever for its next step.

**Model-checked only.** The liveness properties `HoleCloses`, `ReleaseEnds`, `SupplierTaskEnds`, `ServedInTheEnd`,
`SessionComesBack`, `RoundEnds`, `SeenSessionEnds` and `EveryThreadExits`: liveness under fairness is beyond the prover. Every
invariant and action property of the passing runs, and both refinements, are theorems.

## 6. Not modelled

* `LiveChannel.cpp` cuts a source into files by its PCR, and `config.cpp` reads the configuration: one thread each, arithmetic on time
  stamps and parsing. `RelayNode` uses `getTheMaxFileIndex` of it.
* The contents of what is sent: message layouts, the tracker's registration and channel updates, the per-second counters of
  reports, PCR pacing of the player.
* Memory beyond `consumerDeque`: pointers into the neighbour list after its unlock, locks destroyed while in use or used before
  they are initialised, the node a timer expires on twice. Such steps have no defined outcome to model; they are listed as hazards.
* The first creation of a consumer's threads and the task that `updateSupplierTask` makes by itself run once, before the states
  the models begin with.
* The TCP branches of detectbandwidth cannot be reached (`isudp` is 1); detectwang's own client and the speed client of a live
  node, a copy of it, are the environment of `DetectPool`.
* Event relay: its acknowledgements are commented out, so that nothing depends on its list; `log_test` and `Graph` are sequential
  test programs; `mem_hook` is compiled out; `p2p/` and `src/client` are older copies.
* XML, JSON, HTTP, UPnP, gateway and address libraries are third-party code, and most of the repository's lines beside the copies.
