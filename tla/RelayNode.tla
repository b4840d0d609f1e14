----------------------------- MODULE RelayNode ------------------------------
(***************************************************************************)
(* A node that passes on the channel it receives.  Four threads share the  *)
(* files of the channel, a few counters and two flags, without a common    *)
(* lock: the receive thread (consumerTaskThreadProc_CDN) writes and        *)
(* removes files and calls startOneSupplier, the supplier thread           *)
(* (supplierTaskThreadProc_CDN) reads the files again, numbers and sends   *)
(* them, the ftds thread (ftdsThreadProc1) plays them, and the timer       *)
(* (checkConsumer) restarts the transfer.  The publication thread adds the *)
(* node's own consumer (updateSupplierTask).                               *)
(*                                                                         *)
(* The packets of a stream arrive in order here, which is what             *)
(* LiveTransfer shows of the receive thread.  A packet's content is named  *)
(* by its place at its origin, <<stream, number>>.  File index i of stream *)
(* ts ends with packet i * FileLen; the supplier's file name, which its    *)
(* last packet carries, is [ts, index].                                    *)
(***************************************************************************)
EXTENDS Naturals, Sequences, FiniteSets, FiniteSetsExt

CONSTANTS
  NStream,        \* tsUIDs of the transport streams that may arrive
  FileLen,        \* packets of a file
  SupplierStart,  \* SUPPLIER_START_NUMBER
  FtdsStart,      \* FTDS_START_NUMBER
  MaxSaved,       \* MAX_FILE_SAVED
  Window,         \* RESTART_CHANNEL_CONDITION_2: packets kept in sentBufQue
  Slack,          \* the 1000 packets of updateSupplierTask
  MaxSeq,         \* bound: packets of a stream
  MaxRestart,     \* bound: restarts and changes of the stream ...
  MaxSupplied     \* ... and those of them while the node's supplier thread runs

ASSUME RelayAssumption ==
  /\ {NStream, FileLen, SupplierStart, FtdsStart, MaxSaved, Window} \subseteq Nat \ {0}
  /\ {Slack, MaxSeq, MaxRestart, MaxSupplied} \subseteq Nat

Stream == 1..NStream
Name == [ts : Stream, index : Nat \ {0}]
File == [ts : Stream, index : Nat \ {0}, from : Nat \ {0}]
NoFile == [ts |-> 0, index |-> 0, from |-> 0]
Sent == [ts : Nat, seq : Nat, body : Nat \X Nat]
Task == [tsUID : Nat, seqNum : Nat, fileIndex : Nat, EXITsupplier : BOOLEAN]

VARIABLES
  nextPduSeq,        \* pInfo->nextPduSeq; 0: no packet yet
  lastTsUID,         \* the stream being received; 0: none yet
  firstPacketSeqNum, \* the first packet since nextPduSeq was 0
  openFrom,          \* the first packet in the file being written
  recvdFilesNumber,  \* files finished since nextPduSeq was 0
  fileIndex,         \* pInfo->fileIndex: index of the first of them; 0: none
  receiver,          \* where the receive thread is in finishing a file
  link,              \* where checkConsumer is in a restart
  restarts,          \* restarts and changes of the stream so far
  files,             \* the files of the channel on disk
  savedFile,         \* pInfo->savedFile: names of files, oldest first
  needToRestartSupplier, needToRestartConsumer,
  task,              \* the tsSupplierTask: tsUID, seqNum, fileIndex and EXITsupplier
  sentBufQue,        \* packets kept, oldest first
  supplier,          \* where the supplier thread is
  local,             \* its own tsUID and fileIndex
  source,            \* the file it reads, NoFile when none
  place,             \* number, at the origin, of the next packet to read from it
  header,            \* the packet it is about to send
  entry,             \* the node's consumer: in consumerDeque, its seqOffset, what it
                     \* catches up from, and the last number it was sent
  out,               \* the datagrams of the supplier thread's last send
  thrown,            \* the call on sentBufQue that ended the process: "at", "front" or ""
  player,            \* where the ftds thread is
  playIndex,         \* its fileIndex
  played,            \* the last file it played, NoFile before the first
  release            \* how far the release of the channel is

receiverVars == <<nextPduSeq, lastTsUID, firstPacketSeqNum, openFrom, recvdFilesNumber,
                  receiver, restarts>>
diskVars     == <<files, savedFile>>
supplierVars == <<task, sentBufQue, supplier, local, source, place, header, out>>
playerVars   == <<player, playIndex, played, release>>
vars == <<receiverVars, fileIndex, link, diskVars, needToRestartSupplier,
          needToRestartConsumer, supplierVars, entry, thrown, playerVars>>

NoPacket == [ts |-> 0, seq |-> 0, body |-> <<0, 0>>]
NoEntry == [present |-> FALSE, seqOffset |-> 0, asked |-> 0, last |-> 0]

NoTask == [tsUID |-> 0, seqNum |-> 0, fileIndex |-> 0, EXITsupplier |-> FALSE]

\* The flags that end the receive thread and the player; the supplier thread's is in its
\* task.
EXITftds == release \in {"consumer", "done"}    \* and EXITconsumer

Init ==
  /\ nextPduSeq = 0 /\ lastTsUID = 0 /\ firstPacketSeqNum = 1 /\ openFrom = 0
  /\ recvdFilesNumber = 0 /\ fileIndex = 0
  /\ receiver = "recv" /\ link = "started" /\ restarts = 0
  /\ files = {} /\ savedFile = <<>>
  /\ needToRestartSupplier = FALSE /\ needToRestartConsumer = FALSE
  /\ task = NoTask
  /\ sentBufQue = <<>> /\ supplier = "none"
  /\ local = [tsUID |-> 0, fileIndex |-> 0]
  /\ source = NoFile /\ place = 0 /\ header = NoPacket
  /\ entry = NoEntry /\ out = {} /\ thrown = ""
  /\ player = "wait" /\ playIndex = 0 /\ played = NoFile /\ release = "no"

-----------------------------------------------------------------------------
(* The receive thread.                                                     *)

\* The index of the file packet n is in, and whether it is the file's last
\* (fileMS > 0).
IndexOf(n) == (n - 1) \div FileLen + 1
LastOfFile(n) == n % FileLen = 0

NameOf(f) == [ts |-> f.ts, index |-> f.index]

\* The disk without the file of a name: remove, and rename onto it.
Without(name) == {f \in files : NameOf(f) # name}

\* Packet n of stream ts is the one the file needs: it is written, and the last
\* packet of a file closes the file and gives it its name, also when a file has that
\* name already: a supplier may be behind what was received before.  first, from, recvd
\* are firstPacketSeqNum, the file's first packet and recvdFilesNumber.
Write(ts, n, first, from, recvd) ==
  /\ lastTsUID' = ts
  /\ firstPacketSeqNum' = first
  /\ nextPduSeq' = n + 1
  /\ IF LastOfFile(n)
       THEN /\ fileIndex' = IF fileIndex = 0 THEN IndexOf(n) ELSE fileIndex
            /\ files' = Without([ts |-> ts, index |-> IndexOf(n)])
                          \union {[ts |-> ts, index |-> IndexOf(n), from |-> from]}
            /\ recvdFilesNumber' = recvd + 1
            /\ receiver' = "finish"
            /\ openFrom' = from
       ELSE /\ recvdFilesNumber' = recvd
            /\ openFrom' = from
            /\ UNCHANGED <<fileIndex, files, receiver>>

Receiving == receiver = "recv" /\ ~EXITftds

\* The next packet of the stream.
RecvNext ==
  /\ Receiving
  /\ link # "query"
  /\ nextPduSeq \in 1..MaxSeq
  /\ Write(lastTsUID, nextPduSeq, firstPacketSeqNum, openFrom, recvdFilesNumber)
  /\ UNCHANGED <<link, restarts, savedFile, needToRestartSupplier,
                 needToRestartConsumer, supplierVars, entry, thrown, playerVars>>

\* Bound: there is one more restart.
MayRestart ==
  restarts < (IF supplier \in {"none", "gone"} THEN MaxRestart ELSE MaxSupplied)

\* The first packet after a start or restart.
RecvFirst(n) ==
  /\ Receiving
  /\ link # "query"
  /\ nextPduSeq = 0
  /\ Write(IF lastTsUID = 0 THEN 1 ELSE lastTsUID, n, n, n, 0)
  /\ UNCHANGED <<link, restarts, savedFile, needToRestartSupplier,
                 needToRestartConsumer, supplierVars, entry, thrown, playerVars>>

\* A packet of another stream: everything but fileIndex starts anew, also when the
\* packet itself is dropped because the consumer has no supplier.
ChangeTs(ts, n) ==
  /\ Receiving
  /\ MayRestart
  /\ lastTsUID # 0 /\ ts # lastTsUID
  /\ restarts' = restarts + 1
  /\ IF link = "query"
       THEN /\ lastTsUID' = ts
            /\ recvdFilesNumber' = 0
            /\ nextPduSeq' = 0
            /\ UNCHANGED <<firstPacketSeqNum, openFrom, receiver, fileIndex, files>>
       ELSE Write(ts, n, n, n, 0)
  /\ UNCHANGED <<link, savedFile, needToRestartSupplier,
                 needToRestartConsumer, supplierVars, entry, thrown, playerVars>>

\* The file has its name and is counted; now the player is told of the third one.
FlagConsumer ==
  /\ receiver = "finish"
  /\ receiver' = IF recvdFilesNumber = SupplierStart THEN "flag" ELSE "save"
  /\ needToRestartConsumer' =
       (needToRestartConsumer \/ recvdFilesNumber = FtdsStart)
  /\ UNCHANGED <<nextPduSeq, lastTsUID, firstPacketSeqNum, openFrom, recvdFilesNumber,
                 restarts, fileIndex, link, diskVars, needToRestartSupplier,
                 supplierVars, entry, thrown, playerVars>>

\* The supplier thread is told to restart ...
FlagSupplier ==
  /\ receiver = "flag"
  /\ receiver' = "start"
  /\ needToRestartSupplier' = TRUE
  /\ UNCHANGED <<nextPduSeq, lastTsUID, firstPacketSeqNum, openFrom, recvdFilesNumber,
                 restarts, fileIndex, link, diskVars, needToRestartConsumer,
                 supplierVars, entry, thrown, playerVars>>

\* getTheMaxFileIndex: 0 when there is no file.
MaxIndex == IF files = {} THEN 0 ELSE Max({f.index : f \in files})

\* ... and only then startOneSupplier says with what.  A new task is not told to end,
\* also when the channel is being released.
startOneSupplier ==
  /\ receiver = "start"
  /\ receiver' = "save"
  /\ task' = [tsUID |-> lastTsUID, seqNum |-> firstPacketSeqNum,
              fileIndex |-> IF supplier = "none" /\ fileIndex = 0 THEN MaxIndex
                                                                  ELSE fileIndex,
              EXITsupplier |-> supplier # "none" /\ task.EXITsupplier]
  /\ supplier' = IF supplier = "none" THEN "first" ELSE supplier
  /\ UNCHANGED <<nextPduSeq, lastTsUID, firstPacketSeqNum, openFrom, recvdFilesNumber,
                 restarts, fileIndex, link, diskVars, needToRestartSupplier,
                 needToRestartConsumer, sentBufQue, local, source, place, header, out,
                 entry, thrown, playerVars>>

\* The name of the file being finished.
Finished == [ts |-> lastTsUID, index |-> IndexOf(nextPduSeq - 1)]

\* It is queued for removal, the oldest removed beyond MAX_FILE_SAVED, and the next
\* one opened.
SaveFile ==
  LET all == Append(savedFile, Finished)
  IN
  /\ receiver = "save"
  /\ receiver' = "recv"
  /\ openFrom' = nextPduSeq
  /\ IF Len(all) > MaxSaved
       THEN savedFile' = Tail(all) /\ files' = Without(Head(all))
       ELSE savedFile' = all /\ UNCHANGED files
  /\ UNCHANGED <<nextPduSeq, lastTsUID, firstPacketSeqNum, recvdFilesNumber, restarts,
                 fileIndex, link, needToRestartSupplier, needToRestartConsumer,
                 supplierVars, entry, thrown, playerVars>>

-----------------------------------------------------------------------------
(* The timer: checkConsumer.                                               *)

\* Mutant of RestartClear: the queue of files starts anew, too.
RestartClearSaved ==
  /\ link = "started"
  /\ receiver = "recv"
  /\ ~EXITftds
  /\ MayRestart
  /\ restarts' = restarts + 1
  /\ nextPduSeq' = 0
  /\ recvdFilesNumber' = 0
  /\ link' = "cleared"
  /\ savedFile' = <<>>
  /\ UNCHANGED <<lastTsUID, firstPacketSeqNum, openFrom, receiver, fileIndex, files,
                 needToRestartSupplier, needToRestartConsumer, supplierVars, entry,
                 thrown, playerVars>>

\* A restart empties the buffer under the receive thread's lock ...
RestartClear ==
  /\ link = "started"
  /\ receiver = "recv"
  /\ ~EXITftds
  /\ MayRestart
  /\ restarts' = restarts + 1
  /\ nextPduSeq' = 0
  /\ recvdFilesNumber' = 0
  /\ link' = "cleared"
  /\ UNCHANGED <<lastTsUID, firstPacketSeqNum, openFrom, receiver, fileIndex, diskVars,
                 needToRestartSupplier, needToRestartConsumer, supplierVars, entry,
                 thrown, playerVars>>

\* ... then Status makes the receive thread drop what arrives ...
RestartQuery ==
  /\ link = "cleared" /\ release # "done"
  /\ link' = "query"
  /\ UNCHANGED <<receiverVars, fileIndex, diskVars, needToRestartSupplier,
                 needToRestartConsumer, supplierVars, entry, thrown, playerVars>>

\* ... and DO_YOU_HAVE resets fileIndex before a supplier is chosen.
DoYouHave ==
  /\ link = "query" /\ release # "done"
  /\ link' = "started"
  /\ fileIndex' = 0
  /\ UNCHANGED <<receiverVars, diskVars, needToRestartSupplier, needToRestartConsumer,
                 supplierVars, entry, thrown, playerVars>>

-----------------------------------------------------------------------------
(* The supplier thread: supplierTaskThreadProc_CDN.                        *)

Ends == supplier' = "end" /\ UNCHANGED <<needToRestartSupplier, local, source, place>>

\* The file of index i, whatever its stream: the directory is searched by index.
Opens(i) ==
  \E f \in files :
    /\ f.index = i
    /\ source' = f /\ place' = f.from
    /\ supplier' = "read"

\* The thread copies tsUID and fileIndex as it starts and opens its first file, or
\* ends.
OpenFirst ==
  /\ supplier = "first"
  /\ IF task.EXITsupplier \/ \A f \in files : f.index # task.fileIndex
       THEN Ends
       ELSE /\ local' = [tsUID |-> task.tsUID, fileIndex |-> task.fileIndex]
            /\ Opens(task.fileIndex)
            /\ needToRestartSupplier' = FALSE
  /\ UNCHANGED <<receiverVars, fileIndex, link, diskVars, needToRestartConsumer, task,
                 sentBufQue, header, out, entry, thrown, playerVars>>

\* Mutant of NumberTaken: the number after the increment.
NumberIncremented == task.seqNum + 1

NumberTaken == task.seqNum

\* A packet is read from the file and takes the task's number ...
Number ==
  /\ supplier = "read"
  /\ IF task.EXITsupplier
       THEN supplier' = "end" /\ UNCHANGED header
       ELSE /\ header' = [ts |-> local.tsUID, seq |-> NumberTaken,
                          body |-> <<source.ts, place>>]
            /\ supplier' = "inc"
  /\ UNCHANGED <<receiverVars, fileIndex, link, diskVars, needToRestartSupplier,
                 needToRestartConsumer, task, sentBufQue, local, source, place, out,
                 entry, thrown, playerVars>>

\* ... which is then incremented, with no lock: from its value, or from the one read
\* above.
Increment ==
  /\ supplier = "inc"
  /\ supplier' = "send"
  /\ \E n \in {task.seqNum, header.seq} : task' = [task EXCEPT !.seqNum = n + 1]
  /\ UNCHANGED <<receiverVars, fileIndex, link, diskVars, needToRestartSupplier,
                 needToRestartConsumer, sentBufQue, local, source, place, header, out,
                 entry, thrown, playerVars>>

\* The packet of sentBufQue a consumer that catches up is sent.
Delayed ==
  LET index == Len(sentBufQue) - entry.seqOffset + 1
  IN  [ts |-> task.tsUID, seq |-> sentBufQue[index].seq, body |-> sentBufQue[index].body]

\* It goes to the consumer, or one from sentBufQue does, seqOffset from its end;
\* at() throws when there is no such packet.
Send ==
  /\ supplier = "send"
  /\ supplier' = "keep"
  /\ IF entry.present /\ entry.seqOffset > Len(sentBufQue)
       THEN thrown' = "at" /\ out' = {} /\ UNCHANGED entry
       ELSE /\ out' = IF ~entry.present THEN {}
                      ELSE IF entry.seqOffset = 0 THEN {header} ELSE {Delayed}
            /\ entry' = [entry EXCEPT !.last = Max({0} \union {p.seq : p \in out'})]
            /\ UNCHANGED thrown
  /\ UNCHANGED <<receiverVars, fileIndex, link, diskVars, needToRestartSupplier,
                 needToRestartConsumer, task, sentBufQue, local, source, place, header,
                 playerVars>>

\* Then it is kept, the oldest dropped beyond Window; after the last packet of the
\* file the next one is looked for.
Keep ==
  LET all == Append(sentBufQue, [seq |-> header.seq, body |-> header.body]) IN
  /\ supplier = "keep"
  /\ sentBufQue' = IF Len(all) > Window THEN Tail(all) ELSE all
  /\ IF place = source.index * FileLen
       THEN /\ supplier' = "eof"
            /\ source' = NoFile /\ place' = 0
            /\ local' = [local EXCEPT !.fileIndex = @ + 1]
       ELSE /\ supplier' = "read"
            /\ place' = place + 1
            /\ UNCHANGED <<source, local>>
  /\ out' = {} /\ header' = NoPacket
  /\ UNCHANGED <<receiverVars, fileIndex, link, diskVars, needToRestartSupplier,
                 needToRestartConsumer, task, entry, thrown, playerVars>>

\* Before a file is looked for, the flag is taken ...
CheckFlag ==
  /\ supplier = "eof"
  /\ supplier' = IF needToRestartSupplier THEN "copy" ELSE "find"
  /\ needToRestartSupplier' = FALSE
  /\ UNCHANGED <<receiverVars, fileIndex, link, diskVars, needToRestartConsumer, task,
                 sentBufQue, local, source, place, header, out, entry, thrown,
                 playerVars>>

\* ... and says to start again, from what the task says now.
Copy ==
  /\ supplier = "copy"
  /\ supplier' = "find"
  /\ sentBufQue' = <<>>
  /\ local' = [tsUID |-> task.tsUID, fileIndex |-> task.fileIndex]
  /\ UNCHANGED <<receiverVars, fileIndex, link, diskVars, needToRestartSupplier,
                 needToRestartConsumer, task, source, place, header, out, entry, thrown,
                 playerVars>>

\* The next file, or a look at the flag again, or the end: on EXITsupplier or after
\* WAIT_FOR_ID_TIMES looks.
Find ==
  /\ supplier = "find"
  /\ \/ Opens(local.fileIndex)
     \/ /\ \A f \in files : f.index # local.fileIndex
        /\ supplier' \in {"eof", "end"}
        /\ task.EXITsupplier => supplier' = "end"
        /\ UNCHANGED <<source, place>>
  /\ UNCHANGED <<receiverVars, fileIndex, link, diskVars, needToRestartSupplier,
                 needToRestartConsumer, task, sentBufQue, local, header, out, entry,
                 thrown, playerVars>>

\* The thread, which has set EXITsupplier for its consumers' resend threads, ends when
\* they have; its task stays.
EndOfSupplier ==
  /\ supplier = "end"
  /\ ~entry.present
  /\ supplier' = "gone"
  /\ sentBufQue' = <<>>
  /\ source' = NoFile /\ place' = 0
  /\ UNCHANGED <<receiverVars, fileIndex, link, diskVars, needToRestartSupplier,
                 needToRestartConsumer, task, local, header, out, entry, thrown,
                 playerVars>>

-----------------------------------------------------------------------------
(* The node's consumer.                                                    *)

\* There is a task, and the publication thread is not busy with the release.
Started == supplier # "none" /\ release \in {"no", "done"}

\* Mutant of CatchesUp: the margin at the old end of sentBufQue is left out.
CatchesUpAnywhere(e) == e > 0 /\ e < task.seqNum

\* Mutant of CatchesUp: a number that was not sent yet.
CatchesUpAhead(e) ==
  /\ e > 0
  /\ e > sentBufQue[1].seq + Slack

\* sentBufQue has what the consumer asks for, and some packets before it.
CatchesUp(e) ==
  /\ e > 0
  /\ e < task.seqNum
  /\ e > sentBufQue[1].seq + Slack

\* PLEASE_START_TRANS with expectedSeqNum e.  front() of an empty sentBufQue is
\* undefined.
updateSupplierTask(e) ==
  /\ Started
  /\ IF sentBufQue = <<>> /\ e > 0 /\ e < task.seqNum
       THEN thrown' = "front" /\ UNCHANGED entry
       ELSE /\ entry' = IF sentBufQue # <<>> /\ CatchesUp(e)
                THEN [present |-> TRUE, asked |-> e, last |-> 0,
                      seqOffset |-> task.seqNum - e]
                ELSE [NoEntry EXCEPT !.present = TRUE]
            /\ UNCHANGED thrown
  /\ UNCHANGED <<receiverVars, fileIndex, link, diskVars, needToRestartSupplier,
                 needToRestartConsumer, supplierVars, playerVars>>

\* The consumer's resend thread ends, after a silence or because the task ends.
ResendEnds ==
  /\ entry.present
  /\ entry' = NoEntry
  /\ UNCHANGED <<receiverVars, fileIndex, link, diskVars, needToRestartSupplier,
                 needToRestartConsumer, supplierVars, thrown, playerVars>>

-----------------------------------------------------------------------------
(* The ftds thread: ftdsThreadProc1.                                       *)

othersOfPlayer == <<receiverVars, fileIndex, link, diskVars, needToRestartSupplier,
                    supplierVars, entry, thrown, release>>

\* Mutant of PlayWait: EXITftds is not looked at.
PlayWaitDeaf ==
  /\ player = "wait"
  /\ recvdFilesNumber >= FtdsStart /\ fileIndex > 0
  /\ player' = "open" /\ playIndex' = fileIndex
  /\ UNCHANGED <<othersOfPlayer, needToRestartConsumer, played>>

\* The thread waits for three files ...
PlayWait ==
  /\ player = "wait"
  /\ \/ /\ recvdFilesNumber >= FtdsStart /\ fileIndex > 0
        /\ player' = "open" /\ playIndex' = fileIndex
     \/ /\ recvdFilesNumber < FtdsStart \/ fileIndex = 0
        /\ EXITftds
        /\ player' = "gone" /\ UNCHANGED playIndex
  /\ UNCHANGED <<othersOfPlayer, needToRestartConsumer, played>>

\* ... and opens the first.
PlayOpen ==
  /\ player = "open"
  /\ \/ /\ \E f \in files : f.index = playIndex /\ played' = f
        /\ player' = "play" /\ needToRestartConsumer' = FALSE
     \/ /\ \A f \in files : f.index # playIndex
        /\ EXITftds
        /\ player' = "gone" /\ UNCHANGED <<needToRestartConsumer, played>>
  /\ UNCHANGED <<othersOfPlayer, playIndex>>

\* It plays a file to its end.
Play ==
  /\ player = "play"
  /\ IF EXITftds THEN player' = "gone" /\ UNCHANGED playIndex
                 ELSE player' = "check" /\ playIndex' = playIndex + 1
  /\ UNCHANGED <<othersOfPlayer, needToRestartConsumer, played>>

\* Mutant of PlayCheck: the flag stays set.
PlayCheckKeeps ==
  /\ player = "check"
  /\ player' = IF needToRestartConsumer THEN "loop" ELSE "find"
  /\ UNCHANGED <<othersOfPlayer, needToRestartConsumer, playIndex, played>>

\* The flag says to start again.
PlayCheck ==
  /\ player = "check"
  /\ player' = IF needToRestartConsumer THEN "loop" ELSE "find"
  /\ needToRestartConsumer' = FALSE
  /\ UNCHANGED <<othersOfPlayer, playIndex, played>>

\* For that the thread waits for three files again, without a look at EXITftds.
PlayAgain ==
  /\ player = "loop"
  /\ recvdFilesNumber >= FtdsStart
  /\ player' = "find"
  /\ playIndex' = fileIndex
  /\ UNCHANGED <<othersOfPlayer, needToRestartConsumer, played>>

\* The next file, or a look at the flag again, or the end: on EXITftds or after
\* 10000 looks.
PlayFind ==
  /\ player = "find"
  /\ \/ /\ \E f \in files : f.index = playIndex /\ played' = f
        /\ player' = "play"
     \/ /\ \A f \in files : f.index # playIndex
        /\ player' \in {"check", "gone"}
        /\ EXITftds => player' = "gone"
        /\ UNCHANGED played
  /\ UNCHANGED <<othersOfPlayer, needToRestartConsumer, playIndex>>

-----------------------------------------------------------------------------
(* The release of the channel: ReleaseChannelFromConsumerTask.             *)

othersOfRelease == <<receiverVars, fileIndex, link, savedFile, needToRestartSupplier,
                     needToRestartConsumer, source, place, out, thrown, player, playIndex,
                     played>>

\* The publication thread looks for a supplier task, and tells it to end.
ReleaseSupplier ==
  /\ release = "no"
  /\ IF supplier = "none"
       THEN release' = "erased" /\ UNCHANGED task
       ELSE release' = "supplier" /\ task' = [task EXCEPT !.EXITsupplier = TRUE]
  /\ UNCHANGED <<othersOfRelease, files, sentBufQue, supplier, local, header, entry>>

\* When the thread has ended the task is erased ...
ReleaseErase ==
  /\ release = "supplier"
  /\ supplier = "gone"
  /\ release' = "erased"
  /\ supplier' = "none" /\ task' = NoTask
  /\ local' = [tsUID |-> 0, fileIndex |-> 0]
  /\ sentBufQue' = <<>> /\ header' = NoPacket /\ entry' = NoEntry
  /\ UNCHANGED <<othersOfRelease, files>>

\* ... and the other two threads are told, whatever the receive thread has started
\* meanwhile.
ReleaseConsumer ==
  /\ release = "erased"
  /\ release' = "consumer"
  /\ UNCHANGED <<othersOfRelease, files, task, sentBufQue, supplier, local, header, entry>>

\* When they have ended the consumer task is erased, and the channel's files with it or
\* not (deleteOldFile is called on Linux only).
ReleaseDone ==
  /\ release = "consumer"
  /\ player = "gone" /\ receiver = "gone"
  /\ release' = "done"
  /\ files' \in {files, {}}
  /\ UNCHANGED <<othersOfRelease, task, sentBufQue, supplier, local, header, entry>>

\* The receive thread leaves its loop, forgets the queue of files and the first file ...
ReceiverEnds ==
  /\ receiver = "recv" /\ EXITftds
  /\ receiver' = "end"
  /\ savedFile' = <<>>
  /\ link' = "query"
  /\ fileIndex' = 0
  /\ UNCHANGED <<nextPduSeq, lastTsUID, firstPacketSeqNum, openFrom, recvdFilesNumber,
                 restarts, files, needToRestartSupplier, needToRestartConsumer,
                 supplierVars, entry, thrown, playerVars>>

\* ... and then how many it has.
ReceiverGone ==
  /\ receiver = "end"
  /\ receiver' = "gone"
  /\ recvdFilesNumber' = 0
  /\ UNCHANGED <<nextPduSeq, lastTsUID, firstPacketSeqNum, openFrom, restarts, fileIndex,
                 link, diskVars, needToRestartSupplier, needToRestartConsumer,
                 supplierVars, entry, thrown, playerVars>>

-----------------------------------------------------------------------------

Receiver == FlagConsumer \/ FlagSupplier \/ startOneSupplier \/ SaveFile \/ ReceiverEnds
            \/ ReceiverGone
Supplier == OpenFirst \/ Number \/ Increment \/ Send \/ Keep \/ CheckFlag \/ Copy \/ Find
            \/ EndOfSupplier
Player == PlayWait \/ PlayOpen \/ Play \/ PlayCheck \/ PlayAgain \/ PlayFind
Release == ReleaseErase \/ ReleaseConsumer \/ ReleaseDone

Next ==
  /\ thrown = ""
  /\ \/ RecvNext \/ (\E n \in 1..MaxSeq : RecvFirst(n))
     \/ (\E ts \in Stream, n \in 1..MaxSeq : ChangeTs(ts, n))
     \/ Receiver
     \/ RestartClear \/ RestartQuery \/ DoYouHave
     \/ Supplier
     \/ (\E e \in 0..MaxSeq : updateSupplierTask(e)) \/ ResendEnds
     \/ Player
     \/ ReleaseSupplier \/ Release

Spec == Init /\ [][Next]_vars

\* Every thread of the program is scheduled, and a resend thread that is told to end
\* does.  A supplier thread ends after WAIT_FOR_ID_TIMES looks for a file when none is
\* written any more, and finds its resend threads ended once: consumers do not ask a
\* thread that ends for the stream again and again for ever.  Nothing is assumed of the
\* network, the timer or the operator.
Fairness ==
  /\ WF_vars(thrown = "" /\ Receiver)
  /\ WF_vars(thrown = "" /\ Supplier)
  /\ WF_vars(thrown = "" /\ Player)
  /\ WF_vars(thrown = "" /\ supplier = "end" /\ ResendEnds)
  /\ SF_vars(thrown = "" /\ receiver = "gone" /\ Find /\ supplier' = "end")
  /\ SF_vars(thrown = "" /\ EndOfSupplier)
  /\ WF_vars(thrown = "" /\ Release)

FairSpec == Spec /\ Fairness

-----------------------------------------------------------------------------
(* Properties.                                                             *)

\* The variables have their types.
TypeOK ==
  /\ {nextPduSeq, lastTsUID, firstPacketSeqNum, openFrom, recvdFilesNumber, fileIndex,
      restarts, place, playIndex} \subseteq Nat
  /\ receiver \in {"recv", "finish", "flag", "start", "save", "end", "gone"}
  /\ link \in {"started", "cleared", "query"}
  /\ files \subseteq File
  /\ savedFile \in Seq(Name)
  /\ {needToRestartSupplier, needToRestartConsumer} \subseteq BOOLEAN
  /\ thrown \in {"", "at", "front"}
  /\ task \in Task
  /\ sentBufQue \in Seq([seq : Nat, body : Nat \X Nat])
  /\ supplier \in {"none", "first", "read", "inc", "send", "keep", "eof", "copy", "find",
                   "end", "gone"}
  /\ local \in [tsUID : Nat, fileIndex : Nat]
  /\ {source, played} \subseteq File \union {NoFile}
  /\ header \in Sent
  /\ entry \in [present : BOOLEAN, seqOffset : Nat, asked : Nat, last : Nat]
  /\ out \subseteq Sent
  /\ player \in {"wait", "open", "play", "check", "loop", "find", "gone"}
  /\ release \in {"no", "supplier", "erased", "consumer", "done"}

\* What a packet is numbered is what it is: the node sends on every packet under the
\* stream and the number it had at its origin, so that a consumer may change between
\* suppliers.  The data races of the supplier thread do no harm as long as the stream
\* is not restarted.
NumbersNameContent ==
  restarts = 0 => \A p \in out : p.body = <<p.ts, p.seq>>

\* No two packets kept in sentBufQue have the same number: seqNum of pduBuffer is
\* said to be unique.
SeqNumUnique ==
  \A i, j \in DOMAIN sentBufQue : sentBufQue[i].seq = sentBufQue[j].seq => i = j

\* A consumer that catches up is sent first the packet it asked for, or the one before
\* when it asked while a packet was being sent, and then every packet in order: what
\* is dropped from sentBufQue in between never moves it.  at() never throws; front()
\* may, when a consumer asks before the first packet is kept.
CatchUpFollows ==
  [][restarts = 0 =>
       /\ thrown' # "at"
       /\ \A p \in out' \ out :
            IF entry.last = 0
              THEN entry.seqOffset = 0 \/ p.seq \in {entry.asked - 1, entry.asked}
              ELSE p.seq = entry.last + 1]_vars

\* As long as the receive thread runs, whatever is restarted, changed or received
\* again, the disk does not fill up: at most MaxSaved files are queued for removal, and
\* no file is on disk that is not queued, but the one being finished.
DiskQueued ==
  receiver \notin {"end", "gone"} =>
    /\ Len(savedFile) <= MaxSaved
    /\ \A f \in files :
         \/ \E i \in DOMAIN savedFile : savedFile[i] = NameOf(f)
         \/ receiver # "recv" /\ NameOf(f) = Finished

\* Until the stream is restarted the player skips no file and goes back at most once,
\* to the first: it starts on recvdFilesNumber, which is counted before the flag to
\* start again is set, and may meet that flag at the end of a file.
PlayerInOrder ==
  [][restarts = 0 /\ played' # played /\ played # NoFile =>
       \/ played'.index = played.index + 1
       \/ /\ played'.index = IndexOf(firstPacketSeqNum)
          /\ ~needToRestartConsumer
          /\ receiver = "finish" => recvdFilesNumber # FtdsStart]_vars

\* A channel that is being released loses its threads, also a supplier thread that is
\* started too late to be told to end.  Except that the player waits for ever when it is
\* told to start again and recvdFilesNumber is reset, by a restart that finds too few
\* files or by the end of the receive thread: PlayAgain does not look at EXITftds.
ReleaseEnds ==
  release # "no" ~> \/ thrown # ""
                    \/ supplier \in {"none", "gone"} /\ player = "gone" /\ receiver = "gone"
                    \/ player = "loop" /\ recvdFilesNumber < FtdsStart
=============================================================================
