----------------------------- MODULE DiskQueue -----------------------------
(***************************************************************************)
(* The broker's durable FIFO, src/nsqd/diskqueue.go.                       *)
(*                                                                         *)
(* One ioLoop goroutine owns the positional state.  Put, Empty and Close   *)
(* reach it over unbuffered channels, and the consumer takes messages from *)
(* readChan.  The loop is modelled as a program counter: LoopTop* is the   *)
(* top of the for-loop (the syncEvery counter and the read-ahead), the     *)
(* select cases are Deliver, DoEmpty, Put and Exit.                        *)
(*                                                                         *)
(* Segment files are sequences of records [id, len]; a record occupies     *)
(* 4 + len bytes, and positions are byte offsets as in the code.  Files   *)
(* are opened O_APPEND, so a write always lands at the end of the file     *)
(* whatever writePos says; the file handles themselves are left out (see  *)
(* README).  The metadata file is a record or NoMeta.  A crash loses the  *)
(* in-memory state and keeps files and metadata.                          *)
(***************************************************************************)
EXTENDS Integers, Sequences, SequencesExt, FiniteSets

CONSTANTS
    MaxBytesPerFile,  \* maxBytesPerFile: roll once a position exceeds it
    SyncEvery,        \* syncEvery: ioLoop iterations between syncs
    DataLens,         \* lengths of the payloads a Put may carry
    MaxPuts,          \* bound: number of successful writes
    MaxEmpties,       \* bound: number of Empty() calls
    MaxCloses,        \* bound: number of Close() calls
    MaxCrashes,       \* bound: number of process crashes
    SyncCanFail,      \* whether fsync / metadata persistence may fail
    NoMeta,           \* model value: no metadata file on disk
    NoData            \* model value: ioLoop's dataRead before any read

ASSUME /\ MaxBytesPerFile \in Nat /\ SyncEvery \in Nat \ {0}
       /\ DataLens \subseteq Nat /\ DataLens # {}
       /\ {MaxPuts, MaxEmpties, MaxCloses, MaxCrashes} \subseteq Nat
       /\ SyncCanFail \in BOOLEAN

VARIABLES
    files,            \* segment number -> Seq of records on disk
    meta,             \* contents of <name>.diskqueue.meta.dat
    readPos, readFileNum, writePos, writeFileNum, depth,
    nextReadPos, nextReadFileNum,
    dataRead,         \* ioLoop's local: the record read ahead
    count,            \* ioLoop's local: iterations since the last sync
    ioLoop,           \* "top" | "select" | "stopped"
    status,           \* "open" | "closing" (exitFlag = 1) | "closed" | "crashed"
    written,          \* history: ids appended to a segment, in order
    delivered,        \* history: ids handed over on readChan, in order
    discarded,        \* history: ids thrown away by Empty()
    empties, closes, crashes

pos  == <<readPos, readFileNum, writePos, writeFileNum, depth,
          nextReadPos, nextReadFileNum>>
hist == <<written, delivered, discarded, empties, closes, crashes>>
vars == <<files, meta, pos, dataRead, count, ioLoop, status, hist>>

Ids == 1..MaxPuts
Record == [id : Ids, len : DataLens]
SyncOutcomes == IF SyncCanFail THEN BOOLEAN ELSE {TRUE}

-----------------------------------------------------------------------------
(* On-disk layout: [u32 length][payload], no header, no padding.           *)

Size(r) == 4 + r.len

Bytes(s) == FoldLeft(LAMBDA acc, r : acc + Size(r), 0, s)

\* indices of the records of segment f that start at byte offset p
StartsAt(f, p) ==
    IF f \in DOMAIN files
    THEN {i \in DOMAIN files[f] : Bytes(SubSeq(files[f], 1, i - 1)) = p}
    ELSE {}

HasRecordAt(f, p) == StartsAt(f, p) # {}

RecordAt(f, p) == files[f][CHOOSE i \in StartsAt(f, p) : TRUE]

\* readOne's computation of nextReadFileNum / nextReadPos after reading r
Advance(f, p, r) ==
    IF p + Size(r) > MaxBytesPerFile THEN <<f + 1, 0>> ELSE <<f, p + Size(r)>>

\* mutant of HasData: compares the byte positions only
HasDataSameFile == readPos < writePos

HasData == readFileNum < writeFileNum \/ readPos < writePos

\* persistMetaData: the five integers written to the .tmp file and renamed
Snapshot(d, rf, rp, wf, wp) ==
    [depth |-> d, readFileNum |-> rf, readPos |-> rp,
     writeFileNum |-> wf, writePos |-> wp]

\* sync(): fsync + persist the snapshot m, or a failure that leaves the old
\* metadata in place
Sync(ok, m) == meta' = IF ok THEN m ELSE meta

RemoveFiles(S) == [n \in DOMAIN files \ S |-> files[n]]

(* Put and Empty refuse ("exiting") once Close has set exitFlag; else they *)
(* send on an unbuffered channel that only ioLoop's select receives.       *)
Accepting == status = "open" /\ ioLoop = "select"

(* Close(), once ioLoop has exited: close the read and write files and     *)
(* sync() the final positions.                                             *)
CloseSync ==
    \E ok \in SyncOutcomes :
        Sync(ok, Snapshot(depth, readFileNum, readPos, writeFileNum, writePos))

-----------------------------------------------------------------------------
(* NewDiskQueue on an empty data directory: no metadata file.              *)
Init ==
    /\ files = <<>>
    /\ meta = NoMeta
    /\ readPos = 0 /\ readFileNum = 0 /\ writePos = 0 /\ writeFileNum = 0
    /\ depth = 0 /\ nextReadPos = 0 /\ nextReadFileNum = 0
    /\ dataRead = NoData
    /\ count = 0
    /\ ioLoop = "top"
    /\ status = "open"
    /\ written = <<>> /\ delivered = <<>> /\ discarded = {}
    /\ empties = 0 /\ closes = 0 /\ crashes = 0

\* mutant of LoopCount: the counter is never reset after a sync
LoopCountNoReset ==
    \E ok \in SyncOutcomes :
        /\ count' = count + 1
        /\ IF count + 1 = SyncEvery
           THEN Sync(ok, Snapshot(depth, readFileNum, readPos,
                                 writeFileNum, writePos))
           ELSE UNCHANGED meta

\* mutant of LoopCount: persists the read-ahead position instead of readPos
LoopCountPersistsReadAhead ==
    \E ok \in SyncOutcomes :
        IF count + 1 = SyncEvery
        THEN /\ count' = 0
             /\ Sync(ok, Snapshot(depth, nextReadFileNum, nextReadPos,
                                  writeFileNum, writePos))
        ELSE /\ count' = count + 1
             /\ UNCHANGED meta

(* Top of the ioLoop for-loop: count++, sync when count == syncEvery.      *)
LoopCount ==
    \E ok \in SyncOutcomes :
        IF count + 1 = SyncEvery
        THEN /\ count' = 0
             /\ Sync(ok, Snapshot(depth, readFileNum, readPos,
                                  writeFileNum, writePos))
        ELSE /\ count' = count + 1
             /\ UNCHANGED meta

Running == status \in {"open", "closing"}

(* Data to read and nothing read ahead yet: readOne() succeeds.            *)
LoopTopRead ==
    /\ Running /\ ioLoop = "top"
    /\ LoopCount
    /\ HasData /\ nextReadPos = readPos
    /\ HasRecordAt(readFileNum, readPos)
    /\ LET r == RecordAt(readFileNum, readPos)
           n == Advance(readFileNum, readPos, r)
       IN /\ dataRead' = r
          /\ nextReadFileNum' = n[1]
          /\ nextReadPos' = n[2]
    /\ ioLoop' = "select"
    /\ UNCHANGED <<files, readPos, readFileNum, writePos, writeFileNum,
                   depth, status, hist>>

(* readOne() fails (no such file, or EOF at readPos): the error is logged  *)
(* and the loop continues without reaching the select.                     *)
LoopTopReadError ==
    /\ Running /\ ioLoop = "top"
    /\ LoopCount
    /\ HasData /\ nextReadPos = readPos
    /\ ~HasRecordAt(readFileNum, readPos)
    /\ UNCHANGED <<files, pos, dataRead, ioLoop, status, hist>>

(* No data, or a record already read ahead: straight to the select.        *)
LoopTopNoRead ==
    /\ Running /\ ioLoop = "top"
    /\ LoopCount
    /\ ~(HasData /\ nextReadPos = readPos)
    /\ ioLoop' = "select"
    /\ UNCHANGED <<files, pos, dataRead, status, hist>>

\* mutant of Deliver: removes the old segment even when the sync failed
DeliverRemovesUnsynced ==
    /\ Running /\ ioLoop = "select"
    /\ HasData
    /\ readFileNum' = nextReadFileNum
    /\ readPos' = nextReadPos
    /\ depth' = depth - 1
    /\ delivered' = Append(delivered, dataRead.id)
    /\ IF readFileNum # nextReadFileNum
       THEN \E ok \in SyncOutcomes :
              /\ Sync(ok, Snapshot(depth - 1, nextReadFileNum, nextReadPos,
                                    writeFileNum, writePos))
              /\ files' = RemoveFiles({readFileNum})
       ELSE UNCHANGED <<meta, files>>
    /\ ioLoop' = "top"
    /\ UNCHANGED <<writePos, writeFileNum, nextReadPos, nextReadFileNum,
                   dataRead, count, status, written, discarded, empties,
                   closes, crashes>>

(* case r <- dataRead: the consumer took the record; commit next* and,     *)
(* when the read crossed into a new segment, sync and only then remove the *)
(* old segment.                                                            *)
Deliver ==
    /\ Running /\ ioLoop = "select"
    /\ HasData
    /\ readFileNum' = nextReadFileNum
    /\ readPos' = nextReadPos
    /\ depth' = depth - 1
    /\ delivered' = Append(delivered, dataRead.id)
    /\ IF readFileNum # nextReadFileNum
       THEN \E ok \in SyncOutcomes :
              /\ Sync(ok, Snapshot(depth - 1, nextReadFileNum, nextReadPos,
                                    writeFileNum, writePos))
              /\ files' = IF ok THEN RemoveFiles({readFileNum}) ELSE files
       ELSE UNCHANGED <<meta, files>>
    /\ ioLoop' = "top"
    /\ UNCHANGED <<writePos, writeFileNum, nextReadPos, nextReadFileNum,
                   dataRead, count, status, written, discarded, empties,
                   closes, crashes>>

\* mutant of DoEmpty: depth is not zeroed
DoEmptyKeepsDepth ==
    /\ status = "open" /\ ioLoop = "select"
    /\ empties < MaxEmpties
    /\ readFileNum' = writeFileNum /\ readPos' = writePos
    /\ nextReadFileNum' = writeFileNum /\ nextReadPos' = writePos
    /\ \E ok \in SyncOutcomes :
         /\ Sync(ok, Snapshot(0, writeFileNum, writePos,
                               writeFileNum, writePos))
         /\ files' = IF ok
                     THEN RemoveFiles({n \in readFileNum..(writeFileNum - 1) :
                             \A k \in readFileNum..n : k \in DOMAIN files})
                     ELSE files
    /\ discarded' = discarded \cup
                      (ToSet(written) \ (ToSet(delivered) \cup discarded))
    /\ empties' = empties + 1
    /\ ioLoop' = "top"
    /\ UNCHANGED <<depth, writePos, writeFileNum, dataRead, count, status, written,
                   delivered, closes, crashes>>

\* mutant of DoEmpty: the read-ahead cursor is not moved to the write side
DoEmptyKeepsReadAhead ==
    /\ status = "open" /\ ioLoop = "select"
    /\ empties < MaxEmpties
    /\ readFileNum' = writeFileNum /\ readPos' = writePos
    /\ depth' = 0
    /\ \E ok \in SyncOutcomes :
         /\ Sync(ok, Snapshot(0, writeFileNum, writePos,
                               writeFileNum, writePos))
         /\ files' = IF ok
                     THEN RemoveFiles({n \in readFileNum..(writeFileNum - 1) :
                             \A k \in readFileNum..n : k \in DOMAIN files})
                     ELSE files
    /\ discarded' = discarded \cup
                      (ToSet(written) \ (ToSet(delivered) \cup discarded))
    /\ empties' = empties + 1
    /\ ioLoop' = "top"
    /\ UNCHANGED <<writePos, writeFileNum, nextReadPos, nextReadFileNum,
                   dataRead, count, status, written, delivered, closes,
                   crashes>>

(* Empty() -> case <-emptyChan -> doEmpty(): fast-forward the read side to *)
(* the write side, sync, then remove the skipped segments in order,        *)
(* stopping at the first Remove that fails.                                *)
DoEmpty ==
    /\ Accepting
    /\ empties < MaxEmpties
    /\ readFileNum' = writeFileNum /\ readPos' = writePos
    /\ nextReadFileNum' = writeFileNum /\ nextReadPos' = writePos
    /\ depth' = 0
    /\ \E ok \in SyncOutcomes :
         /\ Sync(ok, Snapshot(0, writeFileNum, writePos,
                               writeFileNum, writePos))
         /\ files' = IF ok
                     THEN RemoveFiles({n \in readFileNum..(writeFileNum - 1) :
                             \A k \in readFileNum..n : k \in DOMAIN files})
                     ELSE files
    /\ discarded' = discarded \cup
                      (ToSet(written) \ (ToSet(delivered) \cup discarded))
    /\ empties' = empties + 1
    /\ ioLoop' = "top"
    /\ UNCHANGED <<writePos, writeFileNum, dataRead, count, status, written,
                   delivered, closes, crashes>>

\* mutant of Put: rolls when writePos reaches maxBytesPerFile
PutRollAtLimit(len) ==
    /\ status = "open" /\ ioLoop = "select"
    /\ Len(written) < MaxPuts
    /\ LET r   == [id |-> Len(written) + 1, len |-> len]
           seg == IF writeFileNum \in DOMAIN files
                  THEN files[writeFileNum] ELSE <<>>
           p   == writePos + Size(r)
       IN /\ files' = [n \in DOMAIN files \cup {writeFileNum} |->
                         IF n = writeFileNum THEN Append(seg, r) ELSE files[n]]
          /\ depth' = depth + 1
          /\ written' = Append(written, r.id)
          /\ IF p >= MaxBytesPerFile
             THEN /\ writeFileNum' = writeFileNum + 1
                  /\ writePos' = 0
                  /\ \E ok \in SyncOutcomes :
                       Sync(ok, Snapshot(depth + 1, readFileNum, readPos,
                                         writeFileNum + 1, 0))
             ELSE /\ writePos' = p
                  /\ UNCHANGED <<writeFileNum, meta>>
    /\ ioLoop' = "top"
    /\ UNCHANGED <<readPos, readFileNum, nextReadPos, nextReadFileNum,
                   dataRead, count, status, delivered, discarded, empties,
                   closes, crashes>>

(* Put(data) -> case <-writeChan -> writeOne(): append [len][data] at the  *)
(* end of the current segment (created if missing), advance writePos and   *)
(* depth, and roll + sync once writePos exceeds maxBytesPerFile.           *)
Put(len) ==
    /\ Accepting
    /\ Len(written) < MaxPuts
    /\ LET r   == [id |-> Len(written) + 1, len |-> len]
           seg == IF writeFileNum \in DOMAIN files
                  THEN files[writeFileNum] ELSE <<>>
           p   == writePos + Size(r)
       IN /\ files' = [n \in DOMAIN files \cup {writeFileNum} |->
                         IF n = writeFileNum THEN Append(seg, r) ELSE files[n]]
          /\ depth' = depth + 1
          /\ written' = Append(written, r.id)
          /\ IF p > MaxBytesPerFile
             THEN /\ writeFileNum' = writeFileNum + 1
                  /\ writePos' = 0
                  /\ \E ok \in SyncOutcomes :
                       Sync(ok, Snapshot(depth + 1, readFileNum, readPos,
                                         writeFileNum + 1, 0))
             ELSE /\ writePos' = p
                  /\ UNCHANGED <<writeFileNum, meta>>
    /\ ioLoop' = "top"
    /\ UNCHANGED <<readPos, readFileNum, nextReadPos, nextReadFileNum,
                   dataRead, count, status, delivered, discarded, empties,
                   closes, crashes>>

(* Close(): set exitFlag under the write lock and close exitChan.          *)
CloseBegin ==
    /\ status = "open"
    /\ closes < MaxCloses
    /\ status' = "closing"
    /\ closes' = closes + 1
    /\ UNCHANGED <<files, meta, pos, dataRead, count, ioLoop, written,
                   delivered, discarded, empties, crashes>>

\* mutant of Exit: Close() releases the files without persisting metadata
ExitWithoutSync ==
    /\ status = "closing" /\ ioLoop = "select"
    /\ ioLoop' = "stopped"
    /\ status' = "closed"
    /\ UNCHANGED <<files, meta, pos, dataRead, count, hist>>

(* case <-exitChan: ioLoop exits; Close() closes the files and syncs.      *)
Exit ==
    /\ status = "closing" /\ ioLoop = "select"
    /\ ioLoop' = "stopped"
    /\ status' = "closed"
    /\ CloseSync
    /\ UNCHANGED <<files, pos, dataRead, count, hist>>

(* The process dies: memory is lost, files and metadata stay.              *)
Crash ==
    /\ Running
    /\ crashes < MaxCrashes
    /\ status' = "crashed"
    /\ ioLoop' = "stopped"
    /\ crashes' = crashes + 1
    /\ UNCHANGED <<files, meta, pos, dataRead, count, written, delivered,
                   discarded, empties, closes>>

(* NewDiskQueue on the same data directory: retrieveMetaData (a missing    *)
(* file leaves every position 0), next* := read*, start the ioLoop.        *)
Restart ==
    /\ status \in {"closed", "crashed"}
    /\ LET m == IF meta = NoMeta THEN Snapshot(0, 0, 0, 0, 0) ELSE meta
       IN /\ depth' = m.depth
          /\ readFileNum' = m.readFileNum /\ readPos' = m.readPos
          /\ writeFileNum' = m.writeFileNum /\ writePos' = m.writePos
          /\ nextReadFileNum' = m.readFileNum /\ nextReadPos' = m.readPos
    /\ dataRead' = NoData
    /\ count' = 0
    /\ ioLoop' = "top"
    /\ status' = "open"
    /\ UNCHANGED <<files, meta, hist>>

Next ==
    \/ LoopTopRead \/ LoopTopReadError \/ LoopTopNoRead
    \/ Deliver \/ DoEmpty \/ \E l \in DataLens : Put(l)
    \/ CloseBegin \/ Exit \/ Crash \/ Restart

(* The ioLoop goroutine is always runnable and the consumer (the channel's *)
(* message pump) always receives from readChan; Go's select picks among    *)
(* ready cases uniformly at random, hence strong fairness for the cases.   *)
(* A stopped queue is eventually reopened.                                 *)
Fairness ==
    /\ WF_vars(LoopTopRead) /\ WF_vars(LoopTopReadError)
    /\ WF_vars(LoopTopNoRead)
    /\ SF_vars(Deliver) /\ SF_vars(Exit)
    /\ WF_vars(Restart)

Spec == Init /\ [][Next]_vars /\ Fairness

-----------------------------------------------------------------------------
(* The records the positions say are pending: walk from a read cursor with *)
(* readOne's stepping rule until the write cursor.  A 0 in the result      *)
(* marks a cursor with no record where the walk expected one.              *)
RECURSIVE Walk(_, _, _, _, _)
Walk(f, p, ef, ep, fuel) ==
    IF f = ef /\ p = ep THEN <<>>
    ELSE IF fuel = 0 \/ ~HasRecordAt(f, p) THEN <<0>>
    ELSE LET r == RecordAt(f, p)
             n == Advance(f, p, r)
         IN <<r.id>> \o Walk(n[1], n[2], ef, ep, fuel - 1)

Pending == Walk(readFileNum, readPos, writeFileNum, writePos, MaxPuts + 1)

\* what the history says the queue holds: written, neither delivered nor
\* thrown away by Empty(), in write order
Undelivered ==
    SelectSeq(written, LAMBDA i : i \notin ToSet(delivered) \cup discarded)

TypeOK ==
    /\ DOMAIN files \subseteq Nat
    /\ \A n \in DOMAIN files : files[n] \in Seq(Record)
    /\ meta = NoMeta \/ meta \in [depth : Int, readFileNum : Nat, readPos : Nat,
                                  writeFileNum : Nat, writePos : Nat]
    /\ {readPos, readFileNum, writePos, writeFileNum,
        nextReadPos, nextReadFileNum} \subseteq Nat
    /\ depth \in Int
    /\ dataRead \in Record \cup {NoData}
    /\ count \in 0..SyncEvery
    /\ ioLoop \in {"top", "select", "stopped"}
    /\ status \in {"open", "closing", "closed", "crashed"}
    /\ written \in Seq(Ids) /\ delivered \in Seq(Ids)
    /\ discarded \subseteq Ids

(* FIFO and no loss: the records between the read and the write cursor    *)
(* are exactly the written, undelivered, not emptied messages, in write    *)
(* order.  Exercises writeOne's and readOne's rolling, the read-ahead      *)
(* commit in the readChan case, doEmpty and reopening after Close.  Stated *)
(* up to the first crash, which may lose or misalign records (see below).  *)
QueueMatchesHistory == crashes = 0 => Pending = Undelivered

(* Depth() = number of pending records: the atomic depth counter, bumped   *)
(* in writeOne, decremented on hand-off, zeroed by doEmpty and restored    *)
(* from the metadata file, agrees with the positions.                      *)
DepthIsPending == status # "crashed" => depth = Len(Pending)

(* Each message is handed to the consumer at most once and in write       *)
(* order (the read-ahead is committed only after a successful send).       *)
DeliveredInOrder ==
    \A i, j \in DOMAIN delivered : i < j => delivered[i] < delivered[j]

(* The persisted metadata always describes a readable queue: walking the   *)
(* segments on disk from its read cursor reaches its write cursor through  *)
(* exactly depth records.  Segments are removed only after a successful    *)
(* sync (readChan case, doEmpty), so a first crash at any point could     *)
(* restart.  A restart may misalign the writer (O_APPEND), so this is      *)
(* stated up to the first crash.                                           *)
MetaRecoverable ==
    crashes = 0 /\ meta # NoMeta =>
        LET w == Walk(meta.readFileNum, meta.readPos,
                      meta.writeFileNum, meta.writePos, MaxPuts + 1)
        IN 0 \notin ToSet(w) /\ Len(w) = meta.depth

(* Every message written to a segment is eventually handed to the consumer *)
(* or discarded by Empty(), across Close() and reopen.                     *)
WrittenEventuallyDelivered ==
    \A i \in Ids :
        (i \in ToSet(written)) ~> (i \in ToSet(delivered) \cup discarded)

(* Close returns: once exitFlag is set and exitChan closed, the ioLoop     *)
(* reaches its exit case and Close's final sync happens (or the process    *)
(* crashes first).                                                         *)
CloseCompletes == (status = "closing") ~> (status \in {"closed", "crashed"})

-----------------------------------------------------------------------------
(* Refinement: without crashes, DiskQueue implements DurableQueue.  The     *)
(* abstract queue is what the positions say is pending on disk, the        *)
(* consumer's history is the sequence handed over on readChan, and Put and *)
(* Empty are accepted while exitFlag is 0.  The read-ahead, the syncs, the *)
(* segment rolls and removals, the loop-top steps, Exit and Restart's      *)
(* reload are stuttering steps of the abstract queue.                      *)
Abstract == INSTANCE DurableQueue
                WITH Msgs <- Ids, queue <- Pending, out <- delivered,
                     accepting <- (status = "open")

(* DiskQueue behaves as the durable FIFO it offers, including liveness:    *)
(* every pending message is eventually handed out (the abstract WF of Get) *)
(* across Empty, Close and reopening.                                      *)
ImplementsDurableQueue == Abstract!Spec

=============================================================================
