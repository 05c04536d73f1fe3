----------------------------- MODULE EventQueue -----------------------------
(***************************************************************************)
(* The exporter: the Debezium sink of yb-voyager that writes the changes   *)
(* of the source to the change queue (YbExporterConsumer, EventQueue,      *)
(* QueueSegment and ExportStatus).                                         *)
(*                                                                         *)
(* Two threads run in the process.  "main" is Debezium's engine thread in  *)
(* handleBatch: it writes the records of a batch, flushes and syncs the    *)
(* segment at the end of the batch and then commits the offsets.           *)
(* "flusher" looks every two seconds for a cutover request; it writes the  *)
(* switch record, closes the queue and exits.  Writing a record and the    *)
(* whole cutover are synchronized on the event queue; the flush and the    *)
(* sync at the end of a batch are not.                                     *)
(***************************************************************************)
EXTENDS QueueSegments, FiniteSetsExt
LOCAL INSTANCE Functions

CONSTANTS
  QueueSegmentMaxRecords,  \* queueSegmentMaxBytes, in records
  HasEventIds,             \* records carry an event id (postgresql, oracle)
  maxCacheSize,            \* capacity of the event dedup cache
  MaxBatch,                \* changes Debezium hands over in one batch
  MaxCrashes,              \* bound: crashes of the exporter
  PowerLoss                \* a crash may be a power loss, which takes what has not
                           \* been synced

ASSUME ExporterAssumption ==
  /\ QueueSegmentMaxRecords \in Nat \ {0}
  /\ HasEventIds \in BOOLEAN /\ PowerLoss \in BOOLEAN
  /\ MaxBatch \in Nat \ {0} /\ MaxCrashes \in Nat
  /\ maxCacheSize \in Nat /\ maxCacheSize >= 2 * MaxBatch

Threads == {"main", "flusher"}
NoLock == "none"

VARIABLES
  process,   \* "up", "down", or "exited" after the cutover record
  pc,        \* where each thread is
  return,    \* where each thread goes on after close() or sync()
  syncing,   \* the segment each thread is closing or syncing
  lock,      \* the owner of the event queue's monitor
  cur,       \* currentQueueSegment
  buffer,    \* lines in the BufferedWriter of the current segment
  synced,    \* lines of each file that have reached the disk
  delta,     \* eventCountDeltaPerTable of each segment, summed
  closed,    \* segments whose writer this process has closed
  nextVsn,   \* the next value of the SequenceNumberGenerator
  dedup,     \* the event dedup cache
  pos,       \* the last change of the source that main has dealt with
  batchEnd,  \* the last change of the batch being handled
  shutDown,  \* YbExporterConsumer.shutDown
  crashes,   \* crashes so far
  torn       \* history: a power loss has taken lines that a committed size
             \* covers

processVars == <<process, shutDown, crashes, torn>>
threadVars == <<pc, return, syncing, lock>>
writerVars == <<cur, buffer, synced, delta, closed>>
batchVars == <<nextVsn, dedup, pos, batchEnd>>
exporterVars == <<processVars, threadVars, writerVars, batchVars>>

MainPcs == {"poll", "write", "close", "fsync", "meta", "clear", "row",
            "create", "offsets", "stopped"}
FlusherPcs == {"watch", "cutover", "close", "fsync", "meta", "clear", "row",
               "create", "exit"}

Goto(t, l) == pc' = [pc EXCEPT ![t] = l]

ExporterTypeOK ==
  /\ process \in {"up", "down", "exited"}
  /\ pc \in [Threads -> MainPcs \cup FlusherPcs]
  /\ return \in [Threads -> {"row", "offsets", "exit"}]
  /\ syncing \in [Threads -> Segments]
  /\ lock \in Threads \cup {NoLock}
  /\ cur \in Segments
  /\ \A i \in DOMAIN buffer : buffer[i] \in Records
  /\ synced \in [Segments -> Nat] /\ delta \in [Segments -> Nat]
  /\ closed \subseteq Segments
  /\ nextVsn \in Nat /\ dedup \subseteq Changes
  /\ pos \in 0 .. NumChanges /\ batchEnd \in 0 .. NumChanges
  /\ shutDown \in BOOLEAN /\ torn \in BOOLEAN /\ crashes \in 0 .. MaxCrashes

ExporterInit ==
  /\ process = "up" /\ shutDown = FALSE /\ crashes = 0 /\ torn = FALSE
  /\ pc = [main |-> "poll", flusher |-> "watch"]
  /\ return = [t \in Threads |-> "offsets"]
  /\ syncing = [t \in Threads |-> 0]
  /\ lock = NoLock
  /\ cur = 0 /\ buffer = <<>>
  /\ synced = [s \in Segments |-> 0]
  /\ delta = [s \in Segments |-> 0]
  /\ closed = {}
  /\ nextVsn = 1 /\ dedup = {} /\ pos = 0 /\ batchEnd = 0

-----------------------------------------------------------------------------
\* The event dedup cache.  Ids enter it in increasing order, so that its
\* oldest entry, the one a full cache drops, is its least.

addEventToCache(id) ==
  (IF Cardinality(dedup) >= maxCacheSize THEN dedup \ {Min(dedup)} ELSE dedup)
    \cup {id}

isEventInCache(id) == HasEventIds /\ id \in dedup

\* The segment where warming up starts: going back from the last row, the
\* first one with which the rows hold enough events to fill the cache.
WarmUpStart(total) ==
  LET EventsFrom(s) ==
        FoldFunctionOnSet(LAMBDA x, y : x + y, 0, total, {t \in rows : t >= s})
      enough == {s \in rows : EventsFrom(s) >= maxCacheSize}
  IN  IF enough = {} THEN Min(rows) ELSE Max(enough)

\* Mutant: the cache starts empty.
warmUp_Empty(lines) == {}

\* The cache after reading the files lines: their latest maxCacheSize ids.
warmUp(lines) ==
  LET ids == {c \in Changes : \E s \in rows :
                 /\ s >= WarmUpStart(totalEvents)
                 /\ \E i \in DOMAIN lines[s] :
                      lines[s][i] # EofMarker /\ lines[s][i].id = c}
  IN  IF HasEventIds
      THEN {c \in ids : Cardinality({d \in ids : d > c}) < maxCacheSize}
      ELSE {}

-----------------------------------------------------------------------------
\* handleBatch: the main thread.

handleBatch ==
  /\ process = "up" /\ pc["main"] = "poll"
  /\ \E n \in 1 .. MaxBatch :
       /\ pos + n <= NumChanges
       /\ batchEnd' = pos + n
  /\ Goto("main", "write")
  /\ UNCHANGED <<segmentVars, processVars, return, syncing, lock, writerVars,
                 nextVsn, dedup, pos>>

\* synchronized (eventQueue): free, or held across a rotation.
HoldsLock(t) == lock \in {NoLock, t}

shouldRotateQueueSegment ==
  Len(file[cur]) + Len(buffer) >= QueueSegmentMaxRecords

\* Mutant: a duplicate ends the batch instead of being passed over.
skipRecord_EndsBatch ==
  /\ process = "up" /\ pc["main"] = "write" /\ pos < batchEnd
  /\ HoldsLock("main") /\ ~shutDown
  /\ pos + 1 \in Ignored \/ isEventInCache(pos + 1)
  /\ Goto("main", "poll")
  /\ UNCHANGED <<segmentVars, processVars, return, syncing, lock, writerVars,
                 batchVars>>

\* writeRecord leaves out an update without values, an unsupported record
\* and an event it has already written.
skipRecord ==
  /\ process = "up" /\ pc["main"] = "write" /\ pos < batchEnd
  /\ HoldsLock("main") /\ ~shutDown
  /\ pos + 1 \in Ignored \/ isEventInCache(pos + 1)
  /\ pos' = pos + 1
  /\ UNCHANGED <<segmentVars, processVars, threadVars, writerVars, nextVsn,
                 dedup, batchEnd>>

\* A full segment is rotated before the record is written.
Rotate(t) ==
  /\ shouldRotateQueueSegment
  /\ cur < MaxSegment
  /\ lock' = t
  /\ return' = [return EXCEPT ![t] = "row"]
  /\ Goto(t, "close")
  /\ UNCHANGED <<segmentVars, processVars, syncing, writerVars, batchVars>>

rotateQueueSegment ==
  /\ process = "up" /\ pc["main"] = "write" /\ pos < batchEnd
  /\ HoldsLock("main") /\ ~shutDown
  /\ ~(pos + 1 \in Ignored \/ isEventInCache(pos + 1))
  /\ Rotate("main")

writeRecord ==
  /\ process = "up" /\ pc["main"] = "write" /\ pos < batchEnd
  /\ HoldsLock("main") /\ ~shutDown
  /\ ~(pos + 1 \in Ignored \/ isEventInCache(pos + 1))
  /\ ~shouldRotateQueueSegment
  /\ buffer' = Append(buffer, [vsn |-> nextVsn, id |-> pos + 1])
  /\ nextVsn' = nextVsn + 1
  /\ delta' = [delta EXCEPT ![cur] = @ + 1]
  /\ dedup' = IF HasEventIds THEN addEventToCache(pos + 1) ELSE dedup
  /\ pos' = pos + 1
  /\ lock' = NoLock
  /\ UNCHANGED <<segmentVars, processVars, pc, return, syncing, cur, synced,
                 closed, batchEnd>>

\* After the switch record main returns without committing its batch.
returnOnShutDown ==
  /\ process = "up" /\ pc["main"] = "write" /\ pos < batchEnd
  /\ HoldsLock("main") /\ shutDown
  /\ Goto("main", "stopped")
  /\ UNCHANGED <<segmentVars, processVars, return, syncing, lock, writerVars,
                 batchVars>>

\* handleBatchComplete: flush, then sync.  Neither takes the lock; on a
\* writer that the flusher has closed both throw, which ends the engine.
flush ==
  /\ process = "up" /\ pc["main"] = "write" /\ pos = batchEnd
  /\ IF cur \in closed
     THEN Goto("main", "stopped") /\ UNCHANGED <<file, buffer, return>>
     ELSE /\ file' = [file EXCEPT ![cur] = @ \o buffer]
          /\ buffer' = <<>>
          /\ return' = [return EXCEPT !["main"] = "offsets"]
          /\ Goto("main", "fsync")
  /\ UNCHANGED <<rows, sizeCommitted, totalEvents, importedBy, removed, exists,
                 offset, statusVars, queue, processVars,
                 syncing, lock, cur, synced, delta, closed, batchVars>>

commitBatchOffsets ==
  /\ process = "up" /\ pc["main"] = "offsets"
  /\ offset' = batchEnd
  /\ Goto("main", "poll")
  /\ UNCHANGED <<rows, sizeCommitted, totalEvents, importedBy, removed, file,
                 exists, statusVars, queue,
                 processVars, return, syncing, lock, writerVars, batchVars>>

\* The buffered writer passes on its lines when it is full.
Spill ==
  /\ process = "up" /\ buffer # <<>>
  /\ file' = [file EXCEPT ![cur] = @ \o buffer]
  /\ buffer' = <<>>
  /\ UNCHANGED <<rows, sizeCommitted, totalEvents, importedBy, removed, exists,
                 offset, statusVars, queue,
                 processVars, threadVars, cur, synced, delta, closed,
                 batchVars>>

-----------------------------------------------------------------------------
\* QueueSegment.close and QueueSegment.sync, run by either thread.

\* close: the end-of-file marker is written and flushed, then sync follows.
closeSegment(t) ==
  /\ process = "up" /\ pc[t] = "close"
  /\ file' = [file EXCEPT ![cur] = @ \o Append(buffer, EofMarker)]
  /\ buffer' = <<>>
  /\ Goto(t, "fsync")
  /\ UNCHANGED <<rows, sizeCommitted, totalEvents, importedBy, removed, exists,
                 offset, statusVars, queue, processVars,
                 return, syncing, lock, cur, synced, delta, closed, batchVars>>

\* Mutant: the size is committed before the file is synced.
fsync_AfterMeta(t) ==
  /\ process = "up" /\ pc[t] = "fsync"
  /\ syncing' = [syncing EXCEPT ![t] = cur]
  /\ Goto(t, "meta")
  /\ UNCHANGED <<segmentVars, processVars, return, lock, writerVars, batchVars>>

\* sync: fd.sync() on the current segment; it throws when the flusher has
\* closed the file.
fsync(t) ==
  /\ process = "up" /\ pc[t] = "fsync"
  /\ IF cur \in closed
     THEN Goto(t, "stopped") /\ UNCHANGED <<synced, syncing>>
     ELSE /\ synced' = [synced EXCEPT ![cur] = Len(file[cur])]
          /\ syncing' = [syncing EXCEPT ![t] = cur]
          /\ Goto(t, "meta")
  /\ UNCHANGED <<segmentVars, processVars, return, lock, cur, buffer, delta,
                 closed, batchVars>>

\* The size of the file and the event counts go to queue_segment_meta in one
\* transaction.  From here on readers see the new lines.
updateQueueSegmentMetaInfo(t) ==
  LET s == syncing[t] IN
  /\ process = "up" /\ pc[t] = "meta"
  /\ sizeCommitted' = [sizeCommitted EXCEPT ![s] = Len(file[s])]
  /\ totalEvents' = [totalEvents EXCEPT ![s] = @ + delta[s]]
  /\ queue' = queue \o RecordsOf(SubSeq(file[s], sizeCommitted[s] + 1,
                                        Len(file[s])))
  /\ Goto(t, "clear")
  /\ UNCHANGED <<rows, importedBy, removed, file, exists, offset,
                 statusVars, processVars, return,
                 syncing, lock, writerVars, batchVars>>

\* eventCountDeltaPerTable.clear(), and in close() the writer is closed.
clearDelta(t) ==
  LET s == syncing[t] IN
  /\ process = "up" /\ pc[t] = "clear"
  /\ delta' = [delta EXCEPT ![s] = 0]
  /\ closed' = IF return[t] = "offsets" THEN closed ELSE closed \cup {s}
  /\ Goto(t, return[t])
  /\ UNCHANGED <<segmentVars, processVars, return, syncing, lock, cur, buffer,
                 synced, batchVars>>

\* new QueueSegment: first the row (INSERT OR IGNORE), then the file.
queueSegmentCreated(t) ==
  /\ process = "up" /\ pc[t] = "row"
  /\ rows' = rows \cup {cur + 1}
  /\ Goto(t, "create")
  /\ UNCHANGED <<sizeCommitted, totalEvents, importedBy, removed, file, exists,
                 offset, statusVars, queue, processVars,
                 return, syncing, lock, writerVars, batchVars>>

openFile(t) ==
  /\ process = "up" /\ pc[t] = "create"
  /\ exists' = exists \cup {cur + 1}
  /\ cur' = cur + 1
  /\ \/ t = "flusher" /\ Goto(t, "cutover") /\ UNCHANGED lock
     \/ t = "main" /\ pos < batchEnd /\ Goto(t, "write") /\ UNCHANGED lock
     \/ t = "main" /\ pos = batchEnd /\ Goto(t, "poll") /\ lock' = NoLock
  /\ UNCHANGED <<rows, sizeCommitted, totalEvents, importedBy, removed, file,
                 offset, statusVars, queue, processVars,
                 return, syncing, buffer, synced, delta, closed, batchVars>>

-----------------------------------------------------------------------------
\* checkForSwitchOperationAndHandle: the flusher thread.

checkForSwitchOperation ==
  /\ process = "up" /\ pc["flusher"] = "watch"
  /\ cutoverRequested
  /\ lock = NoLock
  /\ lock' = "flusher"
  /\ Goto("flusher", "cutover")
  /\ UNCHANGED <<segmentVars, processVars, return, syncing, writerVars,
                 batchVars>>

rotateForSwitchRecord ==
  /\ process = "up" /\ pc["flusher"] = "cutover"
  /\ Rotate("flusher")

\* The switch record is no change: it has no event id and is not counted.
writeSwitchRecord ==
  /\ process = "up" /\ pc["flusher"] = "cutover"
  /\ ~shouldRotateQueueSegment
  /\ buffer' = Append(buffer, [vsn |-> nextVsn, id |-> CutoverId])
  /\ nextVsn' = nextVsn + 1
  /\ return' = [return EXCEPT !["flusher"] = "exit"]
  /\ Goto("flusher", "close")
  /\ UNCHANGED <<segmentVars, processVars, syncing, lock, cur, synced, delta,
                 closed, dedup, pos, batchEnd>>

setShutDown ==
  /\ process = "up" /\ pc["flusher"] = "exit" /\ ~shutDown
  /\ shutDown' = TRUE
  /\ lock' = NoLock
  /\ UNCHANGED <<segmentVars, process, crashes, torn, pc, return, syncing,
                 writerVars, batchVars>>

\* System.exit(0).
exit ==
  /\ process = "up" /\ shutDown
  /\ process' = "exited"
  /\ UNCHANGED <<segmentVars, shutDown, crashes, torn, threadVars,
                 writerVars, batchVars>>

\* The yb-voyager process notes that Debezium has exited for the cutover, and,
\* after it has dropped the replication slot, that the cutover is processed.
updateCutoverDetectedFlag ==
  /\ process = "exited" /\ ~cutoverDetected
  /\ cutoverDetected' = TRUE
  /\ UNCHANGED <<rows, sizeCommitted, totalEvents, importedBy, removed, file,
                 exists, offset, cutoverRequested, cutoverProcessed,
                 importerDone, queue, exporterVars>>

markCutoverProcessed ==
  /\ process = "exited" /\ cutoverDetected /\ ~cutoverProcessed
  /\ cutoverProcessed' = TRUE
  /\ UNCHANGED <<rows, sizeCommitted, totalEvents, importedBy, removed, file,
                 exists, offset, cutoverRequested, cutoverDetected,
                 importerDone, queue, exporterVars>>

-----------------------------------------------------------------------------
\* Crashes and recovery.

\* The lines at risk: what the file of a segment has not synced.
AtRisk == {s \in Segments : PowerLoss /\ synced[s] < Len(file[s])}

\* The process dies, at any point before the cutover is processed.  What is
\* buffered is gone; a power loss also takes lines at risk, as many as it likes.
\* A line that survives may still be unsynced: nothing says that it was a power
\* loss and not a kill.
crash ==
  /\ process # "down" /\ ~cutoverProcessed
  /\ crashes < MaxCrashes
  /\ crashes' = crashes + 1
  /\ process' = "down"
  /\ \E left \in [AtRisk -> 0 .. QueueSegmentMaxRecords + 1] :
       /\ \A s \in AtRisk : left[s] \in synced[s] .. Len(file[s])
       /\ file' = [s \in Segments |->
                     IF s \in AtRisk THEN SubSeq(file[s], 1, left[s]) ELSE file[s]]
       /\ torn' = (torn \/ \E s \in AtRisk : left[s] < sizeCommitted[s])
  /\ buffer' = <<>> /\ closed' = {} /\ dedup' = {} /\ shutDown' = FALSE
  /\ delta' = [s \in Segments |-> 0]
  /\ pc' = [main |-> "poll", flusher |-> "watch"]
  /\ return' = [t \in Threads |-> "offsets"]
  /\ syncing' = [t \in Threads |-> 0]
  /\ lock' = NoLock
  /\ pos' = offset /\ batchEnd' = offset
  /\ UNCHANGED <<rows, sizeCommitted, totalEvents, importedBy, removed, exists,
                 offset, statusVars, queue, cur, synced, nextVsn>>

\* new QueueSegment on an existing file: lines after the committed size are
\* cut off.
Truncated(s) ==
  IF sizeCommitted[s] < Len(file[s]) THEN Visible(s) ELSE file[s]

\* getSequenceNumberOfLastRecord; -1 when there is no record.
LastVsnOf(lines) ==
  LET r == RecordsOf(lines) IN IF r = <<>> THEN -1 ELSE r[Len(r)].vsn

\* recoverLatestQueueSegment: the last row, or the one after it when the
\* cleaner has removed that one.
LatestSegment ==
  LET last == Max(rows) IN IF last \in removed THEN last + 1 ELSE last

\* Segments that recovery opens: the latest one and, when that holds no
\* record, the one before it.  (That one is closed again; its marker is
\* there already, so that close() returns at once.)
Reopened(s) ==
  IF LastVsnOf(Truncated(s)) = -1 THEN {s, s - 1} \cap Segments ELSE {s}

\* Mutant: an empty segment starts from 1.
NextVsnAfter_FromOne(s) ==
  IF LastVsnOf(Truncated(s)) = -1 THEN 1 ELSE LastVsnOf(Truncated(s)) + 1

NextVsnAfter(s) ==
  CASE LastVsnOf(Truncated(s)) # -1 -> LastVsnOf(Truncated(s)) + 1
    [] LastVsnOf(Truncated(s)) = -1 /\ s = 0 -> 1
    [] OTHER -> LastVsnOf(Truncated(s - 1)) + 1

\* The command is started again: EventQueue's constructor recovers the latest
\* segment and the sequence number, rotates when the segment is closed, and
\* warms up the dedup cache.  Debezium resumes from the offset file.
recoverStateFromDisk ==
  LET s == LatestSegment
      f == [t \in Segments |-> IF t \in Reopened(s) THEN Truncated(t) ELSE file[t]]
  IN
  /\ process = "down" /\ ~cutoverDetected /\ s \in Segments
  /\ IsClosed(s) => s < MaxSegment                                  \* bound
  /\ process' = "up"
  /\ rows' = rows \cup Reopened(s)
  /\ exists' = exists \cup Reopened(s)
  /\ file' = f
  /\ synced' = [t \in Segments |->
                  IF synced[t] < Len(f[t]) THEN synced[t] ELSE Len(f[t])]
  /\ cur' = s
  /\ nextVsn' = NextVsnAfter(s)
  /\ dedup' = warmUp([t \in Segments |-> IF t \in exists' THEN f[t] ELSE <<>>])
  /\ IF \E i \in DOMAIN f[s] : f[s][i] = EofMarker
     THEN pc' = [pc EXCEPT !["main"] = "row"] /\ lock' = "main"
     ELSE UNCHANGED <<pc, lock>>
  /\ UNCHANGED <<sizeCommitted, totalEvents, importedBy, removed, offset,
                 statusVars, queue, shutDown, crashes, torn, return, syncing,
                 buffer, delta, closed, pos, batchEnd>>

\* Mutant: such a command refuses to run.
skipDebezium_Refuses == FALSE

\* A command started again after the cutover was detected does not start
\* Debezium any more.
skipDebezium ==
  /\ process = "down" /\ cutoverDetected
  /\ process' = "exited"
  /\ UNCHANGED <<segmentVars, shutDown, crashes, torn, threadVars,
                 writerVars, batchVars>>

CloseOrSync(t) ==
  \/ closeSegment(t) \/ fsync(t) \/ updateQueueSegmentMetaInfo(t)
  \/ clearDelta(t) \/ queueSegmentCreated(t) \/ openFile(t)

MainStep ==
  \/ handleBatch \/ skipRecord \/ rotateQueueSegment \/ writeRecord
  \/ returnOnShutDown \/ flush \/ commitBatchOffsets \/ CloseOrSync("main")

FlusherStep ==
  \/ checkForSwitchOperation \/ rotateForSwitchRecord \/ writeSwitchRecord
  \/ setShutDown \/ exit \/ CloseOrSync("flusher")

\* The yb-voyager command around the Debezium process, and its restarts.
CommandStep ==
  \/ updateCutoverDetectedFlag \/ markCutoverProcessed
  \/ recoverStateFromDisk \/ skipDebezium

ExporterNext == MainStep \/ FlusherStep \/ CommandStep \/ Spill \/ crash
=============================================================================
