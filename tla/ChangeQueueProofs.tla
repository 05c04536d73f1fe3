-------------------------- MODULE ChangeQueueProofs --------------------------
(***************************************************************************)
(* Proofs about ChangeQueue, for every log of the source, every number of  *)
(* segments, importers, crashes and failing copies, with and without event *)
(* ids, with and without power loss.                                       *)
(*                                                                         *)
(* The inductive invariant IInv follows a record from Debezium's batch to  *)
(* the archive: InvThreads and InvClosing say where the exporter's two     *)
(* threads are and which of them holds the lock of the writer, InvMarkers, *)
(* InvSegments and InvSynced what a segment holds at each point of its     *)
(* life, InvVsn and InvChanges which numbers and which changes are in the  *)
(* committed queue, in the current file and in the buffer, and InvCleaner  *)
(* what the cleaner may remove: never the segment recovery will need.      *)
(* Every step keeps IInv but one, a power loss that takes lines which a    *)
(* committed size covers (torn); InvSynced shows that there is none before *)
(* a cutover is requested.  The theorems rest on Sound, which says both.   *)
(***************************************************************************)
EXTENDS ChangeQueue, WellFoundedInduction, FiniteSetTheorems, TLAPS

\* The types of the variables, with the files, the buffer and the queue as
\* sequences.
QTypeOK ==
  /\ rows \subseteq Segments /\ removed \subseteq rows /\ exists \subseteq Segments
  /\ sizeCommitted \in [Segments -> Nat] /\ totalEvents \in [Segments -> Nat]
  /\ importedBy \in [Segments -> SUBSET Importers]
  /\ file \in [Segments -> Seq(Lines)]
  /\ offset \in 0 .. NumChanges
  /\ importerDone \subseteq Importers
  /\ queue \in Seq(Records) /\ buffer \in Seq(Records)
  /\ process \in {"up", "down", "exited"}
  /\ pc \in [Threads -> MainPcs \cup FlusherPcs]
  /\ return \in [Threads -> {"row", "offsets", "exit"}]
  /\ syncing \in [Threads -> Segments]
  /\ lock \in Threads \cup {NoLock}
  /\ cur \in Segments
  /\ synced \in [Segments -> Nat] /\ delta \in [Segments -> Nat]
  /\ closed \subseteq Segments
  /\ nextVsn \in Nat /\ dedup \subseteq Changes
  /\ pos \in 0 .. NumChanges /\ batchEnd \in 0 .. NumChanges
  /\ crashes \in 0 .. MaxCrashes
  /\ cleaner \in {"tick", "segment", "copy", "copied", "mark", "failed", "complete", "down"}
  /\ processed \subseteq Segments /\ pending \subseteq Segments
  /\ eligible \subseteq processed
  /\ archive \in [Segments -> {"none", "partial", "full"}]
  /\ copyErrors \in 0 .. CopyErrors
  /\ cleanerCrashes \in 0 .. MaxCleanerCrashes

\* The Boolean variables.
FlagsOK ==
  /\ cutoverRequested \in BOOLEAN /\ cutoverDetected \in BOOLEAN
  /\ cutoverProcessed \in BOOLEAN /\ shutDown \in BOOLEAN /\ stop \in BOOLEAN

-----------------------------------------------------------------------------
(* The threads of the exporter.                                            *)

\* Thread t closes the segment, for a rotation or for the cutover.
Closing(t) == pc[t] \in {"fsync", "meta", "clear"} /\ return[t] # "offsets"
AfterClose(t) == Closing(t) \/ pc[t] \in {"row", "create", "exit"}
Locked(t) ==
  Closing(t) \/ pc[t] \in {"close", "row", "create", "cutover"} \/ (pc[t] = "exit" /\ ~shutDown)

InvThreads ==
  /\ pc["main"] \in MainPcs /\ pc["flusher"] \in FlusherPcs
  /\ Locked("main") => lock = "main"
  /\ Locked("flusher") => lock = "flusher"
  /\ return["main"] # "exit"
  /\ pc["flusher"] \in {"fsync", "meta", "clear"} => return["flusher"] # "offsets"
  /\ shutDown =>
       pc["flusher"] = "exit" /\ pc["main"] \notin {"close", "row", "create"} /\ ~Closing("main")
  /\ pc["flusher"] # "watch" => cutoverRequested
  /\ process = "down" =>
       /\ pc["main"] = "poll" /\ pc["flusher"] = "watch" /\ lock = NoLock
       /\ buffer = <<>> /\ closed = {} /\ ~shutDown /\ dedup = {}
       /\ pos = offset /\ batchEnd = offset
  /\ process = "exited" => cutoverRequested
  /\ cutoverDetected => cutoverRequested /\ process # "up"
  /\ cutoverProcessed => process = "exited"
  /\ stop => cutoverProcessed

-----------------------------------------------------------------------------
(* The segments.                                                           *)

Closed(s) == file[s] # <<>> /\ file[s][Len(file[s])] = EofMarker
Done(s) == Closed(s) /\ sizeCommitted[s] = Len(file[s])

InvMarkers ==
  \A s \in Segments : \A i \in DOMAIN file[s] :
    file[s][i] = EofMarker => i = Len(file[s]) /\ i >= 2

InvSegments ==
  /\ 0 .. cur \subseteq rows /\ rows \subseteq 0 .. cur + 1
  /\ cur + 1 \in rows => Done(cur) /\ process # "exited" /\ ~cutoverDetected
  /\ \A s \in Segments :
       /\ s > cur => file[s] = <<>> /\ sizeCommitted[s] = 0 /\ importedBy[s] = {}
       /\ s \notin exists => file[s] = <<>>
       /\ s < cur => Len(file[s]) <= sizeCommitted[s]
       /\ s \in exists => sizeCommitted[s] <= Len(file[s])
       /\ s <= cur /\ s \notin exists =>
            importedBy[s] = Importers /\ (Policy = "archive" => archive[s] = "full")
  /\ ~cutoverProcessed => cur \in exists
  /\ importedBy[cur] # {} /\ cur \in exists => Done(cur)

\* What thread t does to the current segment.
ClosingStep(t) ==
  /\ AfterClose(t) => Closed(cur) /\ buffer = <<>>
  /\ pc[t] \in {"row", "create", "exit"} => Done(cur)
  /\ Closing(t) /\ pc[t] \in {"meta", "clear"} => syncing[t] = cur
  /\ Closing(t) /\ pc[t] = "clear" => Done(cur)
  /\ pc[t] = "create" => cur + 1 \in rows
  /\ pc[t] = "row" \/ (return[t] = "row" /\ (Closing(t) \/ pc[t] = "close")) =>
       cur < MaxSegment
  /\ pc[t] = "close" =>
       ~Closed(cur) /\ Len(file[cur]) + Len(buffer) >= 1 /\ return[t] # "offsets"

InvClosing ==
  process = "up" =>
    /\ ClosingStep("main") /\ ClosingStep("flusher")
    /\ Closed(cur) => AfterClose("main") \/ AfterClose("flusher")
    /\ cur + 1 \in rows => pc["main"] = "create" \/ pc["flusher"] = "create"
    /\ closed \subseteq 0 .. cur
    /\ cur \in closed =>
         pc["main"] \in {"row", "create"} \/ pc["flusher"] \in {"row", "create", "exit"}
    /\ pc["main"] = "meta" => syncing["main"] <= cur

\* Before a cutover is requested, what is committed is on the disk.
InvSynced ==
  ~cutoverRequested =>
    /\ \A s \in exists : sizeCommitted[s] <= synced[s]
    /\ pc["main"] \in {"fsync", "meta"} => buffer = <<>>
    /\ pc["main"] = "meta" => syncing["main"] = cur /\ synced[cur] = Len(file[cur])

-----------------------------------------------------------------------------
(* The sequence numbers.                                                   *)

\* The records of the current segment that no committed size covers.
Ahead ==
  IF sizeCommitted[cur] < Len(file[cur]) /\ Closed(cur)
  THEN Len(file[cur]) - 1 - sizeCommitted[cur] ELSE Len(file[cur]) - sizeCommitted[cur]
\* The records of the current segment that readers see.
Behind ==
  IF sizeCommitted[cur] > 0 /\ file[cur][sizeCommitted[cur]] = EofMarker
  THEN sizeCommitted[cur] - 1 ELSE sizeCommitted[cur]

InvVsn ==
  /\ \A i \in DOMAIN queue : queue[i].vsn = i
  /\ process = "up" =>
       /\ \A i \in 1 .. Ahead : file[cur][sizeCommitted[cur] + i].vsn = Len(queue) + i
       /\ \A i \in DOMAIN buffer : buffer[i].vsn = Len(queue) + Ahead + i
       /\ nextVsn = Len(queue) + Ahead + Len(buffer) + 1
  /\ ~cutoverProcessed =>
       /\ Behind > 0 => file[cur][Behind].vsn = Len(queue)
       /\ Behind = 0 =>
            \/ cur = 0 /\ Len(queue) = 0
            \/ /\ cur > 0 /\ cur - 1 \in exists /\ Closed(cur - 1)
               /\ file[cur - 1][Len(file[cur - 1]) - 1].vsn = Len(queue)

-----------------------------------------------------------------------------
(* The changes.                                                            *)

InQueue(c) == \E i \in DOMAIN queue : queue[i].id = c
InFile(c) == \E i \in 1 .. Ahead : file[cur][sizeCommitted[cur] + i].id = c
InBuffer(c) == \E i \in DOMAIN buffer : buffer[i].id = c

\* How far the changes up to position p have come, and the ones in the cache.
Committed(p) == \A c \in 1 .. p : c \in Ignored \/ InQueue(c)
Flushed(p) == \A c \in 1 .. p : c \in Ignored \/ InQueue(c) \/ InFile(c)
Written(p) == \A c \in 1 .. p : c \in Ignored \/ InQueue(c) \/ InFile(c) \/ InBuffer(c)
Cached == \A c \in dedup : InQueue(c) \/ InFile(c) \/ InBuffer(c)

\* What readers see of a segment is in the queue.
VisibleInQueue ==
  \A s \in Segments : \A i \in DOMAIN file[s] :
    i <= sizeCommitted[s] /\ file[s][i] # EofMarker => InQueue(file[s][i].id)

\* How much of its batch main has secured.
BatchStep ==
  /\ pos <= batchEnd
  /\ pc["main"] \in {"fsync", "meta"} /\ return["main"] = "offsets" =>
       pos = batchEnd /\ Flushed(pos)
  /\ pc["main"] = "meta" /\ return["main"] = "offsets" /\ syncing["main"] # cur =>
       Committed(pos)
  /\ pc["main"] = "offsets" \/ (pc["main"] = "clear" /\ return["main"] = "offsets") =>
       pos = batchEnd /\ Committed(pos)

InvChanges ==
  /\ Committed(offset) /\ VisibleInQueue
  /\ process = "up" => Written(pos) /\ Cached /\ BatchStep

-----------------------------------------------------------------------------
(* The cleaner.                                                            *)

\* Every importer has read s and, while the queue still grows, a later segment.
Removable(s) ==
  /\ s \in rows /\ importedBy[s] = Importers
  /\ ~cutoverProcessed => \E t \in rows : t > s /\ importedBy[t] = Importers

InvCleaner ==
  /\ \A s \in eligible \cup removed : Removable(s)
  /\ removed \cap exists = {}
  /\ cleaner \in {"copy", "copied", "mark"} => eligible # {}
  /\ cleaner \in {"copy", "copied"} => Policy = "archive" /\ Current \in exists
  /\ cleaner = "copied" => archive[Current] = "full"
  /\ cleaner = "mark" => Current \notin exists
  /\ cleaner \in {"segment", "copy", "copied", "mark"} /\ processed = {} /\ pending = {} =>
       cutoverProcessed /\ rows \subseteq removed
  /\ cleaner = "complete" /\ (Policy = "delete" \/ CopyErrors = 0) =>
       cutoverProcessed /\ rows \subseteq removed

IInv ==
  /\ QTypeOK /\ FlagsOK /\ InvThreads /\ InvMarkers /\ InvSegments /\ InvClosing /\ InvSynced
  /\ InvVsn /\ InvChanges /\ InvCleaner

-----------------------------------------------------------------------------
(* Steps that leave the content of the segments alone.                     *)

Content == <<file, sizeCommitted, cur, buffer, queue>>

\* The operators that only look at the content of the segments.
LEMMA SameContent ==
  ASSUME UNCHANGED Content
  PROVE  /\ \A s : (Closed(s)' <=> Closed(s)) /\ (Done(s)' <=> Done(s))
         /\ Ahead' = Ahead /\ Behind' = Behind
         /\ \A c : /\ InQueue(c)' <=> InQueue(c)
                   /\ InFile(c)' <=> InFile(c)
                   /\ InBuffer(c)' <=> InBuffer(c)
         /\ VisibleInQueue => VisibleInQueue'
<1>1. /\ \A s : (Closed(s)' <=> Closed(s)) /\ (Done(s)' <=> Done(s))
      /\ Ahead' = Ahead /\ Behind' = Behind
      /\ \A c : /\ InQueue(c)' <=> InQueue(c)
                /\ InFile(c)' <=> InFile(c)
                /\ InBuffer(c)' <=> InBuffer(c)
  BY DEF Content, Closed, Done, Ahead, Behind, InQueue, InFile, InBuffer
<1> QED
  BY <1>1 DEF VisibleInQueue, Content

\* ... and how far the changes have come.
LEMMA SameCoverage ==
  ASSUME UNCHANGED Content
  PROVE  /\ pos' = pos /\ Written(pos) => Written(pos)'
         /\ pos' = pos /\ Flushed(pos) => Flushed(pos)'
         /\ pos' = pos /\ Committed(pos) => Committed(pos)'
         /\ offset' = offset /\ Committed(offset) => Committed(offset)'
         /\ dedup' = dedup /\ Cached => Cached'
  BY SameContent DEF Written, Flushed, Committed, Cached

\* The markers stay where they are.
LEMMA MarkersKept ==
  ASSUME InvMarkers, file' = file
  PROVE  InvMarkers'
  BY DEF InvMarkers

\* The sequence numbers of a process that does not write.
LEMMA VsnKept ==
  ASSUME InvVsn, UNCHANGED Content, exists' = exists, nextVsn' = nextVsn,
         process' = "up" => process = "up",
         cutoverProcessed => cutoverProcessed'
  PROVE  InvVsn'
  BY SameContent DEF InvVsn, Content

\* The segments of a process that does not write.
LEMMA SegmentsKept ==
  ASSUME InvSegments, UNCHANGED <<Content, rows, exists, importedBy, archive>>,
         cutoverProcessed => cutoverProcessed',
         cur + 1 \in rows => process' # "exited" /\ ~cutoverDetected'
  PROVE  InvSegments'
  BY SameContent DEF InvSegments, Content

\* The cleaner, when another process takes a step.
LEMMA CleanerKept ==
  ASSUME InvCleaner, UNCHANGED <<cleanerVars, exists, removed>>,
         rows \subseteq rows', \A s \in rows : importedBy[s] = Importers => importedBy'[s] = Importers,
         rows' = rows \/ ~cutoverProcessed,
         cutoverProcessed => cutoverProcessed'
  PROVE  InvCleaner'
  BY DEF InvCleaner, cleanerVars, Removable, Current

-----------------------------------------------------------------------------
(* The steps of the exporter's threads that write nothing.                 *)

\* A step of a thread that changes no more than where the threads are.
LEMMA ThreadStepKeeps ==
  ASSUME IInv, process = "up",
         UNCHANGED <<segmentVars, cur, buffer, nextVsn, dedup, pos, process, cleanerVars>>,
         QTypeOK', FlagsOK', InvThreads', InvClosing', InvSynced', BatchStep'
  PROVE  IInv'
<1>1. UNCHANGED <<Content, rows, exists, importedBy, removed, archive, cutoverDetected,
                  cutoverProcessed, offset, cleanerVars, file>>
  BY DEF segmentVars, statusVars, Content, cleanerVars
<1>2. InvSegments' /\ InvMarkers' /\ InvVsn' /\ InvCleaner'
  BY <1>1, SegmentsKept, MarkersKept, VsnKept, CleanerKept DEF IInv, InvSegments
<1>3. InvChanges'
  BY <1>1, SameContent, SameCoverage DEF IInv, InvChanges
<1> QED
  BY <1>2, <1>3 DEF IInv

\* Debezium hands over a batch.
LEMMA handleBatchKeeps ==
  ASSUME IInv, handleBatch, UNCHANGED cleanerVars
  PROVE  IInv'
<1>1. batchEnd' \in 0 .. NumChanges /\ pos < batchEnd'
  <2>1. QTypeOK
    BY DEF IInv
  <2> QED
    BY <2>1, QueueAssumption, ExporterAssumption DEF QTypeOK, handleBatch
<1>2. /\ process = "up" /\ pc["main"] = "poll" /\ pc' = [pc EXCEPT !["main"] = "write"]
      /\ pc' \in [Threads -> MainPcs \cup FlusherPcs]
      /\ UNCHANGED <<segmentVars, processVars, return, syncing, lock, writerVars,
                     nextVsn, dedup, pos, cleanerVars>>
  BY DEF IInv, QTypeOK, handleBatch, Goto, MainPcs
<1> USE DEF segmentVars, statusVars, processVars, writerVars, cleanerVars
<1>3. QTypeOK'
  BY <1>1, <1>2 DEF IInv, QTypeOK
<1>4. FlagsOK'
  BY <1>2, Zenon DEF IInv, FlagsOK
<1>5. InvThreads'
  BY <1>2 DEF IInv, QTypeOK, InvThreads, Threads, MainPcs, FlusherPcs, Locked, Closing
<1>6. UNCHANGED Content
  BY <1>2 DEF Content
<1>7. InvClosing'
  BY <1>2, <1>6, SameContent DEF IInv, QTypeOK, InvThreads, InvClosing, ClosingStep, Threads,
     AfterClose, Closing
<1>8. InvSynced'
  BY <1>2 DEF IInv, QTypeOK, InvSynced, Threads
<1>9. BatchStep'
  <2>1. pc'["main"] = "write" /\ pos' = pos
    BY <1>2 DEF IInv, QTypeOK, Threads
  <2>2. pos' <= batchEnd'
    <3>1. pos \in Int /\ batchEnd' \in Int
      BY <1>1 DEF IInv, QTypeOK
    <3> QED
      BY <1>1, <2>1, <3>1
  <2> QED
    BY <2>1, <2>2 DEF BatchStep
<1> QED
  BY <1>2, <1>3, <1>4, <1>5, <1>7, <1>8, <1>9, ThreadStepKeeps

\* A record is passed over.
LEMMA skipRecordKeeps ==
  ASSUME IInv, skipRecord, UNCHANGED cleanerVars
  PROVE  IInv'
<1>1. /\ process = "up" /\ pc["main"] = "write" /\ pos < batchEnd /\ pos' = pos + 1
      /\ pos + 1 \in Ignored \/ isEventInCache(pos + 1)
      /\ UNCHANGED <<segmentVars, processVars, threadVars, writerVars, nextVsn,
                     dedup, batchEnd, cleanerVars>>
  BY DEF skipRecord
<1> USE DEF segmentVars, statusVars, processVars, threadVars, writerVars, cleanerVars
<1>2. UNCHANGED <<Content, rows, exists, importedBy, removed, archive, cutoverDetected,
                  cutoverProcessed, offset, cleanerVars, file>>
  BY <1>1 DEF Content
<1>3. pos' \in 0 .. NumChanges /\ pos' <= batchEnd
  BY <1>1, QueueAssumption DEF IInv, QTypeOK
<1>4. QTypeOK'
  BY <1>1, <1>3 DEF IInv, QTypeOK
<1>5. FlagsOK'
  BY <1>1, Zenon DEF IInv, FlagsOK
<1>6. InvThreads'
  BY <1>1 DEF IInv, InvThreads, Locked, Closing
<1>7. InvSegments' /\ InvMarkers' /\ InvVsn' /\ InvCleaner'
  BY <1>1, <1>2, SegmentsKept, MarkersKept, VsnKept, CleanerKept DEF IInv, InvSegments
<1>8. InvClosing'
  BY <1>1, <1>2, SameContent DEF IInv, InvClosing, ClosingStep, AfterClose, Closing
<1>9. InvSynced'
  BY <1>1 DEF IInv, InvSynced
<1>10. InvChanges'
  <2>1. Written(pos)'
    <3>1. Written(pos) /\ Cached
      BY <1>1 DEF IInv, InvChanges
    <3>2. \A c \in 1 .. pos' : c \in 1 .. pos \/ c = pos + 1
      BY <1>1, <1>3 DEF IInv, QTypeOK
    <3>3. \A c \in 1 .. pos' : c \in Ignored \/ InQueue(c) \/ InFile(c) \/ InBuffer(c)
      BY <1>1, <3>1, <3>2 DEF Written, Cached, isEventInCache
    <3> QED
      BY <1>2, <3>3, SameContent DEF Written
  <2>2. BatchStep'
    BY <1>1, <1>3 DEF IInv, QTypeOK, InvChanges, BatchStep
  <2> QED
    BY <1>1, <1>2, <2>1, <2>2, SameContent, SameCoverage DEF IInv, InvChanges
<1> QED
  BY <1>4, <1>5, <1>6, <1>7, <1>8, <1>9, <1>10 DEF IInv

\* Only one thread at a time writes to the current segment, and it is open.
MainWrites == pc["main"] = "write" /\ HoldsLock("main") /\ ~shutDown

\* The segment a thread writes to is open, and the other thread does not close it.
LEMMA SegmentOpen ==
  ASSUME IInv, process = "up", MainWrites \/ pc["flusher"] = "cutover"
  PROVE  /\ ~Closed(cur) /\ ~AfterClose("main") /\ ~AfterClose("flusher")
         /\ MainWrites => ~Locked("flusher")
         /\ pc["flusher"] = "cutover" => ~Locked("main")
<1>1. CASE MainWrites
  BY <1>1 DEF IInv, InvThreads, InvClosing, AfterClose, Locked, MainWrites, HoldsLock, Closing, NoLock
<1>2. CASE pc["flusher"] = "cutover"
  BY <1>2 DEF IInv, InvThreads, InvClosing, AfterClose, Locked, Closing, MainWrites, HoldsLock, NoLock
<1> QED
  BY <1>1, <1>2

\* A rotation begins.
LEMMA RotateKeeps ==
  ASSUME IInv, process = "up", NEW t \in Threads, Rotate(t), UNCHANGED cleanerVars,
         \/ t = "main" /\ MainWrites
         \/ t = "flusher" /\ pc["flusher"] = "cutover"
  PROVE  IInv'
<1>1. /\ pc' = [pc EXCEPT ![t] = "close"] /\ return' = [return EXCEPT ![t] = "row"] /\ lock' = t
      /\ cur < MaxSegment
      /\ UNCHANGED <<segmentVars, processVars, syncing, writerVars, batchVars, cleanerVars>>
  BY DEF Rotate, Goto
<1>2. Len(file[cur]) + Len(buffer) >= 1
  BY ExporterAssumption DEF IInv, QTypeOK, Rotate, shouldRotateQueueSegment
<1>3. /\ pc' \in [Threads -> MainPcs \cup FlusherPcs] /\ lock' \in Threads \cup {NoLock}
      /\ return' \in [Threads -> {"row", "offsets", "exit"}]
  BY <1>1 DEF IInv, QTypeOK, MainPcs
<1>4. ~Closed(cur) /\ ~AfterClose("main") /\ ~AfterClose("flusher")
  BY SegmentOpen
<1> USE DEF segmentVars, statusVars, processVars, writerVars, batchVars, cleanerVars
<1>5. QTypeOK'
  BY <1>1, <1>3 DEF IInv, QTypeOK
<1>6. FlagsOK'
  BY <1>1, Zenon DEF IInv, FlagsOK
<1>7. UNCHANGED Content
  BY <1>1 DEF Content
<1>8. CASE t = "main"
  <2>1. ~Locked("flusher") /\ ~shutDown /\ pc["main"] = "write"
    BY <1>8, SegmentOpen DEF MainWrites
  <2>2. InvThreads'
    BY <1>1, <1>8, <2>1 DEF IInv, QTypeOK, InvThreads, Threads, MainPcs, Locked, Closing
  <2>3. InvClosing'
    BY <1>1, <1>2, <1>4, <1>7, <1>8, <2>1, SameContent DEF IInv, QTypeOK, InvClosing, ClosingStep, Threads,
       AfterClose, Closing, Content
  <2>4. InvSynced' /\ BatchStep'
    BY <1>1, <1>8, <2>1 DEF IInv, QTypeOK, InvSynced, InvChanges, BatchStep, Threads
  <2> QED
    BY <1>1, <1>5, <1>6, <2>2, <2>3, <2>4, ThreadStepKeeps
<1>9. CASE t = "flusher"
  <2>1. ~Locked("main") /\ pc["flusher"] = "cutover" /\ ~shutDown
    BY <1>9, SegmentOpen DEF IInv, InvThreads
  <2>2. InvThreads'
    BY <1>1, <1>9, <2>1 DEF IInv, QTypeOK, InvThreads, Threads, FlusherPcs, Locked, Closing
  <2>3. InvClosing'
    BY <1>1, <1>2, <1>4, <1>7, <1>9, <2>1, SameContent DEF IInv, QTypeOK, InvClosing, ClosingStep, Threads,
       AfterClose, Closing, Content
  <2>4. InvSynced' /\ BatchStep'
    <3>1. /\ pc'["main"] = pc["main"] /\ return'["main"] = return["main"]
      BY <1>1, <1>9 DEF IInv, QTypeOK, Threads
    <3>2. InvSynced'
      BY <1>1, <3>1 DEF IInv, InvSynced
    <3>3. BatchStep'
      BY <1>1, <1>7, <3>1, SameCoverage DEF IInv, InvChanges, BatchStep
    <3> QED
      BY <3>2, <3>3
  <2> QED
    BY <1>1, <1>5, <1>6, <2>2, <2>3, <2>4, ThreadStepKeeps
<1> QED
  BY <1>8, <1>9 DEF Threads

\* After the switch record main returns; or the engine ends on a closed writer.
LEMMA MainStopsKeeps ==
  ASSUME IInv, process = "up", UNCHANGED cleanerVars,
         pc["main"] = "write" \/ (pc["main"] = "fsync" /\ return["main"] = "offsets"),
         pc' = [pc EXCEPT !["main"] = "stopped"],
         UNCHANGED <<segmentVars, processVars, return, syncing, lock, writerVars, batchVars>>
  PROVE  IInv'
<1>1. pc' \in [Threads -> MainPcs \cup FlusherPcs]
  BY DEF IInv, QTypeOK, MainPcs
<1> USE DEF segmentVars, statusVars, processVars, writerVars, batchVars, cleanerVars
<1>2. QTypeOK'
  BY <1>1 DEF IInv, QTypeOK
<1>3. FlagsOK'
  BY Zenon DEF IInv, FlagsOK
<1>4. UNCHANGED Content
  BY DEF Content
<1>5. InvThreads'
  BY DEF IInv, QTypeOK, InvThreads, Threads, MainPcs, Locked, Closing
<1>6. InvClosing'
  BY <1>4, SameContent DEF IInv, QTypeOK, InvClosing, ClosingStep, Threads,
       AfterClose, Closing, Content
<1>7. InvSynced' /\ BatchStep'
  BY DEF IInv, QTypeOK, InvSynced, InvChanges, BatchStep, Threads
<1> QED
  BY <1>2, <1>3, <1>5, <1>6, <1>7, ThreadStepKeeps

\* The flusher sees the request for a cutover and takes the lock.
LEMMA checkForSwitchOperationKeeps ==
  ASSUME IInv, checkForSwitchOperation, UNCHANGED cleanerVars
  PROVE  IInv'
<1>1. /\ process = "up" /\ pc["flusher"] = "watch" /\ cutoverRequested /\ lock = NoLock /\ lock' = "flusher"
      /\ pc' = [pc EXCEPT !["flusher"] = "cutover"]
      /\ UNCHANGED <<segmentVars, processVars, return, syncing, writerVars, batchVars, cleanerVars>>
  BY DEF checkForSwitchOperation, Goto
<1>2. pc' \in [Threads -> MainPcs \cup FlusherPcs] /\ lock' \in Threads \cup {NoLock}
  BY <1>1 DEF IInv, QTypeOK, FlusherPcs, Threads
<1> USE DEF segmentVars, statusVars, processVars, writerVars, batchVars, cleanerVars
<1>3. QTypeOK'
  BY <1>1, <1>2 DEF IInv, QTypeOK
<1>4. FlagsOK'
  BY <1>1, Zenon DEF IInv, FlagsOK
<1>5. UNCHANGED Content /\ pc'["main"] = pc["main"]
  BY <1>1 DEF Content, IInv, QTypeOK, Threads
<1>6. InvThreads'
  BY <1>1 DEF IInv, QTypeOK, InvThreads, Threads, FlusherPcs, Locked, Closing, NoLock
<1>7. InvClosing'
  BY <1>1, <1>5, SameContent DEF IInv, QTypeOK, InvClosing, ClosingStep, Threads,
       AfterClose, Closing, Content
<1>8. InvSynced'
  BY <1>1, <1>5 DEF IInv, InvSynced
<1>9. BatchStep'
  BY <1>1, <1>5, SameCoverage DEF IInv, InvChanges, BatchStep
<1> QED
  BY <1>1, <1>3, <1>4, <1>6, <1>7, <1>8, <1>9, ThreadStepKeeps

\* The cutover is over for the queue: the lock is free again.
LEMMA setShutDownKeeps ==
  ASSUME IInv, setShutDown, UNCHANGED cleanerVars
  PROVE  IInv'
<1>1. /\ process = "up" /\ pc["flusher"] = "exit" /\ ~shutDown /\ shutDown' = TRUE /\ lock' = NoLock
      /\ UNCHANGED <<segmentVars, process, crashes, pc, return, syncing, writerVars, batchVars,
                     cleanerVars>>
  BY DEF setShutDown
<1> USE DEF segmentVars, statusVars, writerVars, batchVars, cleanerVars
<1>2. QTypeOK'
  BY <1>1 DEF IInv, QTypeOK
<1>3. FlagsOK'
  BY <1>1, Zenon DEF IInv, FlagsOK
<1>4. UNCHANGED Content
  BY <1>1 DEF Content
<1>5. ~Locked("main")
  BY <1>1 DEF IInv, InvThreads, Locked
<1>6. InvThreads'
  BY <1>1, <1>5 DEF IInv, InvThreads, Locked, Closing
<1>7. InvClosing'
  BY <1>1, <1>4, SameContent DEF IInv, InvClosing, ClosingStep, AfterClose, Closing, Content
<1>8. InvSynced'
  BY <1>1 DEF IInv, InvSynced
<1>9. BatchStep'
  BY <1>1, <1>4, SameCoverage DEF IInv, InvChanges, BatchStep
<1> QED
  BY <1>1, <1>2, <1>3, <1>6, <1>7, <1>8, <1>9, ThreadStepKeeps

\* While the exporter runs, its segment is there and holds what is committed.
LEMMA CurrentThere ==
  ASSUME IInv, process # "exited" \/ ~cutoverProcessed
  PROVE  /\ ~cutoverProcessed /\ cur \in exists /\ cur \in Segments
         /\ sizeCommitted[cur] \in 0 .. Len(file[cur]) /\ file[cur] \in Seq(Lines)
         /\ Len(file[cur]) \in Nat /\ buffer \in Seq(Records) /\ Len(buffer) \in Nat
  BY DEF IInv, QTypeOK, InvThreads, InvSegments

\* The file is synced.
LEMMA fsyncKeeps ==
  ASSUME IInv, NEW t \in Threads, fsync(t), UNCHANGED cleanerVars
  PROVE  IInv'
<1>1. CASE cur \in closed
  <2>1. /\ process = "up" /\ pc[t] = "fsync" /\ pc' = [pc EXCEPT ![t] = "stopped"]
        /\ UNCHANGED <<segmentVars, processVars, return, syncing, lock, writerVars, batchVars>>
    BY <1>1 DEF fsync, Goto, writerVars
  <2>2. ~Locked(t)
    <3>1. \/ pc["main"] \in {"row", "create"}
          \/ pc["flusher"] \in {"row", "create", "exit"}
      BY <1>1, <2>1 DEF IInv, InvClosing
    <3> QED
      BY <2>1, <3>1 DEF IInv, InvThreads, Locked, Threads, Closing
  <2>3. t = "main" /\ return["main"] = "offsets"
    BY <2>1, <2>2 DEF IInv, InvThreads, Locked, Closing, Threads
  <2> QED
    BY <2>1, <2>3, MainStopsKeeps
<1>2. CASE cur \notin closed
  <2>1. /\ process = "up" /\ pc[t] = "fsync" /\ pc' = [pc EXCEPT ![t] = "meta"]
        /\ synced' = [synced EXCEPT ![cur] = Len(file[cur])]
        /\ syncing' = [syncing EXCEPT ![t] = cur]
        /\ UNCHANGED <<segmentVars, processVars, return, lock, cur, buffer, delta, closed,
                       batchVars, cleanerVars>>
    BY <1>2 DEF fsync, Goto
  <2>2. /\ pc' \in [Threads -> MainPcs \cup FlusherPcs] /\ syncing' \in [Threads -> Segments]
        /\ synced' \in [Segments -> Nat]
    <3>1. Len(file[cur]) \in Nat
      BY <2>1, CurrentThere
    <3> QED
      BY <2>1, <3>1 DEF IInv, QTypeOK, FlusherPcs
  <2> USE DEF segmentVars, statusVars, processVars, batchVars, cleanerVars
  <2>3. QTypeOK'
    BY <2>1, <2>2 DEF IInv, QTypeOK
  <2>4. FlagsOK'
    BY <2>1, Zenon DEF IInv, FlagsOK
  <2>5. UNCHANGED Content
    BY <2>1 DEF Content
  <2>6. sizeCommitted[cur] <= Len(file[cur])
    BY <2>1, CurrentThere
  <2>7. CASE t = "main"
    <3>0. /\ pc'["main"] = "meta" /\ pc'["flusher"] = pc["flusher"]
          /\ syncing'["main"] = cur /\ syncing'["flusher"] = syncing["flusher"]
          /\ pc["main"] = "fsync" /\ cur <= cur
      BY <2>1, <2>7 DEF IInv, QTypeOK, Threads, Segments
    <3>1. InvThreads'
      BY <2>1, <3>0 DEF IInv, InvThreads, MainPcs, Locked, Closing
    <3>2. InvClosing'
      BY <2>1, <2>5, <3>0, SameContent DEF IInv, InvClosing, ClosingStep, AfterClose, Closing, Content
    <3>3. InvSynced'
      BY <2>1, <2>6, <2>7 DEF IInv, QTypeOK, InvSynced, Threads
    <3>4. BatchStep'
      BY <2>1, <2>5, <2>7, SameCoverage DEF IInv, QTypeOK, InvChanges, BatchStep, Threads
    <3> QED
      BY <2>1, <2>3, <2>4, <3>1, <3>2, <3>3, <3>4, ThreadStepKeeps
  <2>8. CASE t = "flusher"
    <3>0. /\ pc'["flusher"] = "meta" /\ pc'["main"] = pc["main"]
          /\ syncing'["flusher"] = cur /\ syncing'["main"] = syncing["main"]
          /\ pc["flusher"] = "fsync"
      BY <2>1, <2>8 DEF IInv, QTypeOK, Threads
    <3>1. InvThreads'
      BY <2>1, <3>0 DEF IInv, InvThreads, FlusherPcs, Locked, Closing
    <3>2. InvClosing'
      BY <2>1, <2>5, <3>0, SameContent DEF IInv, InvClosing, ClosingStep, AfterClose, Closing, Content
    <3>3. pc'["main"] = pc["main"] /\ syncing'["main"] = syncing["main"] /\ cutoverRequested'
      BY <2>1, <3>0 DEF IInv, InvThreads
    <3>4. InvSynced'
      BY <3>3 DEF InvSynced
    <3>5. BatchStep'
      BY <2>1, <2>5, <3>3, SameCoverage DEF IInv, InvChanges, BatchStep
    <3> QED
      BY <2>1, <2>3, <2>4, <3>1, <3>2, <3>4, <3>5, ThreadStepKeeps
  <2> QED
    BY <2>7, <2>8 DEF Threads
<1> QED
  BY <1>1, <1>2

\* close() or sync() returns.
LEMMA clearDeltaKeeps ==
  ASSUME IInv, NEW t \in Threads, clearDelta(t), UNCHANGED cleanerVars
  PROVE  IInv'
<1>1. /\ process = "up" /\ pc[t] = "clear" /\ pc' = [pc EXCEPT ![t] = return[t]]
      /\ delta' = [delta EXCEPT ![syncing[t]] = 0]
      /\ closed' = IF return[t] = "offsets" THEN closed ELSE closed \cup {syncing[t]}
      /\ UNCHANGED <<segmentVars, processVars, return, syncing, lock, cur, buffer, synced,
                     batchVars, cleanerVars>>
  BY DEF clearDelta, Goto
<1>2. /\ pc' \in [Threads -> MainPcs \cup FlusherPcs] /\ closed' \subseteq Segments
      /\ delta' \in [Segments -> Nat]
  BY <1>1 DEF IInv, QTypeOK, MainPcs, FlusherPcs
<1> USE DEF segmentVars, statusVars, processVars, batchVars, cleanerVars
<1>3. QTypeOK'
  BY <1>1, <1>2 DEF IInv, QTypeOK
<1>4. FlagsOK'
  BY <1>1, Zenon DEF IInv, FlagsOK
<1>5. UNCHANGED Content
  BY <1>1 DEF Content
<1>6. CASE t = "main"
  <2>0. /\ pc["main"] = "clear" /\ pc'["main"] = return["main"] /\ pc'["flusher"] = pc["flusher"]
        /\ return["main"] \in {"row", "offsets"}
    BY <1>1, <1>6 DEF IInv, QTypeOK, InvThreads, Threads
  <2>1. InvThreads'
    BY <1>1, <2>0 DEF IInv, InvThreads, MainPcs, Locked, Closing
  <2>2. closed' \subseteq 0 .. cur /\ (cur \in closed' => cur \in closed \/ return["main"] # "offsets")
    <3>1. cur \in 0 .. cur /\ closed \subseteq 0 .. cur
      BY <1>1 DEF IInv, QTypeOK, InvClosing, Segments
    <3>2. return["main"] # "offsets" => syncing["main"] = cur
      BY <1>1, <2>0 DEF IInv, InvClosing, ClosingStep, Closing
    <3> QED
      BY <1>1, <1>6, <3>1, <3>2
  <2>3. InvClosing'
    BY <1>1, <1>5, <2>0, <2>2, SameContent DEF IInv, InvClosing, ClosingStep, AfterClose, Closing, Content
  <2>4. InvSynced'
    BY <1>1, <1>6 DEF IInv, QTypeOK, InvSynced, Threads
  <2>5. BatchStep'
    BY <1>1, <1>5, <1>6, SameCoverage DEF IInv, QTypeOK, InvChanges, BatchStep, Threads
  <2> QED
    BY <1>1, <1>3, <1>4, <2>1, <2>3, <2>4, <2>5, ThreadStepKeeps
<1>7. CASE t = "flusher"
  <2>0. /\ pc["flusher"] = "clear" /\ pc'["flusher"] = return["flusher"] /\ pc'["main"] = pc["main"]
        /\ return["flusher"] \in {"row", "exit"}
    BY <1>1, <1>7 DEF IInv, QTypeOK, InvThreads, Threads
  <2>1. InvThreads'
    BY <1>1, <2>0 DEF IInv, InvThreads, FlusherPcs, Locked, Closing
  <2>2. closed' \subseteq 0 .. cur
    <3>1. cur \in 0 .. cur /\ closed \subseteq 0 .. cur
      BY <1>1 DEF IInv, QTypeOK, InvClosing, Segments
    <3>2. syncing["flusher"] = cur
      BY <1>1, <2>0 DEF IInv, InvClosing, ClosingStep, Closing
    <3> QED
      BY <1>1, <1>7, <3>1, <3>2
  <2>3. InvClosing'
    BY <1>1, <1>5, <2>0, <2>2, SameContent DEF IInv, InvClosing, ClosingStep, AfterClose, Closing, Content
  <2>4. pc'["main"] = pc["main"]
    BY <1>1, <1>7 DEF IInv, QTypeOK, Threads
  <2>5. InvSynced'
    BY <1>1, <2>4 DEF IInv, InvSynced
  <2>6. BatchStep'
    BY <1>1, <1>5, <2>4, SameCoverage DEF IInv, InvChanges, BatchStep
  <2> QED
    BY <1>1, <1>3, <1>4, <2>1, <2>3, <2>5, <2>6, ThreadStepKeeps
<1> QED
  BY <1>6, <1>7 DEF Threads

\* The offsets of the batch are committed.
LEMMA commitBatchOffsetsKeeps ==
  ASSUME IInv, commitBatchOffsets, UNCHANGED cleanerVars
  PROVE  IInv'
<1>1. /\ process = "up" /\ pc["main"] = "offsets" /\ offset' = batchEnd
      /\ pc' = [pc EXCEPT !["main"] = "poll"]
      /\ UNCHANGED <<rows, sizeCommitted, totalEvents, importedBy, removed, file, exists, statusVars,
                     queue, processVars, return, syncing, lock, writerVars, batchVars, cleanerVars>>
  BY DEF commitBatchOffsets, Goto
<1>2. pc' \in [Threads -> MainPcs \cup FlusherPcs] /\ pc'["main"] = "poll" /\ pc'["flusher"] = pc["flusher"]
  BY <1>1 DEF IInv, QTypeOK, MainPcs, Threads
<1> USE DEF statusVars, processVars, writerVars, batchVars, cleanerVars
<1>3. UNCHANGED <<Content, archive, cutoverDetected, cutoverProcessed>>
  BY <1>1 DEF Content
<1>4. QTypeOK'
  BY <1>1, <1>2 DEF IInv, QTypeOK
<1>5. FlagsOK'
  BY <1>1, Zenon DEF IInv, FlagsOK
<1>6. InvThreads'
  BY <1>1, <1>2 DEF IInv, InvThreads, MainPcs, Locked, Closing
<1>7. InvSegments' /\ InvMarkers' /\ InvVsn' /\ InvCleaner'
  BY <1>1, <1>3, SegmentsKept, MarkersKept, VsnKept, CleanerKept DEF IInv, InvSegments
<1>8. InvClosing'
  BY <1>1, <1>2, <1>3, SameContent DEF IInv, InvClosing, ClosingStep, AfterClose, Closing
<1>9. InvSynced'
  BY <1>1, <1>2 DEF IInv, InvSynced
<1>10. InvChanges'
  <2>1. pos = batchEnd /\ Committed(pos)
    BY <1>1 DEF IInv, InvChanges, BatchStep
  <2>2. Committed(offset)'
    BY <1>1, <1>3, <2>1, SameContent DEF Committed
  <2>3. BatchStep'
    BY <1>1, <1>2 DEF IInv, InvChanges, BatchStep
  <2> QED
    BY <1>1, <1>3, <2>2, <2>3, SameContent, SameCoverage DEF IInv, InvChanges
<1> QED
  BY <1>4, <1>5, <1>6, <1>7, <1>8, <1>9, <1>10 DEF IInv

\* The row of the next segment is created.
LEMMA queueSegmentCreatedKeeps ==
  ASSUME IInv, NEW t \in Threads, queueSegmentCreated(t), UNCHANGED cleanerVars
  PROVE  IInv'
<1>1. /\ process = "up" /\ pc[t] = "row" /\ rows' = rows \cup {cur + 1}
      /\ pc' = [pc EXCEPT ![t] = "create"]
      /\ UNCHANGED <<sizeCommitted, totalEvents, importedBy, removed, file, exists, offset, statusVars,
                     queue, processVars, return, syncing, lock, writerVars, batchVars, cleanerVars>>
  BY DEF queueSegmentCreated, Goto
<1>2. /\ pc' \in [Threads -> MainPcs \cup FlusherPcs] /\ pc'[t] = "create"
      /\ \A u \in Threads \ {t} : pc'[u] = pc[u]
  BY <1>1 DEF IInv, QTypeOK, MainPcs
<1>3. cur < MaxSegment /\ Done(cur)
  BY <1>1 DEF IInv, InvClosing, ClosingStep, Threads
<1>4. rows' \subseteq Segments
  <2>1. cur \in Segments /\ rows \subseteq Segments
    BY DEF IInv, QTypeOK
  <2>2. cur + 1 \in Segments
    BY <1>3, <2>1, QueueAssumption DEF Segments
  <2> QED
    BY <1>1, <2>1, <2>2
<1> USE DEF statusVars, processVars, writerVars, batchVars, cleanerVars
<1>5. UNCHANGED <<Content, archive, cutoverDetected, cutoverProcessed>>
  BY <1>1 DEF Content
<1>6. QTypeOK'
  BY <1>1, <1>2, <1>4 DEF IInv, QTypeOK
<1>7. FlagsOK'
  BY <1>1, Zenon DEF IInv, FlagsOK
<1>8. ~cutoverDetected /\ ~cutoverProcessed
  BY <1>1 DEF IInv, InvThreads
<1>9. InvSegments'
  <2>1. 0 .. cur \subseteq rows' /\ rows' \subseteq 0 .. cur + 1
    <3>1. cur \in Nat
      BY DEF IInv, QTypeOK, Segments
    <3>2. 0 .. cur \subseteq rows /\ rows \subseteq 0 .. cur + 1
      BY DEF IInv, InvSegments
    <3>3. cur + 1 \in 0 .. cur + 1
      BY <3>1
    <3> QED
      BY <1>1, <3>2, <3>3
  <2> QED
    BY <1>1, <1>3, <1>5, <1>8, <2>1, SameContent DEF IInv, InvSegments, Content
<1>10. InvMarkers' /\ InvVsn' /\ InvCleaner'
  BY <1>1, <1>5, <1>8, MarkersKept, VsnKept, CleanerKept DEF IInv
<1>11. CASE t = "main"
  <2>1. pc["main"] = "row" /\ pc'["main"] = "create" /\ pc'["flusher"] = pc["flusher"]
    BY <1>1, <1>2, <1>11 DEF Threads
  <2>2. InvThreads'
    BY <1>1, <2>1 DEF IInv, InvThreads, MainPcs, Locked, Closing
  <2>3. InvClosing'
    BY <1>1, <1>3, <1>5, <2>1, SameContent DEF IInv, InvClosing, ClosingStep, AfterClose, Closing, Content
  <2>4. InvSynced'
    BY <1>1, <2>1 DEF IInv, InvSynced
  <2>5. BatchStep'
    BY <1>1, <2>1 DEF IInv, InvChanges, BatchStep
  <2>6. InvChanges'
    BY <1>1, <1>5, <2>5, SameContent, SameCoverage DEF IInv, InvChanges
  <2> QED
    BY <1>6, <1>7, <1>9, <1>10, <2>2, <2>3, <2>4, <2>6 DEF IInv
<1>12. CASE t = "flusher"
  <2>1. pc["flusher"] = "row" /\ pc'["flusher"] = "create" /\ pc'["main"] = pc["main"]
    BY <1>1, <1>2, <1>12 DEF Threads
  <2>2. InvThreads'
    BY <1>1, <2>1 DEF IInv, InvThreads, FlusherPcs, Locked, Closing
  <2>3. InvClosing'
    BY <1>1, <1>3, <1>5, <2>1, SameContent DEF IInv, InvClosing, ClosingStep, AfterClose, Closing, Content
  <2>4. InvSynced'
    BY <1>1, <2>1 DEF IInv, InvSynced
  <2>5. BatchStep'
    BY <1>1, <1>5, <2>1, SameCoverage DEF IInv, InvChanges, BatchStep
  <2>6. InvChanges'
    BY <1>1, <1>5, <2>5, SameContent, SameCoverage DEF IInv, InvChanges
  <2> QED
    BY <1>6, <1>7, <1>9, <1>10, <2>2, <2>3, <2>4, <2>6 DEF IInv
<1> QED
  BY <1>11, <1>12 DEF Threads

\* Steps of a process that has ended, and flags.
LEMMA FlagStepKeeps ==
  ASSUME IInv, InvThreads', FlagsOK', process' \in {"up", "down", "exited"},
         process' = "up" => process = "up",
         UNCHANGED <<rows, sizeCommitted, totalEvents, importedBy, removed, file, exists, offset,
                     importerDone, queue, crashes, threadVars, writerVars, batchVars, cleanerVars>>,
         cutoverProcessed => cutoverProcessed', cutoverRequested => cutoverRequested',
         cur + 1 \in rows => process' # "exited" /\ ~cutoverDetected'
  PROVE  IInv'
<1> USE DEF threadVars, writerVars, batchVars, cleanerVars
<1>1. UNCHANGED <<Content, archive, exists, rows, importedBy, nextVsn, removed, cleanerVars>>
  BY DEF Content
<1>2. QTypeOK'
  BY DEF IInv, QTypeOK
<1>3. InvSegments' /\ InvMarkers' /\ InvVsn' /\ InvCleaner'
  BY <1>1, SegmentsKept, MarkersKept, VsnKept, CleanerKept DEF IInv
<1>4. InvClosing'
  BY <1>1, SameContent DEF IInv, InvClosing, ClosingStep, AfterClose, Closing
<1>5. InvSynced'
  BY DEF IInv, InvSynced
<1>6. BatchStep => BatchStep'
  BY <1>1, SameCoverage DEF BatchStep
<1>7. InvChanges'
  BY <1>1, <1>6, SameContent, SameCoverage DEF IInv, InvChanges
<1> QED
  BY <1>2, <1>3, <1>4, <1>5, <1>7 DEF IInv

\* System.exit after the switch record.
LEMMA exitKeeps ==
  ASSUME IInv, exit, UNCHANGED cleanerVars
  PROVE  IInv'
<1>1. /\ process = "up" /\ shutDown /\ process' = "exited"
      /\ UNCHANGED <<segmentVars, shutDown, crashes, threadVars, writerVars, batchVars, cleanerVars>>
  BY DEF exit
<1> USE DEF segmentVars, statusVars, threadVars, writerVars, batchVars, cleanerVars
<1>2. cur + 1 \notin rows /\ cutoverRequested
  BY <1>1 DEF IInv, InvThreads, InvClosing
<1>3. InvThreads'
  BY <1>1, <1>2 DEF IInv, InvThreads, Locked, Closing
<1>4. FlagsOK'
  BY <1>1, Zenon DEF IInv, FlagsOK
<1> QED
  BY <1>1, <1>2, <1>3, <1>4, FlagStepKeeps

\* The command notes that Debezium has exited.
LEMMA updateCutoverDetectedFlagKeeps ==
  ASSUME IInv, updateCutoverDetectedFlag, UNCHANGED cleanerVars
  PROVE  IInv'
<1>1. /\ process = "exited" /\ cutoverDetected' = TRUE
      /\ UNCHANGED <<rows, sizeCommitted, totalEvents, importedBy, removed, file, exists, offset,
                     cutoverRequested, cutoverProcessed, importerDone, queue, exporterVars, cleanerVars>>
  BY DEF updateCutoverDetectedFlag
<1> USE DEF exporterVars, processVars, threadVars, writerVars, batchVars, cleanerVars
<1>2. cur + 1 \notin rows
  BY <1>1 DEF IInv, InvSegments
<1>3. InvThreads'
  BY <1>1 DEF IInv, InvThreads, Locked, Closing
<1>4. FlagsOK'
  BY <1>1, Zenon DEF IInv, FlagsOK
<1> QED
  BY <1>1, <1>2, <1>3, <1>4, FlagStepKeeps

\* The exporter has processed the cutover.
LEMMA markCutoverProcessedKeeps ==
  ASSUME IInv, markCutoverProcessed, UNCHANGED cleanerVars
  PROVE  IInv'
<1>1. /\ process = "exited" /\ cutoverProcessed' = TRUE
      /\ UNCHANGED <<rows, sizeCommitted, totalEvents, importedBy, removed, file, exists, offset,
                     cutoverRequested, cutoverDetected, importerDone, queue, exporterVars, cleanerVars>>
  BY DEF markCutoverProcessed
<1> USE DEF exporterVars, processVars, threadVars, writerVars, batchVars, cleanerVars
<1>2. cur + 1 \notin rows
  BY <1>1 DEF IInv, InvSegments
<1>3. InvThreads'
  BY <1>1 DEF IInv, InvThreads, Locked, Closing
<1>4. FlagsOK'
  BY <1>1, Zenon DEF IInv, FlagsOK
<1> QED
  BY <1>1, <1>2, <1>3, <1>4, FlagStepKeeps

\* A command started again after the cutover was detected.
LEMMA skipDebeziumKeeps ==
  ASSUME IInv, skipDebezium, UNCHANGED cleanerVars
  PROVE  IInv'
<1>1. /\ process = "down" /\ cutoverDetected /\ process' = "exited"
      /\ UNCHANGED <<segmentVars, shutDown, crashes, threadVars, writerVars, batchVars, cleanerVars>>
  BY DEF skipDebezium
<1> USE DEF segmentVars, statusVars, threadVars, writerVars, batchVars, cleanerVars
<1>2. cur + 1 \notin rows /\ cutoverRequested
  BY <1>1 DEF IInv, InvThreads, InvSegments
<1>3. InvThreads'
  BY <1>1, <1>2 DEF IInv, InvThreads, Locked, Closing
<1>4. FlagsOK'
  BY <1>1, Zenon DEF IInv, FlagsOK
<1> QED
  BY <1>1, <1>2, <1>3, <1>4, FlagStepKeeps

\* A cutover is requested.
LEMMA initiateCutoverKeeps ==
  ASSUME IInv, initiateCutover
  PROVE  IInv'
<1>1. /\ cutoverRequested' = TRUE
      /\ UNCHANGED <<rows, sizeCommitted, totalEvents, importedBy, removed, file, exists, offset,
                     cutoverDetected, cutoverProcessed, importerDone, queue, exporterVars, cleanerVars>>
  BY DEF initiateCutover
<1> USE DEF exporterVars, processVars, threadVars, writerVars, batchVars, cleanerVars
<1>2. cur + 1 \in rows => process' # "exited" /\ ~cutoverDetected'
  BY <1>1 DEF IInv, InvSegments
<1>3. InvThreads'
  BY <1>1 DEF IInv, InvThreads, Locked, Closing
<1>4. FlagsOK'
  BY <1>1, Zenon DEF IInv, FlagsOK
<1>5. process' \in {"up", "down", "exited"}
  BY <1>1 DEF IInv, QTypeOK
<1> QED
  BY <1>1, <1>2, <1>3, <1>4, <1>5, FlagStepKeeps

\* An importer marks a segment it has read to its end.
LEMMA markSegmentImportedKeeps ==
  ASSUME IInv, NEW r \in Importers, markSegmentImported(r)
  PROVE  IInv'
<1>1. PICK s : /\ s \in exists /\ sizeCommitted[s] \in DOMAIN file[s]
               /\ file[s][sizeCommitted[s]] = EofMarker
               /\ importedBy' = [importedBy EXCEPT ![s] = @ \cup {r}]
  BY DEF markSegmentImported
<1>2. UNCHANGED <<rows, sizeCommitted, totalEvents, removed, file, exists, offset, cutoverRequested,
                  cutoverDetected, cutoverProcessed, queue, exporterVars, cleanerVars>>
  BY DEF markSegmentImported
<1>3. importerDone' \subseteq Importers
  <2>1. importerDone' \in {importerDone, importerDone \cup {r}}
    BY DEF markSegmentImported
  <2> QED
    BY <2>1 DEF IInv, QTypeOK
<1>4. s \in Segments /\ importedBy' \in [Segments -> SUBSET Importers]
  BY <1>1 DEF IInv, QTypeOK
<1>5. Done(s) /\ s <= cur
  <2>1. sizeCommitted[s] = Len(file[s]) /\ file[s] # <<>> /\ file[s] \in Seq(Lines)
    BY <1>1, <1>4 DEF IInv, QTypeOK, InvMarkers
  <2>2. ~(s > cur)
    BY <1>4, <2>1 DEF IInv, InvSegments
  <2> QED
    BY <1>1, <1>4, <2>1, <2>2 DEF Done, Closed, IInv, QTypeOK, Segments
<1> USE DEF exporterVars, processVars, threadVars, writerVars, batchVars, cleanerVars
<1>6. UNCHANGED <<Content, archive, rows, exists, nextVsn, removed, cleanerVars>>
  BY <1>2 DEF Content
<1>7. QTypeOK'
  BY <1>2, <1>3, <1>4 DEF IInv, QTypeOK
<1>8. FlagsOK'
  BY <1>2, Zenon DEF IInv, FlagsOK
<1>9. InvThreads'
  BY <1>2 DEF IInv, InvThreads, Locked, Closing
<1>10. InvSegments'
  <2>1. \A x \in Segments : x # s => importedBy'[x] = importedBy[x]
    BY <1>1, <1>4 DEF IInv, QTypeOK
  <2>2. importedBy'[s] = importedBy[s] \cup {r} /\ importedBy[s] \subseteq Importers
    BY <1>1, <1>4 DEF IInv, QTypeOK
  <2>3. cur \in Segments
    BY DEF IInv, QTypeOK
  <2>4. \A x \in Segments : x > cur => importedBy'[x] = {}
    BY <1>5, <2>1, <2>3, <1>4 DEF IInv, InvSegments, Segments
  <2>5. \A x \in Segments : x <= cur /\ x \notin exists => importedBy'[x] = Importers
    BY <1>1, <2>1 DEF IInv, InvSegments
  <2>6. importedBy'[cur] # {} /\ cur \in exists => Done(cur)
    BY <1>5, <2>1, <2>3 DEF IInv, InvSegments
  <2> QED
    BY <1>2, <1>6, <2>4, <2>5, <2>6, SameContent DEF IInv, InvSegments, Content
<1>11. InvMarkers' /\ InvVsn'
  BY <1>2, <1>6, MarkersKept, VsnKept DEF IInv
<1>12. InvCleaner'
  <2>1. \A x \in rows : importedBy[x] = Importers => importedBy'[x] = Importers
    BY <1>1, <1>4 DEF IInv, QTypeOK
  <2> QED
    BY <1>2, <1>6, <2>1, CleanerKept DEF IInv
<1>13. InvClosing'
  BY <1>2, <1>6, SameContent DEF IInv, InvClosing, ClosingStep, AfterClose, Closing
<1>14. InvSynced'
  BY <1>2 DEF IInv, InvSynced
<1>15. BatchStep => BatchStep'
  BY <1>2, <1>6, SameCoverage DEF BatchStep
<1>16. InvChanges'
  BY <1>2, <1>6, <1>15, SameContent, SameCoverage DEF IInv, InvChanges
<1> QED
  BY <1>7, <1>8, <1>9, <1>10, <1>11, <1>12, <1>13, <1>14, <1>16 DEF IInv

-----------------------------------------------------------------------------
(* The cleaner.                                                             *)

\* A set of natural numbers has a smallest element.
LEMMA MinOfNats ==
  ASSUME NEW S \in SUBSET Nat, S # {}
  PROVE  Min(S) \in S /\ \A y \in S : Min(S) <= y
<1>1. \E x \in S : \A y \in S : ~(<<y, x>> \in OpToRel(<, Nat))
  BY WFMin, NatLessThanWellFounded, Zenon
<1>2. PICK x \in S : \A y \in S : ~(<<y, x>> \in OpToRel(<, Nat))
  BY <1>1, Zenon
<1>3. \A y \in S : ~(y < x)
  BY <1>2, Zenon DEF OpToRel
<1>4. \A y \in S : x <= y
  BY <1>3
<1> QED
  BY <1>4 DEF Min

\* A bounded set of natural numbers has a largest element.
LEMMA MaxOfBounded ==
  ASSUME NEW N \in Nat, NEW S \in SUBSET (0 .. N), S # {}
  PROVE  Max(S) \in S /\ \A y \in S : y <= Max(S)
<1> DEFINE R == {N - x : x \in S}
<1>1. \A x \in S : x \in Int /\ N - x \in Nat
  OBVIOUS
<1>2. R \in SUBSET Nat /\ R # {}
  BY <1>1
<1>3. Min(R) \in R /\ \A y \in R : Min(R) <= y
  BY <1>2, MinOfNats
<1>4. PICK x \in S : Min(R) = N - x
  BY <1>3
<1>5. ASSUME NEW y \in S PROVE x >= y
  <2>1. N - y \in R
    OBVIOUS
  <2>2. N - x <= N - y
    BY <1>3, <1>4, <2>1
  <2> QED
    BY <1>1, <2>2
<1> QED
  BY <1>5 DEF Max

\* The segment the cleaner is at is one of the eligible ones.
LEMMA CurrentEligible ==
  ASSUME QTypeOK, eligible # {}
  PROVE  Current \in eligible /\ Current \in Segments
<1>1. eligible \in SUBSET Nat /\ eligible \subseteq Segments
  BY DEF QTypeOK, Segments
<1> QED
  BY <1>1, MinOfNats DEF Current

\* A step of the cleaner that removes no file.
LEMMA CleanerStepKeeps ==
  ASSUME IInv, QTypeOK', FlagsOK', InvCleaner',
         UNCHANGED <<rows, sizeCommitted, totalEvents, importedBy, file, exists, offset, statusVars,
                     queue, exporterVars>>,
         stop' => cutoverProcessed,
         \A s \in Segments : s \notin exists /\ archive[s] = "full" => archive'[s] = "full"
  PROVE  IInv'
<1> USE DEF statusVars, exporterVars, processVars, threadVars, writerVars, batchVars
<1>1. UNCHANGED Content
  BY DEF Content
<1>2. InvThreads'
  BY DEF IInv, InvThreads, Locked, Closing
<1>3. InvSegments'
  BY <1>1, SameContent DEF IInv, InvSegments
<1>4. InvMarkers' /\ InvVsn'
  BY <1>1, MarkersKept, VsnKept DEF IInv
<1>5. InvClosing'
  BY <1>1, SameContent DEF IInv, InvClosing, ClosingStep, AfterClose, Closing
<1>6. InvSynced'
  BY DEF IInv, InvSynced
<1>7. BatchStep => BatchStep'
  BY <1>1, SameCoverage DEF BatchStep
<1>8. InvChanges'
  BY <1>1, <1>7, SameContent, SameCoverage DEF IInv, InvChanges
<1> QED
  BY <1>2, <1>3, <1>4, <1>5, <1>6, <1>8 DEF IInv

\* While the queue still grows, some segment is not removed.
LEMMA SomethingRemains ==
  ASSUME IInv, rows \subseteq removed
  PROVE  cutoverProcessed
<1> SUFFICES ASSUME ~cutoverProcessed PROVE FALSE
  OBVIOUS
<1>1. cur \in Nat /\ 0 .. cur \subseteq rows /\ rows \subseteq 0 .. cur + 1
  BY DEF IInv, QTypeOK, Segments, InvSegments
<1>2. \A s \in rows : \E t \in rows : t > s /\ importedBy[t] = Importers
  BY DEF IInv, InvCleaner, Removable
<1>3. PICK t \in rows : t > cur /\ importedBy[t] = Importers
  BY <1>1, <1>2
<1>4. importedBy[t] = {}
  BY <1>3 DEF IInv, QTypeOK, InvSegments
<1> QED
  BY <1>3, <1>4, QueueAssumption

\* An iteration begins.
LEMMA GetProcessedKeeps ==
  ASSUME IInv, GetProcessedAndPendingSegments, UNCHANGED exporterVars
  PROVE  IInv'
<1> DEFINE done == {s \in rows : importedBy[s] = Importers}
<1>1. /\ processed' = done \ removed /\ pending' = rows \ done
      /\ eligible' = segmentsEligibleForCleanup(done \ removed)
      /\ cleaner' = "segment"
      /\ UNCHANGED <<segmentVars, stop, archive, copyErrors, cleanerCrashes>>
  BY DEF GetProcessedAndPendingSegments
<1>2. eligible' \subseteq done \ removed
  BY <1>1 DEF segmentsEligibleForCleanup
<1>3. ASSUME NEW s \in eligible', ~cutoverProcessed PROVE \E t \in rows : t > s /\ importedBy[t] = Importers
  <2>1. ~stop
    BY <1>3 DEF IInv, InvThreads
  <2>2. Cardinality({t \in done \ removed : t > s}) >= archiveChangesBuffer
    BY <1>1, <1>3, <2>1 DEF segmentsEligibleForCleanup
  <2>3. {t \in done \ removed : t > s} # {}
    <3>1. Cardinality({}) = 0
      BY FS_EmptySet
    <3> QED
      BY <2>2, <3>1, CleanerAssumption
  <2> QED
    BY <2>3
<1> USE DEF segmentVars, statusVars
<1>4. QTypeOK'
  BY <1>1, <1>2 DEF IInv, QTypeOK, exporterVars, processVars, threadVars, writerVars, batchVars
<1>5. FlagsOK'
  BY <1>1, Zenon DEF IInv, FlagsOK, exporterVars, processVars
<1>6. InvCleaner'
  <2>1. \A s \in eligible' : s \in rows /\ importedBy[s] = Importers
    BY <1>2
  <2>2. \A s \in (eligible \cup removed)' : Removable(s)'
    <3>1. \A s \in removed : Removable(s)
      BY DEF IInv, InvCleaner
    <3>2. \A s \in eligible' : Removable(s)
      BY <1>3, <2>1 DEF Removable
    <3> QED
      BY <1>1, <3>1, <3>2 DEF Removable
  <2>3. processed' = {} /\ pending' = {} => cutoverProcessed /\ rows \subseteq removed
    BY <1>1, SomethingRemains
  <2> QED
    BY <1>1, <2>2, <2>3 DEF IInv, InvCleaner
<1> QED
  BY <1>1, <1>4, <1>5, <1>6, CleanerStepKeeps DEF IInv, InvThreads

\* An old archive file is removed, or the segment is copied.
LEMMA ArchiveStepKeeps ==
  ASSUME IInv, UNCHANGED <<segmentVars, stop, processed, pending, eligible, copyErrors, cleanerCrashes,
                           exporterVars>>,
         cleaner \in {"segment", "copy"}, cleaner' \in {"copy", "copied"},
         Policy = "archive", eligible # {}, Current \in exists,
         NEW a \in {"none", "partial", "full"}, archive' = [archive EXCEPT ![Current] = a],
         cleaner' = "copied" => a = "full"
  PROVE  IInv'
<1>1. Current \in eligible /\ Current \in Segments /\ Current' = Current
  BY CurrentEligible DEF IInv, Current
<1> USE DEF segmentVars, statusVars
<1>2. QTypeOK'
  BY <1>1 DEF IInv, QTypeOK, exporterVars, processVars, threadVars, writerVars, batchVars
<1>3. FlagsOK'
  BY Zenon DEF IInv, FlagsOK, exporterVars, processVars
<1>4. InvCleaner'
  BY <1>1 DEF IInv, QTypeOK, InvCleaner, Removable
<1>5. \A s \in Segments : s \notin exists /\ archive[s] = "full" => archive'[s] = "full"
  BY <1>1 DEF IInv, QTypeOK
<1> QED
  BY <1>2, <1>3, <1>4, <1>5, CleanerStepKeeps DEF IInv, InvThreads

\* The row of a removed segment is marked.
LEMMA markSegmentKeeps ==
  ASSUME IInv, markSegment, UNCHANGED exporterVars
  PROVE  IInv'
<1>1. PICK s : s = Current
  OBVIOUS
<1>2. /\ cleaner = "mark" /\ removed' = removed \cup {s} /\ eligible' = eligible \ {s}
      /\ cleaner' = "segment"
      /\ UNCHANGED <<rows, sizeCommitted, totalEvents, importedBy, file, exists, offset, statusVars,
                     queue, stop, processed, pending, archive, copyErrors, cleanerCrashes>>
  BY <1>1 DEF markSegment
<1>3. s \in eligible /\ s \notin exists
  BY <1>1, <1>2, CurrentEligible DEF IInv, InvCleaner
<1>4. s \in rows /\ Removable(s)
  BY <1>3 DEF IInv, InvCleaner, Removable
<1> USE DEF statusVars
<1>5. QTypeOK'
  BY <1>2, <1>4 DEF IInv, QTypeOK, exporterVars, processVars, threadVars, writerVars, batchVars
<1>6. FlagsOK'
  BY <1>2, Zenon DEF IInv, FlagsOK, exporterVars, processVars
<1>7. InvCleaner'
  BY <1>2, <1>3, <1>4 DEF IInv, InvCleaner, Removable
<1> QED
  BY <1>2, <1>5, <1>6, <1>7, CleanerStepKeeps DEF IInv, InvThreads

\* Steps that change the cleaner's own state only.
LEMMA CleanerMovesKeep ==
  ASSUME IInv, UNCHANGED <<segmentVars, archive, exporterVars>>,
         \/ checkArchived \/ endIteration \/ copyError \/ cleanerCrash \/ cleanerRestart \/ SignalStop
  PROVE  IInv'
<1> USE DEF segmentVars, statusVars
<1>1. CASE checkArchived
  <2>1. /\ cleaner = "segment" /\ Policy = "archive" /\ eligible # {} /\ Current \notin exists
        /\ cleaner' = IF archive[Current] # "none" THEN "mark" ELSE ErrorOutcome
        /\ UNCHANGED <<stop, processed, pending, eligible, copyErrors, cleanerCrashes>>
    BY <1>1 DEF checkArchived
  <2>2. Current \in eligible /\ Current \in Segments /\ Current' = Current
    BY <2>1, CurrentEligible DEF IInv, Current
  <2>3. Current <= cur /\ archive[Current] = "full"
    <3>1. importedBy[Current] = Importers
      BY <2>2 DEF IInv, InvCleaner, Removable
    <3>2. ~(Current > cur)
      BY <2>2, <3>1, QueueAssumption DEF IInv, InvSegments
    <3>3. Current <= cur
      BY <2>2, <3>2 DEF IInv, QTypeOK, Segments
    <3> QED
      BY <2>1, <2>2, <3>3 DEF IInv, InvSegments
  <2>4. cleaner' = "mark"
    BY <2>1, <2>3
  <2>5. QTypeOK'
    BY <2>1, <2>4 DEF IInv, QTypeOK, exporterVars, processVars, threadVars, writerVars, batchVars
  <2>6. FlagsOK'
    BY <2>1, Zenon DEF IInv, FlagsOK, exporterVars, processVars
  <2>7. InvCleaner'
    BY <2>1, <2>2, <2>4 DEF IInv, InvCleaner, Removable
  <2> QED
    BY <2>1, <2>5, <2>6, <2>7, CleanerStepKeeps DEF IInv, InvThreads
<1>2. CASE endIteration
  <2>1. /\ cleaner = "segment"
        /\ cleaner' = IF stop /\ processed = {} /\ pending = {} THEN "complete" ELSE "tick"
        /\ UNCHANGED <<stop, processed, pending, eligible, copyErrors, cleanerCrashes>>
    BY <1>2 DEF endIteration
  <2>2. QTypeOK'
    BY <2>1 DEF IInv, QTypeOK, exporterVars, processVars, threadVars, writerVars, batchVars
  <2>3. FlagsOK'
    BY <2>1, Zenon DEF IInv, FlagsOK, exporterVars, processVars
  <2>4. InvCleaner'
    BY <2>1 DEF IInv, InvCleaner, Removable
  <2> QED
    BY <2>1, <2>2, <2>3, <2>4, CleanerStepKeeps DEF IInv, InvThreads
<1>3. CASE copyError
  <2>1. /\ cleaner = "copy" /\ copyErrors < CopyErrors /\ copyErrors' = copyErrors + 1
        /\ cleaner' \in {"complete", "failed"}
        /\ processed' = {} /\ pending' = {} /\ eligible' = {}
        /\ UNCHANGED <<stop, cleanerCrashes>>
    BY <1>3 DEF copyError, ErrorOutcome
  <2>2. copyErrors' \in 0 .. CopyErrors /\ CopyErrors # 0
    BY <2>1, CleanerAssumption DEF IInv, QTypeOK
  <2>3. QTypeOK'
    BY <2>1, <2>2 DEF IInv, QTypeOK, exporterVars, processVars, threadVars, writerVars, batchVars
  <2>4. FlagsOK'
    BY <2>1, Zenon DEF IInv, FlagsOK, exporterVars, processVars
  <2>5. InvCleaner'
    BY <2>1, <2>2 DEF IInv, InvCleaner, Removable
  <2> QED
    BY <2>1, <2>3, <2>4, <2>5, CleanerStepKeeps DEF IInv, InvThreads
<1>4. CASE cleanerCrash
  <2>1. /\ cleanerCrashes < MaxCleanerCrashes /\ cleanerCrashes' = cleanerCrashes + 1
        /\ cleaner' = "down"
        /\ UNCHANGED <<stop, processed, pending, eligible, copyErrors>>
    BY <1>4 DEF cleanerCrash
  <2>2. cleanerCrashes' \in 0 .. MaxCleanerCrashes
    BY <2>1, CleanerAssumption DEF IInv, QTypeOK
  <2>3. QTypeOK'
    BY <2>1, <2>2 DEF IInv, QTypeOK, exporterVars, processVars, threadVars, writerVars, batchVars
  <2>4. FlagsOK'
    BY <2>1, Zenon DEF IInv, FlagsOK, exporterVars, processVars
  <2>5. InvCleaner'
    BY <2>1 DEF IInv, InvCleaner, Removable
  <2> QED
    BY <2>1, <2>3, <2>4, <2>5, CleanerStepKeeps DEF IInv, InvThreads
<1>5. CASE cleanerRestart
  <2>1. /\ cleaner' = "tick" /\ stop' = FALSE
        /\ UNCHANGED <<processed, pending, eligible, copyErrors, cleanerCrashes>>
    BY <1>5 DEF cleanerRestart
  <2>2. QTypeOK'
    BY <2>1 DEF IInv, QTypeOK, exporterVars, processVars, threadVars, writerVars, batchVars
  <2>3. FlagsOK'
    BY <2>1, Zenon DEF IInv, FlagsOK, exporterVars, processVars
  <2>4. InvCleaner'
    BY <2>1 DEF IInv, InvCleaner, Removable
  <2> QED
    BY <2>1, <2>2, <2>3, <2>4, CleanerStepKeeps DEF IInv, InvThreads
<1>6. CASE SignalStop
  <2>1. /\ cutoverProcessed /\ stop' = TRUE
        /\ UNCHANGED <<cleaner, processed, pending, eligible, copyErrors, cleanerCrashes>>
    BY <1>6 DEF SignalStop, workflowEnded
  <2>2. QTypeOK'
    BY <2>1 DEF IInv, QTypeOK, exporterVars, processVars, threadVars, writerVars, batchVars
  <2>3. FlagsOK'
    BY <2>1, Zenon DEF IInv, FlagsOK, exporterVars, processVars
  <2>4. InvCleaner'
    BY <2>1 DEF IInv, InvCleaner, Removable, Current
  <2> QED
    BY <2>1, <2>2, <2>3, <2>4, CleanerStepKeeps
<1> QED
  BY <1>1, <1>2, <1>3, <1>4, <1>5, <1>6

\* A marked segment is not one the exporter has yet to open.
LEMMA Marked ==
  ASSUME IInv, NEW s \in rows, importedBy[s] # {}
  PROVE  s \in Segments /\ s \in Nat /\ cur \in Nat /\ s <= cur
<1>1. s \in Segments /\ cur \in Segments /\ ~(s > cur)
  BY DEF IInv, QTypeOK, InvSegments
<1> QED
  BY <1>1 DEF Segments

\* A segment the cleaner may take is one the exporter has left, or the queue has
\* ended.
LEMMA NotCurrent ==
  ASSUME IInv, NEW s, Removable(s)
  PROVE  /\ s \in Segments /\ s \in Nat /\ cur \in Nat /\ s <= cur
         /\ ~cutoverProcessed => s < cur
         /\ ~cutoverProcessed /\ s = cur - 1 => importedBy[cur] = Importers
<1>1. s \in Segments /\ s \in Nat /\ cur \in Nat /\ s <= cur
  BY Marked, QueueAssumption DEF Removable
<1>2. ASSUME ~cutoverProcessed
      PROVE  s < cur /\ (s = cur - 1 => importedBy[cur] = Importers)
  <2>1. PICK t \in rows : t > s /\ importedBy[t] = Importers
    BY <1>2 DEF Removable
  <2>2. t \in Nat /\ t <= cur
    BY <2>1, Marked, QueueAssumption
  <2>3. s < cur
    BY <1>1, <2>1, <2>2
  <2>4. s = cur - 1 => t = cur
    BY <1>1, <2>1, <2>2
  <2> QED
    BY <2>1, <2>3, <2>4
<1> QED
  BY <1>1, <1>2

\* A closed and committed segment holds a record.
LEMMA DoneHasRecord ==
  ASSUME IInv, NEW s \in Segments, Done(s)
  PROVE  /\ Len(file[s]) \in Nat /\ Len(file[s]) >= 2 /\ sizeCommitted[s] = Len(file[s])
         /\ file[s][Len(file[s])] = EofMarker /\ file[s] \in Seq(Lines)
         /\ s = cur => Ahead = 0 /\ Behind = Len(file[cur]) - 1 /\ Behind # 0
<1>1. file[s] \in Seq(Lines) /\ Len(file[s]) \in Nat
  BY DEF IInv, QTypeOK
<1>2. Len(file[s]) \in DOMAIN file[s] /\ file[s][Len(file[s])] = EofMarker
  BY <1>1 DEF Done, Closed
<1>3. Len(file[s]) >= 2
  BY <1>2 DEF IInv, InvMarkers
<1>4. s = cur => Ahead = 0 /\ Behind = Len(file[cur]) - 1
  BY <1>1, <1>2, <1>3 DEF Done, Ahead, Behind
<1>5. PICK n \in Nat : n = Len(file[s])
  BY <1>1
<1>6. s = cur => Behind # 0
  BY <1>3, <1>4, <1>5
<1> QED
  BY <1>1, <1>2, <1>3, <1>4, <1>6 DEF Done

\* The cleaner removes the file of a segment.
LEMMA RemoveKeeps ==
  ASSUME IInv, UNCHANGED exporterVars, NEW s, s = Current, Remove(s), eligible # {},
         cleaner \in {"segment", "copied"}, cleaner' = "mark", Policy = "archive" => archive[s] = "full",
         UNCHANGED <<stop, processed, pending, eligible, archive, copyErrors, cleanerCrashes>>
  PROVE  IInv'
<1>1. /\ exists' = exists \ {s} /\ file' = [file EXCEPT ![s] = <<>>]
      /\ UNCHANGED <<rows, sizeCommitted, totalEvents, importedBy, removed, offset, statusVars, queue>>
  BY DEF Remove
<1>2. s \in eligible /\ Removable(s)
  BY CurrentEligible DEF IInv, InvCleaner
<1>3. /\ s \in Segments /\ s \in Nat /\ cur \in Nat /\ s <= cur
      /\ ~cutoverProcessed => s < cur
      /\ ~cutoverProcessed /\ s = cur - 1 => importedBy[cur] = Importers
  BY <1>2, NotCurrent
<1> USE DEF statusVars, exporterVars, processVars, threadVars, writerVars, batchVars
<1>4. /\ file' \in [Segments -> Seq(Lines)] /\ file'[s] = <<>>
      /\ \A x \in Segments \ {s} : file'[x] = file[x]
      /\ cur \in Segments
  BY <1>1, <1>3 DEF IInv, QTypeOK
<1>5. QTypeOK'
  BY <1>1, <1>4 DEF IInv, QTypeOK
<1>6. FlagsOK'
  BY <1>1, Zenon DEF IInv, FlagsOK
<1>7. InvThreads'
  BY <1>1 DEF IInv, InvThreads, Locked, Closing
<1>8. InvMarkers'
  BY <1>1, <1>4 DEF IInv, InvMarkers
<1>9. ~cutoverProcessed =>
        /\ file'[cur] = file[cur] /\ (Closed(cur)' <=> Closed(cur)) /\ (Done(cur)' <=> Done(cur))
        /\ Ahead' = Ahead /\ Behind' = Behind
  BY <1>1, <1>3, <1>4 DEF Closed, Done, Ahead, Behind
<1>10. InvSegments'
  <2>1. cur + 1 \in rows => ~cutoverProcessed
    BY DEF IInv, InvSegments, InvThreads
  <2>2. cur \in exists' => file'[cur] = file[cur] /\ (Done(cur)' <=> Done(cur))
    BY <1>1, <1>4 DEF Closed, Done
  <2>3. importedBy[s] = Importers
    BY <1>2 DEF Removable
  <2>4. \A x \in Segments :
          /\ x > cur => file'[x] = <<>>
          /\ x \notin exists' => file'[x] = <<>>
          /\ x < cur => Len(file'[x]) <= sizeCommitted[x]
          /\ x \in exists' => sizeCommitted[x] <= Len(file'[x])
          /\ x <= cur /\ x \notin exists' =>
               importedBy[x] = Importers /\ (Policy = "archive" => archive[x] = "full")
    <3> SUFFICES ASSUME NEW x \in Segments
                 PROVE  /\ x > cur => file'[x] = <<>>
                        /\ x \notin exists' => file'[x] = <<>>
                        /\ x < cur => Len(file'[x]) <= sizeCommitted[x]
                        /\ x \in exists' => sizeCommitted[x] <= Len(file'[x])
                        /\ x <= cur /\ x \notin exists' =>
                             importedBy[x] = Importers /\ (Policy = "archive" => archive[x] = "full")
      OBVIOUS
    <3>1. CASE x = s
      BY <1>1, <1>4, <2>3, <3>1 DEF IInv, QTypeOK
    <3>2. CASE x # s
      BY <1>1, <1>4, <3>2 DEF IInv, InvSegments
    <3> QED
      BY <3>1, <3>2
  <2>5. ~cutoverProcessed => cur \in exists'
    BY <1>1, <1>3 DEF IInv, InvSegments
  <2> QED
    BY <1>1, <1>9, <2>1, <2>2, <2>4, <2>5 DEF IInv, InvSegments
<1>11. InvClosing'
  BY <1>1, <1>9 DEF IInv, InvThreads, InvClosing, ClosingStep, AfterClose, Closing
<1>12. InvSynced'
  BY <1>1, <1>9 DEF IInv, InvThreads, InvSynced
<1>13. InvVsn'
  <2>1. ASSUME ~cutoverProcessed, Behind = 0, cur > 0
        PROVE  cur - 1 # s /\ cur - 1 \in Segments
    <3>1. cur - 1 = s => Done(cur)
      BY <1>3, <2>1, QueueAssumption DEF IInv, InvSegments
    <3>3. ~Done(cur)
      BY <1>4, <2>1, DoneHasRecord
    <3>4. cur - 1 # s
      BY <3>1, <3>3
    <3> QED
      BY <1>3, <1>4, <2>1, <3>4, QueueAssumption DEF Segments
  <2>2. ASSUME ~cutoverProcessed, Behind = 0, cur > 0
        PROVE  file'[cur - 1] = file[cur - 1] /\ (cur - 1 \in exists => cur - 1 \in exists')
               /\ (Closed(cur - 1)' <=> Closed(cur - 1))
    BY <1>1, <1>4, <2>1, <2>2 DEF Closed
  <2> QED
    BY <1>1, <1>9, <2>2 DEF IInv, InvThreads, InvVsn
<1>14. InvChanges'
  <2>1. \A c : /\ InQueue(c)' <=> InQueue(c)
               /\ InBuffer(c)' <=> InBuffer(c)
               /\ ~cutoverProcessed => (InFile(c)' <=> InFile(c))
    BY <1>1, <1>9 DEF InQueue, InBuffer, InFile
  <2>2. Committed(offset)'
    BY <1>1, <2>1 DEF IInv, InvChanges, Committed
  <2>3. VisibleInQueue'
    BY <1>1, <1>4, <2>1 DEF IInv, InvChanges, VisibleInQueue
  <2>4. process = "up" => ~cutoverProcessed
    BY DEF IInv, InvThreads
  <2>5. ASSUME ~cutoverProcessed
        PROVE  /\ Written(pos) => Written(pos)'
               /\ Flushed(pos) => Flushed(pos)'
               /\ Committed(pos) => Committed(pos)'
               /\ Cached => Cached'
    BY <1>1, <2>1, <2>5 DEF Written, Flushed, Committed, Cached
  <2>6. ~cutoverProcessed => (BatchStep => BatchStep')
    BY <1>1, <2>5 DEF BatchStep
  <2> QED
    BY <1>1, <2>2, <2>3, <2>4, <2>5, <2>6 DEF IInv, InvChanges
<1>15. InvCleaner'
  <2>1. Current' = Current
    BY DEF Current
  <2> QED
    BY <1>1, <2>1 DEF IInv, InvCleaner, Removable
<1> QED
  BY <1>5, <1>6, <1>7, <1>8, <1>10, <1>11, <1>12, <1>13, <1>14, <1>15 DEF IInv

\* Every step of the cleaner.
LEMMA CleanerKeeps ==
  ASSUME IInv, CleanerNext, UNCHANGED exporterVars
  PROVE  IInv'
<1>1. CASE GetProcessedAndPendingSegments
  BY <1>1, GetProcessedKeeps
<1>2. CASE deleteSegment
  BY <1>2, RemoveKeeps DEF deleteSegment
<1>3. CASE removeOldArchive
  BY <1>3, ArchiveStepKeeps DEF removeOldArchive
<1>4. CASE CopyFile
  BY <1>4, ArchiveStepKeeps DEF CopyFile, IInv, InvCleaner
<1>5. CASE removeAfterCopy
  BY <1>5, RemoveKeeps DEF removeAfterCopy, IInv, InvCleaner
<1>6. CASE markSegment
  BY <1>6, markSegmentKeeps
<1>7. CASE checkArchived \/ endIteration \/ copyError \/ cleanerCrash \/ cleanerRestart \/ SignalStop
  BY <1>7, CleanerMovesKeep DEF checkArchived, endIteration, copyError, cleanerCrash, cleanerRestart,
     SignalStop
<1> QED
  BY <1>1, <1>2, <1>3, <1>4, <1>5, <1>6, <1>7 DEF CleanerNext, CleanerStep

-----------------------------------------------------------------------------
(* The exporter writes.                                                    *)

\* How many lines of the current segment are not committed yet.
LEMMA AheadType ==
  ASSUME IInv, process = "up"
  PROVE  Ahead \in Nat /\ Len(queue) \in Nat
<1>1. PICK n \in Nat, k \in Nat : n = Len(file[cur]) /\ k = sizeCommitted[cur] /\ k <= n
  BY CurrentThere
<1>2. Ahead \in Nat
  BY <1>1 DEF Ahead
<1> QED
  BY <1>2 DEF IInv, QTypeOK

\* A record joins the buffer.
LEMMA BufferGrows ==
  ASSUME IInv, process = "up", process' = "up", NEW x \in Changes \cup {CutoverId},
         buffer' = Append(buffer, [vsn |-> nextVsn, id |-> x]), nextVsn' = nextVsn + 1,
         UNCHANGED <<file, sizeCommitted, cur, queue, exists, cutoverProcessed>>
  PROVE  /\ buffer' \in Seq(Records) /\ nextVsn' \in Nat
         /\ Len(buffer') = Len(buffer) + 1
         /\ \A s : (Closed(s)' <=> Closed(s)) /\ (Done(s)' <=> Done(s))
         /\ \A c : /\ InQueue(c)' <=> InQueue(c)
                   /\ InFile(c)' <=> InFile(c)
                   /\ InBuffer(c) => InBuffer(c)'
         /\ InBuffer(x)'
         /\ InvVsn'
<1>1. PICK r : r = [vsn |-> nextVsn, id |-> x]
  OBVIOUS
<1>2. r \in Records /\ nextVsn \in Nat /\ buffer \in Seq(Records) /\ r.vsn = nextVsn /\ r.id = x
  BY <1>1 DEF IInv, QTypeOK, Records
<1>3. /\ buffer' \in Seq(Records) /\ Len(buffer') = Len(buffer) + 1 /\ buffer'[Len(buffer) + 1] = r
      /\ \A i \in 1 .. Len(buffer) : buffer'[i] = buffer[i]
      /\ Len(buffer) \in Nat
  BY <1>1, <1>2
<1>4. /\ \A s : (Closed(s)' <=> Closed(s)) /\ (Done(s)' <=> Done(s))
      /\ Ahead' = Ahead /\ Behind' = Behind
      /\ \A c : InQueue(c)' <=> InQueue(c)
  BY DEF Closed, Done, Ahead, Behind, InQueue
<1>5. \A c : InFile(c)' <=> InFile(c)
  BY <1>4 DEF InFile
<1>6. DOMAIN buffer = 1 .. Len(buffer) /\ DOMAIN buffer' = 1 .. Len(buffer) + 1
  BY <1>2, <1>3
<1>7. \A c : InBuffer(c) => InBuffer(c)'
  <2> SUFFICES ASSUME NEW c, InBuffer(c) PROVE InBuffer(c)'
    OBVIOUS
  <2>1. PICK i \in 1 .. Len(buffer) : buffer[i].id = c
    BY <1>6 DEF InBuffer
  <2>2. i \in DOMAIN buffer' /\ buffer'[i].id = c
    BY <1>3, <1>6, <2>1
  <2> QED
    BY <2>2 DEF InBuffer
<1>8. InBuffer(x)'
  <2>1. Len(buffer) + 1 \in DOMAIN buffer'
    BY <1>3, <1>6
  <2> QED
    BY <1>2, <1>3, <2>1 DEF InBuffer
<1>9. InvVsn'
  <2>1. PICK m \in Nat : m = Len(buffer)
    BY <1>3
  <2>2. PICK a \in Nat, q \in Nat : a = Ahead /\ q = Len(queue)
    BY AheadType
  <2>3. /\ \A i \in 1 .. m : buffer[i].vsn = Len(queue) + Ahead + i
        /\ nextVsn = Len(queue) + Ahead + m + 1
    BY <1>6, <2>1 DEF IInv, InvVsn
  <2>4. ASSUME NEW i \in 1 .. m + 1 PROVE buffer'[i].vsn = Len(queue) + Ahead + i
    <3>1. CASE i = m + 1
      <4>1. buffer'[i].vsn = nextVsn
        BY <1>2, <1>3, <2>1, <3>1
      <4>2. nextVsn = q + a + i
        BY <2>2, <2>3, <3>1
      <4> QED
        BY <2>2, <4>1, <4>2
    <3>2. CASE i \in 1 .. m
      <4>1. buffer'[i] = buffer[i]
        BY <1>3, <2>1, <3>2
      <4>2. buffer[i].vsn = Len(queue) + Ahead + i
        BY <2>3, <3>2
      <4> QED
        BY <4>1, <4>2
    <3> QED
      BY <2>1, <3>1, <3>2
  <2>5. nextVsn' = Len(queue) + Ahead + (m + 1) + 1
    BY <2>2, <2>3
  <2>6. /\ \A i \in DOMAIN buffer' : buffer'[i].vsn = Len(queue) + Ahead + i
        /\ nextVsn' = Len(queue) + Ahead + Len(buffer') + 1
    BY <1>3, <1>6, <2>1, <2>4, <2>5
  <2> QED
    BY <1>4, <2>6 DEF IInv, InvVsn
<1> QED
  BY <1>2, <1>3, <1>4, <1>5, <1>7, <1>8, <1>9

\* main writes the record of the next change.
LEMMA writeRecordKeeps ==
  ASSUME IInv, writeRecord, UNCHANGED cleanerVars
  PROVE  IInv'
<1>1. PICK x : x = pos + 1
  OBVIOUS
<1>2. /\ process = "up" /\ MainWrites /\ pos < batchEnd
      /\ buffer' = Append(buffer, [vsn |-> nextVsn, id |-> x]) /\ nextVsn' = nextVsn + 1
      /\ delta' = [delta EXCEPT ![cur] = @ + 1]
      /\ dedup' = IF HasEventIds THEN addEventToCache(x) ELSE dedup
      /\ pos' = x /\ lock' = NoLock
      /\ UNCHANGED <<segmentVars, processVars, pc, return, syncing, cur, synced, closed, batchEnd,
                     cleanerVars>>
  BY <1>1 DEF writeRecord, MainWrites
<1>3. x \in Changes /\ x \in 0 .. NumChanges /\ x <= batchEnd
  BY <1>1, <1>2, QueueAssumption DEF IInv, QTypeOK, Changes
<1>4. \A c \in dedup' : c \in dedup \/ c = x
  BY <1>2 DEF addEventToCache
<1> USE DEF segmentVars, statusVars, processVars, cleanerVars
<1>5. /\ buffer' \in Seq(Records) /\ nextVsn' \in Nat
      /\ Len(buffer') = Len(buffer) + 1
      /\ \A s : (Closed(s)' <=> Closed(s)) /\ (Done(s)' <=> Done(s))
      /\ \A c : /\ InQueue(c)' <=> InQueue(c)
                /\ InFile(c)' <=> InFile(c)
                /\ InBuffer(c) => InBuffer(c)'
      /\ InBuffer(x)'
      /\ InvVsn'
  BY <1>2, <1>3, BufferGrows
<1>6. /\ ~Closed(cur) /\ ~AfterClose("main") /\ ~AfterClose("flusher") /\ ~Locked("flusher")
      /\ ~shutDown /\ pc["main"] = "write"
  BY <1>2, SegmentOpen DEF MainWrites
<1>7. dedup' \subseteq Changes /\ delta' \in [Segments -> Nat]
  <2>1. dedup \subseteq Changes /\ delta \in [Segments -> Nat] /\ cur \in Segments
    BY DEF IInv, QTypeOK
  <2>2. delta[cur] \in Nat /\ delta[cur] + 1 \in Nat
    BY <2>1
  <2>3. delta' \in [Segments -> Nat]
    BY <1>2, <2>1, <2>2
  <2> QED
    BY <1>3, <1>4, <2>1, <2>3
<1>8. QTypeOK'
  BY <1>2, <1>3, <1>5, <1>7 DEF IInv, QTypeOK
<1>9. FlagsOK'
  BY <1>2, Zenon DEF IInv, FlagsOK
<1>10. InvThreads'
  BY <1>2, <1>6 DEF IInv, InvThreads, Locked, Closing
<1>11. InvMarkers' /\ InvCleaner'
  BY <1>2, MarkersKept, CleanerKept DEF IInv
<1>12. InvSegments'
  BY <1>2, <1>5 DEF IInv, InvSegments
<1>13. InvClosing'
  BY <1>2, <1>5, <1>6 DEF IInv, InvClosing, ClosingStep, AfterClose, Closing, Locked
<1>14. InvSynced'
  BY <1>2, <1>6 DEF IInv, InvSynced
<1>15. InvChanges'
  <2>1. Committed(offset)' /\ VisibleInQueue'
    BY <1>2, <1>5 DEF IInv, InvChanges, Committed, VisibleInQueue
  <2>2. Written(pos) /\ Cached
    BY <1>2 DEF IInv, InvChanges
  <2>3. \A c \in 1 .. x : c \in 1 .. pos \/ c = x
    BY <1>1, <1>2, <1>3 DEF IInv, QTypeOK
  <2>4. Written(pos)'
    BY <1>2, <1>5, <2>2, <2>3 DEF Written
  <2>5. Cached'
    BY <1>4, <1>5, <2>2 DEF Cached
  <2>6. BatchStep'
    BY <1>2, <1>3, <1>6 DEF BatchStep
  <2> QED
    BY <2>1, <2>4, <2>5, <2>6 DEF InvChanges
<1> QED
  BY <1>5, <1>8, <1>9, <1>10, <1>11, <1>12, <1>13, <1>14, <1>15 DEF IInv

\* The flusher writes the switch record.
LEMMA writeSwitchRecordKeeps ==
  ASSUME IInv, writeSwitchRecord, UNCHANGED cleanerVars
  PROVE  IInv'
<1>1. /\ process = "up" /\ pc["flusher"] = "cutover"
      /\ buffer' = Append(buffer, [vsn |-> nextVsn, id |-> CutoverId]) /\ nextVsn' = nextVsn + 1
      /\ return' = [return EXCEPT !["flusher"] = "exit"] /\ pc' = [pc EXCEPT !["flusher"] = "close"]
      /\ UNCHANGED <<segmentVars, processVars, syncing, lock, cur, synced, delta, closed, dedup, pos,
                     batchEnd, cleanerVars>>
  BY DEF writeSwitchRecord, Goto
<1>2. /\ pc' \in [Threads -> MainPcs \cup FlusherPcs]
      /\ return' \in [Threads -> {"row", "offsets", "exit"}]
      /\ pc'["flusher"] = "close" /\ pc'["main"] = pc["main"]
      /\ return'["flusher"] = "exit" /\ return'["main"] = return["main"]
  BY <1>1 DEF IInv, QTypeOK, FlusherPcs, Threads
<1> USE DEF segmentVars, statusVars, processVars, cleanerVars
<1>3. /\ buffer' \in Seq(Records) /\ nextVsn' \in Nat
      /\ Len(buffer') = Len(buffer) + 1
      /\ \A s : (Closed(s)' <=> Closed(s)) /\ (Done(s)' <=> Done(s))
      /\ \A c : /\ InQueue(c)' <=> InQueue(c)
                /\ InFile(c)' <=> InFile(c)
                /\ InBuffer(c) => InBuffer(c)'
      /\ InvVsn'
  BY <1>1, BufferGrows
<1>4. /\ ~Closed(cur) /\ ~AfterClose("main") /\ ~AfterClose("flusher") /\ ~Locked("main")
      /\ lock = "flusher" /\ cutoverRequested /\ ~shutDown
  BY <1>1, SegmentOpen DEF IInv, InvThreads, Locked
<1>5. Len(file[cur]) + Len(buffer') >= 1
  <2>1. PICK n \in Nat, m \in Nat : n = Len(file[cur]) /\ m = Len(buffer)
    BY <1>1, CurrentThere
  <2>2. Len(buffer') = m + 1
    BY <1>3, <2>1
  <2>3. \A a, b \in Nat : a + (b + 1) >= 1
    OBVIOUS
  <2> QED
    BY <2>1, <2>2, <2>3
<1>6. QTypeOK'
  BY <1>1, <1>2, <1>3 DEF IInv, QTypeOK
<1>7. FlagsOK'
  BY <1>1, Zenon DEF IInv, FlagsOK
<1>8. InvThreads'
  BY <1>1, <1>2, <1>4 DEF IInv, InvThreads, Locked, Closing, FlusherPcs
<1>9. InvMarkers' /\ InvCleaner'
  BY <1>1, MarkersKept, CleanerKept DEF IInv
<1>10. InvSegments'
  BY <1>1, <1>3 DEF IInv, InvSegments
<1>11. InvClosing'
  BY <1>1, <1>2, <1>3, <1>4, <1>5 DEF IInv, InvClosing, ClosingStep, AfterClose, Closing, Locked
<1>12. InvSynced'
  BY <1>1, <1>4 DEF InvSynced
<1>13. InvChanges'
  <2>1. Committed(offset)' /\ VisibleInQueue'
    BY <1>1, <1>3 DEF IInv, InvChanges, Committed, VisibleInQueue
  <2>2. /\ Written(pos) => Written(pos)'
        /\ Flushed(pos) => Flushed(pos)'
        /\ Committed(pos) => Committed(pos)'
        /\ Cached => Cached'
    BY <1>1, <1>3 DEF Written, Flushed, Committed, Cached
  <2>3. BatchStep => BatchStep'
    BY <1>1, <1>2, <2>2 DEF BatchStep
  <2> QED
    BY <1>1, <2>1, <2>2, <2>3 DEF IInv, InvChanges
<1> QED
  BY <1>3, <1>6, <1>7, <1>8, <1>9, <1>10, <1>11, <1>12, <1>13 DEF IInv

\* The lines of a buffer B written to a file F, of which k lines are committed.
Joined(F, B, G, n, m) ==
  /\ \A i \in 1 .. n : G[i] = F[i]
  /\ \A i \in 1 .. m : G[n + i] = B[i]

\* The a lines of F after its first k lines have the vsns after q; one of them
\* carries c.
Numbered(F, k, a, q) == \A i \in 1 .. a : F[k + i].vsn = q + i
Carries(F, k, a, c) == \E i \in 1 .. a : F[k + i].id = c

\* The lines a buffer adds to a file continue its numbers and lose no change.
LEMMA WrittenOut ==
  ASSUME NEW F, NEW B, NEW G, NEW n \in Nat, NEW m \in Nat, NEW k \in Nat, NEW q \in Nat,
         NEW a \in Nat, n = k + a, Joined(F, B, G, n, m)
  PROVE  /\ Numbered(F, k, a, q) /\ Numbered(B, 0, m, q + a) => Numbered(G, k, a + m, q)
         /\ \A c : Carries(F, k, a, c) => Carries(G, k, a + m, c)
         /\ \A c : Carries(B, 0, m, c) => Carries(G, k, a + m, c)
<1>1. \A i \in 1 .. a : k + i \in 1 .. n /\ i \in 1 .. a + m
  OBVIOUS
<1>2. \A i \in 1 .. m : a + i \in 1 .. a + m /\ k + (a + i) = n + i /\ 0 + i = i
  OBVIOUS
<1>3. \A i \in 1 .. a + m : i \in 1 .. a \/ \E j \in 1 .. m : i = a + j
  <2> SUFFICES ASSUME NEW i \in 1 .. a + m, ~(i \in 1 .. a)
               PROVE  \E j \in 1 .. m : i = a + j
    OBVIOUS
  <2>1. i - a \in 1 .. m /\ i = a + (i - a)
    OBVIOUS
  <2> QED
    BY <2>1
<1> USE DEF Joined
<1>4. ASSUME Numbered(F, k, a, q), Numbered(B, 0, m, q + a), NEW i \in 1 .. a + m
      PROVE  G[k + i].vsn = q + i
  <2>1. CASE i \in 1 .. a
    BY <1>1, <1>4, <2>1 DEF Numbered
  <2>2. ASSUME NEW j \in 1 .. m, i = a + j PROVE G[k + i].vsn = q + i
    <3>1. G[k + i] = B[j]
      BY <1>2, <2>2
    <3>2. B[j].vsn = (q + a) + j
      BY <1>2, <1>4 DEF Numbered
    <3>3. (q + a) + j = q + i
      BY <2>2
    <3> QED
      BY <3>1, <3>2, <3>3
  <2> QED
    BY <1>3, <2>1, <2>2
<1>5. ASSUME NEW c, NEW i \in 1 .. a, F[k + i].id = c
      PROVE  Carries(G, k, a + m, c)
  <2>1. i \in 1 .. a + m /\ G[k + i].id = c
    BY <1>1, <1>5
  <2> QED
    BY <2>1 DEF Carries
<1>6. ASSUME NEW c, NEW i \in 1 .. m, B[0 + i].id = c
      PROVE  Carries(G, k, a + m, c)
  <2>1. PICK j : j = a + i
    OBVIOUS
  <2>2. j \in 1 .. a + m /\ k + j = n + i /\ 0 + i = i
    BY <1>2, <2>1
  <2>3. G[k + j].id = c
    BY <1>6, <2>2
  <2> QED
    BY <2>2, <2>3 DEF Carries
<1>7. Numbered(F, k, a, q) /\ Numbered(B, 0, m, q + a) => Numbered(G, k, a + m, q)
  BY <1>4 DEF Numbered
<1>8. \A c : Carries(F, k, a, c) => Carries(G, k, a + m, c)
  BY <1>5 DEF Carries
<1>9. \A c : Carries(B, 0, m, c) => Carries(G, k, a + m, c)
  BY <1>6 DEF Carries
<1> QED
  BY <1>7, <1>8, <1>9

\* G is the current segment after its n lines, the m lines of the buffer and,
\* when d is 1, a marker.
GrowsTo(G, n, m, d) ==
  /\ n = Len(file[cur]) /\ m = Len(buffer) /\ Len(G) = n + m + d
  /\ \A i \in 1 .. n : G[i] = file[cur][i]
  /\ \A i \in 1 .. m : G[n + i] = buffer[i]
  /\ d = 1 => G[n + m + 1] = EofMarker /\ n + m >= 1

\* Writing the buffer out, with or without a marker behind it, moves changes from
\* the buffer to the file and leaves what readers see alone.
LEMMA FileGrows ==
  ASSUME IInv, process = "up", process' = "up", ~Closed(cur),
         NEW n \in Nat, NEW m \in Nat, NEW d \in {0, 1}, NEW G \in Seq(Lines),
         GrowsTo(G, n, m, d), file' = [file EXCEPT ![cur] = G], buffer' = <<>>,
         UNCHANGED <<sizeCommitted, cur, queue, exists, cutoverProcessed, nextVsn>>
  PROVE  /\ file' \in [Segments -> Seq(Lines)] /\ buffer' \in Seq(Records)
         /\ file'[cur] = G /\ \A s \in Segments \ {cur} : file'[s] = file[s]
         /\ Closed(cur)' <=> d = 1
         /\ InvMarkers' /\ InvVsn' /\ VisibleInQueue'
         /\ \A c : InQueue(c)' <=> InQueue(c)
         /\ \A c : InFile(c) \/ InBuffer(c) => InFile(c)'
<1>f. PICK F : F = file[cur]
  OBVIOUS
<1>k. PICK k \in Nat : k = sizeCommitted[cur]
  BY CurrentThere
<1>b. PICK B : B = buffer
  OBVIOUS
<1>q. PICK q \in Nat : q = Len(queue)
  BY AheadType
<1>1. /\ \A i \in 1 .. n : G[i] = F[i]
      /\ \A i \in 1 .. m : G[n + i] = buffer[i]
      /\ d = 1 => G[n + m + 1] = EofMarker /\ n + m >= 1
      /\ DOMAIN G = 1 .. n + m + d /\ Len(G) = n + m + d
  <2>1. /\ \A i \in 1 .. n : G[i] = F[i]
        /\ \A i \in 1 .. m : G[n + i] = buffer[i]
    BY <1>f DEF GrowsTo
  <2>2. Len(G) = n + m + d /\ (d = 1 => G[n + m + 1] = EofMarker /\ n + m >= 1)
    BY DEF GrowsTo
  <2>3. DOMAIN G = 1 .. n + m + d
    BY <2>2
  <2> QED
    BY <2>1, <2>2, <2>3
<1>j. Joined(F, B, G, n, m)
  BY <1>b, <1>1 DEF Joined
<1>2. k <= n /\ F \in Seq(Lines) /\ cur \in Segments /\ DOMAIN F = 1 .. n
  BY <1>f, <1>k, CurrentThere DEF GrowsTo
<1>3. /\ file' \in [Segments -> Seq(Lines)] /\ buffer' \in Seq(Records)
      /\ file'[cur] = G /\ \A s \in Segments \ {cur} : file'[s] = file[s]
  BY <1>2 DEF IInv, QTypeOK
<1>4. \A i \in 1 .. n : F[i] # EofMarker
  <2> SUFFICES ASSUME NEW i \in 1 .. n, F[i] = EofMarker PROVE FALSE
    OBVIOUS
  <2>1. i = Len(F) /\ F # <<>>
    BY <1>f, <1>2 DEF IInv, InvMarkers
  <2> QED
    BY <1>f, <2>1 DEF Closed
<1>5. DOMAIN buffer = 1 .. m /\ \A i \in 1 .. m : buffer[i] # EofMarker
  <2>1. buffer \in Seq(Records) /\ m = Len(buffer)
    BY DEF IInv, QTypeOK, GrowsTo
  <2>2. \A i \in 1 .. m : buffer[i] \in Records
    BY <2>1
  <2> QED
    BY <2>1, <2>2, QueueAssumption DEF Records, Changes
<1>6. \A i \in 1 .. n + m + d : G[i] = EofMarker => d = 1 /\ i = n + m + 1
  <2> SUFFICES ASSUME NEW i \in 1 .. n + m + d, G[i] = EofMarker, ~(d = 1 /\ i = n + m + 1) PROVE FALSE
    OBVIOUS
  <2>1. i \in 1 .. n \/ \E j \in 1 .. m : i = n + j
    <3>1. i \in 1 .. n \/ (i - n \in 1 .. m /\ i = n + (i - n))
      OBVIOUS
    <3> QED
      BY <3>1
  <2> QED
    BY <1>1, <1>4, <1>5, <2>1
<1>7. Closed(cur)' <=> d = 1
  <2>1. Closed(cur)' <=> G # <<>> /\ G[n + m + d] = EofMarker
    BY <1>1, <1>3 DEF Closed
  <2>2. CASE d = 1
    <3>1. n + m + d \in 1 .. n + m + d /\ n + m + d = n + m + 1
      BY <2>2
    <3>2. G # <<>>
      BY <1>1, <3>1
    <3> QED
      BY <1>1, <2>1, <2>2, <3>1, <3>2
  <2>3. CASE d = 0
    <3>1. G # <<>> => n + m + d \in 1 .. n + m + d
      BY <1>1, <2>3
    <3> QED
      BY <1>6, <2>1, <2>3, <3>1
  <2> QED
    BY <2>2, <2>3
<1>8. InvMarkers'
  <2> SUFFICES ASSUME NEW s \in Segments, NEW i \in DOMAIN file'[s], file'[s][i] = EofMarker
               PROVE  i = Len(file'[s]) /\ i >= 2
    BY DEF InvMarkers
  <2>1. CASE s = cur
    <3>1. i \in 1 .. n + m + d
      BY <1>1, <1>3, <2>1
    <3>2. d = 1 /\ i = n + m + 1
      BY <1>3, <1>6, <2>1, <3>1
    <3>3. i >= 2 /\ i = n + m + d
      BY <1>1, <3>2
    <3> QED
      BY <1>1, <1>3, <2>1, <3>3
  <2>2. CASE s # cur
    BY <1>3, <2>2 DEF IInv, InvMarkers
  <2> QED
    BY <2>1, <2>2
<1>9. Ahead = n - k /\ Behind = k
  <2>1. k > 0 => F[k] # EofMarker
    BY <1>2, <1>4
  <2>2. n = Len(file[cur])
    BY DEF GrowsTo
  <2> QED
    BY <1>f, <1>k, <1>2, <2>1, <2>2 DEF Ahead, Behind
<1>10. Ahead' = (n - k) + m /\ Behind' = k
  <2>1. k > 0 => G[k] # EofMarker
    BY <1>1, <1>2, <1>4
  <2>2. Behind' = k
    BY <1>k, <1>3, <2>1 DEF Behind
  <2>3. Ahead' = IF k < n + m + d /\ d = 1 THEN n + m + d - 1 - k ELSE n + m + d - k
    BY <1>k, <1>1, <1>3, <1>7 DEF Ahead
  <2>4. Ahead' = (n - k) + m
    BY <1>2, <2>3
  <2> QED
    BY <2>2, <2>4
<1>11. \A c : InQueue(c)' <=> InQueue(c)
  BY DEF InQueue
<1>a. PICK a \in Nat : a = n - k /\ n = k + a
  <2>1. k <= n
    BY <1>2
  <2>2. n - k \in Nat /\ n = k + (n - k)
    BY <2>1
  <2> QED
    BY <2>2
<1>12. /\ Numbered(F, k, a, q) /\ Numbered(B, 0, m, q + a) => Numbered(G, k, a + m, q)
       /\ \A c : Carries(F, k, a, c) => Carries(G, k, a + m, c)
       /\ \A c : Carries(B, 0, m, c) => Carries(G, k, a + m, c)
  <2>1. n = k + a
    BY <1>a
  <2> QED
    BY <1>j, <2>1, WrittenOut
<1>13. \A c : InFile(c) \/ InBuffer(c) => InFile(c)'
  <2>1. /\ \A c : InFile(c) <=> Carries(F, k, a, c)
        /\ \A c : InFile(c)' <=> Carries(G, k, a + m, c)
    BY <1>f, <1>k, <1>3, <1>9, <1>10, <1>a DEF InFile, Carries
  <2>2. \A c : InBuffer(c) <=> Carries(B, 0, m, c)
    <3>1. \A i \in 1 .. m : 0 + i = i
      OBVIOUS
    <3> QED
      BY <1>b, <1>5, <3>1 DEF InBuffer, Carries
  <2> QED
    BY <1>12, <2>1, <2>2
<1>14. InvVsn'
  <2>1. /\ \A i \in 1 .. a : F[k + i].vsn = q + i
        /\ \A i \in 1 .. m : buffer[i].vsn = q + a + i
        /\ nextVsn = q + a + m + 1
    <3>1. m = Len(buffer)
      BY DEF GrowsTo
    <3> QED
      BY <1>f, <1>k, <1>q, <1>5, <1>9, <1>a, <3>1 DEF IInv, InvVsn
  <2>2. \A i \in 1 .. a + m : G[k + i].vsn = q + i
    <3>1. Numbered(F, k, a, q)
      BY <2>1 DEF Numbered
    <3>2. \A i \in 1 .. m : 0 + i = i
      OBVIOUS
    <3>3. Numbered(B, 0, m, q + a)
      BY <1>b, <2>1, <3>2 DEF Numbered
    <3>4. Numbered(G, k, a + m, q)
      BY <1>12, <3>1, <3>3
    <3> QED
      BY <3>4 DEF Numbered
  <2>3. nextVsn = q + (a + m) + 0 + 1
    BY <2>1
  <2>4. Behind > 0 => file'[cur][Behind] = file[cur][Behind]
    BY <1>f, <1>1, <1>2, <1>3, <1>9
  <2>5. cur > 0 => cur - 1 \in Segments \ {cur}
    BY <1>2, QueueAssumption DEF Segments
  <2>6. cur > 0 => file'[cur - 1] = file[cur - 1] /\ (Closed(cur - 1)' <=> Closed(cur - 1))
    BY <1>3, <2>5 DEF Closed
  <2>7. Behind' = Behind
    BY <1>9, <1>10
  <2>8. process' = "up" =>
          /\ \A i \in 1 .. Ahead' : file'[cur][sizeCommitted[cur] + i].vsn = Len(queue) + i
          /\ \A i \in DOMAIN buffer' : buffer'[i].vsn = Len(queue) + Ahead' + i
          /\ nextVsn = Len(queue) + Ahead' + Len(buffer') + 1
    <3>1. Len(buffer') = 0 /\ DOMAIN buffer' = {}
      OBVIOUS
    <3> QED
      BY <1>a, <1>k, <1>q, <1>3, <1>10, <2>2, <2>3, <3>1
  <2>9. /\ Behind' > 0 => (~cutoverProcessed => file'[cur][Behind'].vsn = Len(queue))
        /\ Behind' = 0 /\ ~cutoverProcessed =>
            \/ cur = 0 /\ Len(queue) = 0
            \/ /\ cur > 0 /\ cur - 1 \in exists /\ Closed(cur - 1)'
               /\ file'[cur - 1][Len(file'[cur - 1]) - 1].vsn = Len(queue)
    BY <2>4, <2>6, <2>7 DEF IInv, InvVsn
  <2> QED
    BY <2>8, <2>9 DEF IInv, InvVsn
<1>15. VisibleInQueue'
  <2> SUFFICES ASSUME NEW s \in Segments, NEW i \in DOMAIN file'[s], i <= sizeCommitted[s],
                      file'[s][i] # EofMarker
               PROVE  InQueue(file'[s][i].id)
    BY <1>11 DEF VisibleInQueue
  <2>1. VisibleInQueue
    BY DEF IInv, InvChanges
  <2>2. CASE s = cur
    <3>1. i \in 1 .. n /\ i \in DOMAIN F /\ F[i] = G[i] /\ i <= k
      BY <1>k, <1>1, <1>2, <1>3, <2>2
    <3> QED
      BY <1>f, <1>k, <1>2, <1>3, <2>1, <2>2, <3>1 DEF VisibleInQueue
  <2>3. CASE s # cur
    BY <1>3, <2>1, <2>3 DEF VisibleInQueue
  <2> QED
    BY <2>2, <2>3
<1> QED
  BY <1>3, <1>7, <1>8, <1>11, <1>13, <1>14, <1>15

\* The lines that are to be written are lines.
LEMMA LinesJoin ==
  ASSUME NEW F \in Seq(Lines), NEW B \in Seq(Records)
  PROVE  /\ F \o B \in Seq(Lines) /\ Len(F \o B) = Len(F) + Len(B)
         /\ \A i \in 1 .. Len(F) : (F \o B)[i] = F[i]
         /\ \A i \in 1 .. Len(B) : (F \o B)[Len(F) + i] = B[i]
         /\ F \o Append(B, EofMarker) \in Seq(Lines)
         /\ Len(F \o Append(B, EofMarker)) = Len(F) + Len(B) + 1
         /\ \A i \in 1 .. Len(F) : (F \o Append(B, EofMarker))[i] = F[i]
         /\ \A i \in 1 .. Len(B) : (F \o Append(B, EofMarker))[Len(F) + i] = B[i]
         /\ (F \o Append(B, EofMarker))[Len(F) + Len(B) + 1] = EofMarker
<1>1. B \in Seq(Lines) /\ EofMarker \in Lines
  BY DEF Lines
<1>2. PICK C : C = Append(B, EofMarker)
  OBVIOUS
<1>3. /\ C \in Seq(Lines) /\ Len(C) = Len(B) + 1 /\ C[Len(B) + 1] = EofMarker
      /\ \A i \in 1 .. Len(B) : C[i] = B[i]
  BY <1>1, <1>2
<1>4. /\ F \o B \in Seq(Lines) /\ Len(F \o B) = Len(F) + Len(B)
      /\ \A i \in 1 .. Len(F) : (F \o B)[i] = F[i]
      /\ \A i \in 1 .. Len(B) : (F \o B)[Len(F) + i] = B[i]
  BY <1>1
<1>5. /\ F \o C \in Seq(Lines) /\ Len(F \o C) = Len(F) + Len(B) + 1
      /\ \A i \in 1 .. Len(F) : (F \o C)[i] = F[i]
      /\ \A i \in 1 .. Len(B) : (F \o C)[Len(F) + i] = B[i]
      /\ (F \o C)[Len(F) + Len(B) + 1] = EofMarker
  BY <1>1, <1>3
<1> QED
  BY <1>2, <1>4, <1>5

\* The current segment with the buffer written to it, and closed.
LEMMA SegmentGrows ==
  ASSUME IInv, process = "up"
  PROVE  /\ \E n, m \in Nat : /\ GrowsTo(file[cur] \o buffer, n, m, 0)
                              /\ file[cur] \o buffer \in Seq(Lines)
         /\ Len(file[cur]) + Len(buffer) >= 1 =>
              \E n, m \in Nat : /\ GrowsTo(file[cur] \o Append(buffer, EofMarker), n, m, 1)
                                /\ file[cur] \o Append(buffer, EofMarker) \in Seq(Lines)
<1>1. PICK F \in Seq(Lines) : F = file[cur]
  BY CurrentThere
<1>2. PICK B \in Seq(Records) : B = buffer
  BY DEF IInv, QTypeOK
<1>3. Len(F) \in Nat /\ Len(B) \in Nat /\ Len(F) + Len(B) + 0 = Len(F) + Len(B)
  OBVIOUS
<1>4. GrowsTo(F \o B, Len(F), Len(B), 0) /\ F \o B \in Seq(Lines)
  BY <1>1, <1>2, <1>3, LinesJoin DEF GrowsTo
<1>5. Len(F) + Len(B) >= 1 =>
        /\ GrowsTo(F \o Append(B, EofMarker), Len(F), Len(B), 1)
        /\ F \o Append(B, EofMarker) \in Seq(Lines)
  <2>1. PICK G : G = F \o Append(B, EofMarker)
    OBVIOUS
  <2>2. /\ G \in Seq(Lines) /\ Len(G) = Len(F) + Len(B) + 1
        /\ \A i \in 1 .. Len(F) : G[i] = F[i]
        /\ \A i \in 1 .. Len(B) : G[Len(F) + i] = B[i]
        /\ G[Len(F) + Len(B) + 1] = EofMarker
    BY <2>1, LinesJoin
  <2>3. Len(F) + Len(B) >= 1 => GrowsTo(G, Len(F), Len(B), 1)
    BY <1>1, <1>2, <2>2, Zenon DEF GrowsTo
  <2> QED
    BY <2>1, <2>2, <2>3, Zenon
<1> QED
  BY <1>1, <1>2, <1>3, <1>4, <1>5

\* What a thread has written out keeps the segments and the changes in order.
LEMMA WriteOutKeeps ==
  ASSUME IInv, process = "up", process' = "up", ~Closed(cur),
         NEW n \in Nat, NEW m \in Nat, NEW d \in {0, 1}, NEW G \in Seq(Lines),
         GrowsTo(G, n, m, d), file' = [file EXCEPT ![cur] = G], buffer' = <<>>,
         UNCHANGED <<rows, sizeCommitted, totalEvents, importedBy, removed, exists, offset,
                     statusVars, queue, cur, nextVsn, dedup, pos, cleanerVars>>
  PROVE  /\ file' \in [Segments -> Seq(Lines)] /\ buffer' \in Seq(Records)
         /\ Len(file'[cur]) = n + m + d /\ n = Len(file[cur]) /\ m = Len(buffer)
         /\ Closed(cur)' <=> d = 1
         /\ InvMarkers' /\ InvVsn' /\ InvSegments' /\ InvCleaner'
         /\ Committed(offset)' /\ VisibleInQueue' /\ Flushed(pos)' /\ Written(pos)' /\ Cached'
         /\ Committed(pos) => Committed(pos)'
         /\ sizeCommitted[cur] <= n /\ cur + 1 \notin rows
<1> USE DEF statusVars, cleanerVars
<1>1. /\ file' \in [Segments -> Seq(Lines)] /\ buffer' \in Seq(Records)
      /\ file'[cur] = G /\ \A s \in Segments \ {cur} : file'[s] = file[s]
      /\ Closed(cur)' <=> d = 1
      /\ InvMarkers' /\ InvVsn' /\ VisibleInQueue'
      /\ \A c : InQueue(c)' <=> InQueue(c)
      /\ \A c : InFile(c) \/ InBuffer(c) => InFile(c)'
  BY FileGrows
<1>2. Len(file'[cur]) = n + m + d /\ n = Len(file[cur]) /\ m = Len(buffer)
  BY <1>1 DEF GrowsTo
<1>3. /\ cur \in exists /\ cur \in Segments /\ ~cutoverProcessed
      /\ sizeCommitted[cur] \in Nat /\ sizeCommitted[cur] <= n
  BY <1>2, CurrentThere
<1>4. sizeCommitted[cur] <= Len(file'[cur])
  BY <1>2, <1>3
<1>5. cur + 1 \notin rows /\ importedBy[cur] = {}
  BY <1>3 DEF IInv, InvSegments, Done
<1>6. InvSegments'
  <2>1. ASSUME NEW s \in Segments
        PROVE  /\ s > cur => file'[s] = <<>> /\ sizeCommitted[s] = 0 /\ importedBy[s] = {}
               /\ s \notin exists => file'[s] = <<>>
               /\ s < cur => Len(file'[s]) <= sizeCommitted[s]
               /\ s \in exists => sizeCommitted[s] <= Len(file'[s])
               /\ s <= cur /\ s \notin exists =>
                    importedBy[s] = Importers /\ (Policy = "archive" => archive[s] = "full")
    <3>1. CASE s = cur
      <4>1. ~(cur > cur) /\ ~(cur < cur)
        BY <1>3 DEF Segments
      <4> QED
        BY <1>3, <1>4, <3>1, <4>1
    <3>2. CASE s # cur
      <4>1. file'[s] = file[s]
        BY <1>1, <3>2
      <4> QED
        BY <4>1 DEF IInv, InvSegments
    <3> QED
      BY <3>1, <3>2
  <2>2. 0 .. cur \subseteq rows /\ rows \subseteq 0 .. cur + 1
    BY DEF IInv, InvSegments
  <2> QED
    BY <1>3, <1>5, <2>1, <2>2 DEF InvSegments
<1>7. InvCleaner'
  BY <1>3, CleanerKept DEF IInv
<1>8. Written(pos) /\ Cached /\ Committed(offset)
  BY DEF IInv, InvChanges
<1>9. Committed(offset)' /\ (Committed(pos) => Committed(pos)')
  BY <1>1, <1>8 DEF Committed
<1>10. Flushed(pos)'
  BY <1>1, <1>8 DEF Written, Flushed
<1>11. Written(pos)'
  BY <1>10 DEF Written, Flushed
<1>12. Cached'
  BY <1>1, <1>8 DEF Cached
<1> QED
  BY <1>1, <1>2, <1>3, <1>5, <1>6, <1>7, <1>9, <1>10, <1>11, <1>12

\* Lines in the buffer are lines of an open segment.
LEMMA BufferOpen ==
  ASSUME IInv, process = "up", buffer # <<>>
  PROVE  ~Closed(cur) /\ ~AfterClose("main") /\ ~AfterClose("flusher")
  BY DEF IInv, InvClosing, ClosingStep

\* The buffered writer passes on its lines.
LEMMA SpillKeeps ==
  ASSUME IInv, Spill, UNCHANGED cleanerVars
  PROVE  IInv'
<1>1. /\ process = "up" /\ buffer # <<>> /\ buffer' = <<>>
      /\ file' = [file EXCEPT ![cur] = file[cur] \o buffer]
      /\ UNCHANGED <<rows, sizeCommitted, totalEvents, importedBy, removed, exists, offset,
                     statusVars, queue, processVars, threadVars, cur, synced, delta, closed,
                     batchVars, cleanerVars>>
  BY DEF Spill
<1> USE DEF statusVars, processVars, threadVars, batchVars, cleanerVars
<1>2. ~Closed(cur) /\ ~AfterClose("main") /\ ~AfterClose("flusher")
  BY <1>1, BufferOpen
<1>3. PICK n \in Nat, m \in Nat : GrowsTo(file[cur] \o buffer, n, m, 0) /\ file[cur] \o buffer \in Seq(Lines)
  BY <1>1, SegmentGrows
<1>4. PICK G \in Seq(Lines) : G = file[cur] \o buffer
  BY <1>3
<1>5. GrowsTo(G, n, m, 0) /\ file' = [file EXCEPT ![cur] = G]
  BY <1>1, <1>3, <1>4
<1>6. /\ file' \in [Segments -> Seq(Lines)] /\ buffer' \in Seq(Records)
      /\ Len(file'[cur]) = n + m + 0 /\ n = Len(file[cur]) /\ m = Len(buffer)
      /\ Closed(cur)' <=> 0 = 1
      /\ InvMarkers' /\ InvVsn' /\ InvSegments' /\ InvCleaner'
      /\ Committed(offset)' /\ VisibleInQueue' /\ Flushed(pos)' /\ Written(pos)' /\ Cached'
      /\ Committed(pos) => Committed(pos)'
      /\ sizeCommitted[cur] <= n /\ cur + 1 \notin rows
  <2>1. 0 \in {0, 1}
    OBVIOUS
  <2> QED
    BY <1>1, <1>2, <1>5, <2>1, WriteOutKeeps
<1>7. QTypeOK'
  BY <1>1, <1>6 DEF IInv, QTypeOK
<1>8. FlagsOK'
  BY <1>1, Zenon DEF IInv, FlagsOK
<1>9. InvThreads'
  <2>1. process # "down"
    BY <1>1
  <2> QED
    BY <1>1, <2>1 DEF IInv, InvThreads, Locked, Closing
<1>10. Len(file'[cur]) + Len(buffer') = Len(file[cur]) + Len(buffer)
  <2>1. Len(buffer') = 0
    BY <1>1
  <2>2. \A a, b \in Nat : (a + b + 0) + 0 = a + b
    OBVIOUS
  <2> QED
    BY <1>6, <2>1, <2>2
<1>11. InvClosing'
  BY <1>1, <1>2, <1>6, <1>10 DEF IInv, InvClosing, ClosingStep, AfterClose, Closing
<1>12. InvSynced'
  BY <1>1 DEF IInv, InvSynced
<1>13. BatchStep'
  BY <1>1, <1>6 DEF IInv, InvChanges, BatchStep
<1> QED
  BY <1>1, <1>6, <1>7, <1>8, <1>9, <1>11, <1>12, <1>13 DEF IInv, InvChanges

\* main flushes the buffer at the end of a batch.
LEMMA flushKeeps ==
  ASSUME IInv, flush, UNCHANGED cleanerVars
  PROVE  IInv'
<1> USE DEF statusVars, processVars, batchVars, cleanerVars
<1>1. CASE cur \in closed
  <2>1. /\ process = "up" /\ pc["main"] = "write" /\ pc' = [pc EXCEPT !["main"] = "stopped"]
        /\ UNCHANGED <<segmentVars, processVars, return, syncing, lock, writerVars, batchVars>>
    BY <1>1 DEF flush, Goto, segmentVars, writerVars
  <2> QED
    BY <2>1, MainStopsKeeps
<1>2. CASE cur \notin closed
  <2>1. /\ process = "up" /\ pc["main"] = "write" /\ pos = batchEnd
        /\ file' = [file EXCEPT ![cur] = file[cur] \o buffer] /\ buffer' = <<>>
        /\ return' = [return EXCEPT !["main"] = "offsets"]
        /\ pc' = [pc EXCEPT !["main"] = "fsync"]
        /\ UNCHANGED <<rows, sizeCommitted, totalEvents, importedBy, removed, exists, offset,
                       statusVars, queue, processVars, syncing, lock, cur, synced, delta, closed,
                       batchVars, cleanerVars>>
    BY <1>2 DEF flush, Goto
  <2>2. /\ pc' \in [Threads -> MainPcs \cup FlusherPcs]
        /\ return' \in [Threads -> {"row", "offsets", "exit"}]
        /\ pc'["main"] = "fsync" /\ pc'["flusher"] = pc["flusher"]
        /\ return'["main"] = "offsets" /\ return'["flusher"] = return["flusher"]
    BY <2>1 DEF IInv, QTypeOK, MainPcs, Threads
  <2>3. FlagsOK'
    BY <2>1, Zenon DEF IInv, FlagsOK
  <2>4. InvThreads'
    <3>1. process # "down"
      BY <2>1
    <3> QED
      BY <2>1, <2>2, <3>1 DEF IInv, InvThreads, Locked, Closing, MainPcs
  <2>5. CASE buffer = <<>>
    <3>1. file[cur] \o buffer = file[cur]
      <4>1. PICK F \in Seq(Lines) : F = file[cur]
        BY <2>1, CurrentThere
      <4>2. F \o <<>> = F
        OBVIOUS
      <4> QED
        BY <2>5, <4>1, <4>2
    <3>2. file' = file /\ buffer' = buffer
      BY <2>1, <2>5, <3>1 DEF IInv, QTypeOK
    <3>3. UNCHANGED segmentVars /\ UNCHANGED Content
      BY <2>1, <3>2 DEF segmentVars, Content
    <3>4. QTypeOK'
      BY <2>1, <2>2, <3>2 DEF IInv, QTypeOK
    <3>5. InvClosing'
      BY <2>1, <2>2, <3>3, SameContent DEF IInv, InvThreads, InvClosing, ClosingStep,
         AfterClose, Closing, Content
    <3>6. InvSynced'
      BY <2>1, <2>2, <3>2 DEF IInv, InvSynced
    <3>7. Flushed(pos)'
      <4>1. Written(pos)
        BY <2>1 DEF IInv, InvChanges
      <4>2. \A c : ~InBuffer(c)
        BY <2>5 DEF InBuffer
      <4>3. Flushed(pos)
        BY <4>1, <4>2 DEF Written, Flushed
      <4> QED
        BY <2>1, <3>3, <4>3, SameCoverage
    <3>8. BatchStep'
      BY <2>1, <2>2, <3>7 DEF IInv, InvChanges, BatchStep
    <3> QED
      BY <2>1, <2>3, <2>4, <3>2, <3>3, <3>4, <3>5, <3>6, <3>8, ThreadStepKeeps
  <2>6. CASE buffer # <<>>
    <3>2. ~Closed(cur) /\ ~AfterClose("main") /\ ~AfterClose("flusher")
      BY <2>1, <2>6, BufferOpen
    <3>3. PICK n \in Nat, m \in Nat : GrowsTo(file[cur] \o buffer, n, m, 0) /\ file[cur] \o buffer \in Seq(Lines)
      BY <2>1, SegmentGrows
    <3>4. PICK G \in Seq(Lines) : G = file[cur] \o buffer
      BY <3>3
    <3>5. GrowsTo(G, n, m, 0) /\ file' = [file EXCEPT ![cur] = G]
      BY <2>1, <3>3, <3>4
    <3>6. /\ file' \in [Segments -> Seq(Lines)] /\ buffer' \in Seq(Records)
          /\ Len(file'[cur]) = n + m + 0 /\ n = Len(file[cur]) /\ m = Len(buffer)
          /\ Closed(cur)' <=> 0 = 1
          /\ InvMarkers' /\ InvVsn' /\ InvSegments' /\ InvCleaner'
          /\ Committed(offset)' /\ VisibleInQueue' /\ Flushed(pos)' /\ Written(pos)' /\ Cached'
          /\ Committed(pos) => Committed(pos)'
          /\ sizeCommitted[cur] <= n /\ cur + 1 \notin rows
      <4>1. 0 \in {0, 1}
        OBVIOUS
      <4> QED
        BY <2>1, <3>2, <3>5, <4>1, WriteOutKeeps
    <3>7. QTypeOK'
      BY <2>1, <2>2, <3>6 DEF IInv, QTypeOK
    <3>10. Len(file'[cur]) + Len(buffer') = Len(file[cur]) + Len(buffer)
      <4>1. Len(buffer') = 0
        BY <2>1
      <4>2. \A a, b \in Nat : (a + b + 0) + 0 = a + b
        OBVIOUS
      <4> QED
        BY <3>6, <4>1, <4>2
    <3>11. InvClosing'
      BY <2>1, <2>2, <3>2, <3>6, <3>10 DEF IInv, InvClosing, ClosingStep, AfterClose, Closing
    <3>12. InvSynced'
      BY <2>1, <2>2 DEF IInv, InvSynced
    <3>13. BatchStep'
      BY <2>1, <2>2, <3>6 DEF IInv, InvChanges, BatchStep
    <3> QED
      BY <2>1, <2>3, <2>4, <3>6, <3>7, <3>11, <3>12, <3>13 DEF IInv, InvChanges
  <2> QED
    BY <2>5, <2>6
<1> QED
  BY <1>1, <1>2

\* A thread closes the segment.
LEMMA closeSegmentKeeps ==
  ASSUME IInv, NEW t \in Threads, closeSegment(t), UNCHANGED cleanerVars
  PROVE  IInv'
<1> USE DEF statusVars, processVars, batchVars, cleanerVars
<1>1. /\ process = "up" /\ pc[t] = "close" /\ buffer' = <<>>
      /\ file' = [file EXCEPT ![cur] = file[cur] \o Append(buffer, EofMarker)]
      /\ pc' = [pc EXCEPT ![t] = "fsync"]
      /\ UNCHANGED <<rows, sizeCommitted, totalEvents, importedBy, removed, exists, offset,
                     statusVars, queue, processVars, return, syncing, lock, cur, synced, delta,
                     closed, batchVars, cleanerVars>>
  BY DEF closeSegment, Goto
<1>2. ~Closed(cur) /\ Len(file[cur]) + Len(buffer) >= 1 /\ return[t] # "offsets" /\ lock = t
  BY <1>1 DEF IInv, InvClosing, ClosingStep, InvThreads, Locked, Threads
<1>3. /\ ~AfterClose("main") /\ ~AfterClose("flusher") /\ cur \notin closed
      /\ return[t] = "row" => cur < MaxSegment
  BY <1>1, <1>2 DEF IInv, InvClosing, ClosingStep, AfterClose, Threads
<1>4. PICK n \in Nat, m \in Nat : /\ GrowsTo(file[cur] \o Append(buffer, EofMarker), n, m, 1)
                                  /\ file[cur] \o Append(buffer, EofMarker) \in Seq(Lines)
  BY <1>1, <1>2, SegmentGrows
<1>5. PICK G \in Seq(Lines) : G = file[cur] \o Append(buffer, EofMarker)
  BY <1>4
<1>6. GrowsTo(G, n, m, 1) /\ file' = [file EXCEPT ![cur] = G]
  BY <1>1, <1>4, <1>5
<1>7. /\ file' \in [Segments -> Seq(Lines)] /\ buffer' \in Seq(Records)
      /\ Len(file'[cur]) = n + m + 1 /\ n = Len(file[cur]) /\ m = Len(buffer)
      /\ Closed(cur)' <=> 1 = 1
      /\ InvMarkers' /\ InvVsn' /\ InvSegments' /\ InvCleaner'
      /\ Committed(offset)' /\ VisibleInQueue' /\ Flushed(pos)' /\ Written(pos)' /\ Cached'
      /\ Committed(pos) => Committed(pos)'
      /\ sizeCommitted[cur] <= n /\ cur + 1 \notin rows
  <2>1. 1 \in {0, 1}
    OBVIOUS
  <2> QED
    BY <1>1, <1>2, <1>6, <2>1, WriteOutKeeps
<1>8. pc' \in [Threads -> MainPcs \cup FlusherPcs]
  BY <1>1 DEF IInv, QTypeOK, MainPcs
<1>9. QTypeOK'
  BY <1>1, <1>7, <1>8 DEF IInv, QTypeOK
<1>10. FlagsOK'
  BY <1>1, Zenon DEF IInv, FlagsOK
<1>11. CASE t = "main"
  <2>1. pc'["main"] = "fsync" /\ pc'["flusher"] = pc["flusher"] /\ return["main"] # "offsets"
    BY <1>1, <1>2, <1>11 DEF IInv, QTypeOK, Threads
  <2>2. pc["flusher"] # "close" /\ ~shutDown
    BY <1>1, <1>2, <1>11 DEF IInv, InvThreads, Locked
  <2>3. InvThreads'
    BY <1>1, <1>2, <1>11, <2>1, <2>2 DEF IInv, InvThreads, Locked, Closing, MainPcs
  <2>4. InvClosing'
    BY <1>1, <1>2, <1>3, <1>7, <1>11, <2>1, <2>2 DEF IInv, InvClosing, ClosingStep, AfterClose,
       Closing
  <2>5. InvSynced'
    BY <1>1, <2>1 DEF IInv, InvSynced
  <2>6. BatchStep'
    BY <1>1, <1>7, <2>1 DEF IInv, InvChanges, BatchStep
  <2> QED
    BY <1>1, <1>7, <1>9, <1>10, <2>3, <2>4, <2>5, <2>6 DEF IInv, InvChanges
<1>12. CASE t = "flusher"
  <2>1. pc'["flusher"] = "fsync" /\ pc'["main"] = pc["main"] /\ return["flusher"] # "offsets"
    BY <1>1, <1>2, <1>12 DEF IInv, QTypeOK, Threads
  <2>2. pc["main"] # "close" /\ ~shutDown /\ cutoverRequested
    BY <1>1, <1>2, <1>12 DEF IInv, InvThreads, Locked
  <2>3. InvThreads'
    BY <1>1, <1>2, <1>12, <2>1, <2>2 DEF IInv, InvThreads, Locked, Closing, FlusherPcs
  <2>4. InvClosing'
    BY <1>1, <1>2, <1>3, <1>7, <1>12, <2>1, <2>2 DEF IInv, InvClosing, ClosingStep, AfterClose,
       Closing
  <2>5. InvSynced'
    BY <1>1, <2>2 DEF InvSynced
  <2>6. BatchStep'
    BY <1>1, <1>7, <2>1 DEF IInv, InvChanges, BatchStep
  <2> QED
    BY <1>1, <1>7, <1>9, <1>10, <2>3, <2>4, <2>5, <2>6 DEF IInv, InvChanges
<1> QED
  BY <1>11, <1>12 DEF Threads

-----------------------------------------------------------------------------
(* A size is committed.                                                    *)

\* R holds the a lines of F after its first k lines.
Suffix(R, F, k, a) == R \in Seq(Records) /\ Len(R) = a /\ \A i \in 1 .. a : R[i] = F[k + i]

\* The records that a commit makes visible.
LEMMA TailRecords ==
  ASSUME NEW F \in Seq(Lines), NEW n \in Nat, Len(F) = n, NEW k \in Nat, k <= n,
         \A i \in 1 .. n : F[i] = EofMarker => i = n
  PROVE  Suffix(RecordsOf(SubSeq(F, k + 1, n)), F, k,
              IF k < n /\ F[n] = EofMarker THEN n - 1 - k ELSE n - k)
<1>1. PICK L : L = SubSeq(F, k + 1, n)
  OBVIOUS
<1>2. PICK l \in Nat : l = n - k
  OBVIOUS
<1>3. /\ L \in Seq(Lines) /\ Len(L) = l /\ \A i \in 1 .. l : L[i] = F[k + i]
  <2>1. k + 1 \in 1 .. n + 1 /\ n \in k .. n
    OBVIOUS
  <2>2. Len(L) = l
    BY <1>1, <1>2
  <2>3. \A i \in 1 .. l : L[i] = F[k + i] /\ k + i \in 1 .. n
    BY <1>1, <1>2
  <2>4. L \in Seq(Lines)
    BY <1>1, <1>2
  <2> QED
    BY <2>2, <2>3, <2>4
<1>4. \A i \in 1 .. l : k + i \in 1 .. n /\ (k + i = n => i = l)
  BY <1>2
<1>5. CASE k < n /\ F[n] = EofMarker
  <2>1. l \in 1 .. l /\ k + l = n /\ l - 1 \in Nat /\ l - 1 = n - 1 - k
    BY <1>2, <1>5
  <2>2. L # <<>> /\ L[l] = EofMarker
    BY <1>3, <1>5, <2>1
  <2>3. RecordsOf(L) = SubSeq(L, 1, l - 1)
    BY <1>3, <2>2 DEF RecordsOf
  <2>4. PICK p \in Nat : p = l - 1
    BY <2>1
  <2>5. PICK R : R = SubSeq(L, 1, p)
    OBVIOUS
  <2>6. p <= l /\ \A i \in 1 .. p : i \in 1 .. l /\ i # l
    BY <2>1, <2>4
  <2>7. R \in Seq(Lines) /\ Len(R) = p /\ \A i \in 1 .. p : R[i] = L[i]
    BY <1>3, <2>5, <2>6
  <2>8. \A i \in 1 .. p : R[i] = F[k + i] /\ R[i] \in Records
    <3> SUFFICES ASSUME NEW i \in 1 .. p PROVE R[i] = F[k + i] /\ R[i] \in Records
      OBVIOUS
    <3>1. R[i] = F[k + i] /\ k + i \in 1 .. n /\ k + i # n
      BY <1>3, <1>4, <2>6, <2>7
    <3>2. R[i] \in Lines /\ R[i] # EofMarker
      BY <2>7, <3>1
    <3> QED
      BY <3>1, <3>2 DEF Lines
  <2>9. R \in Seq(Records)
    BY <2>7, <2>8
  <2>10. Suffix(R, F, k, p)
    BY <2>7, <2>8, <2>9 DEF Suffix
  <2> QED
    BY <1>1, <1>5, <2>1, <2>3, <2>4, <2>5, <2>10
<1>6. CASE ~(k < n /\ F[n] = EofMarker)
  <2>1. L = <<>> \/ L[l] # EofMarker
    <3>1. CASE k < n
      <4>1. l \in 1 .. l /\ k + l = n
        BY <1>2, <3>1
      <4> QED
        BY <1>3, <1>6, <3>1, <4>1
    <3>2. CASE k = n
      <4>1. l = 0
        BY <1>2, <3>2
      <4> QED
        BY <1>3, <4>1
    <3> QED
      BY <3>1, <3>2
  <2>2. RecordsOf(L) = L
    BY <1>3, <2>1 DEF RecordsOf
  <2>3. \A i \in 1 .. l : L[i] \in Records
    <3> SUFFICES ASSUME NEW i \in 1 .. l PROVE L[i] \in Records
      OBVIOUS
    <3>1. L[i] \in Lines /\ L[i] = F[k + i] /\ k + i \in 1 .. n
      BY <1>3, <1>4
    <3>2. L[i] # EofMarker
      <4> SUFFICES ASSUME L[i] = EofMarker PROVE FALSE
        OBVIOUS
      <4>1. k + i = n
        BY <3>1
      <4>2. k < n
        BY <4>1
      <4> QED
        BY <1>6, <3>1, <4>1, <4>2
    <3> QED
      BY <3>1, <3>2 DEF Lines
  <2>4. L \in Seq(Records)
    BY <1>3, <2>3
  <2>5. Suffix(L, F, k, l)
    BY <1>3, <2>4 DEF Suffix
  <2> QED
    BY <1>1, <1>2, <1>6, <2>2, <2>5
<1> QED
  BY <1>5, <1>6

\* The whole current segment becomes visible.
LEMMA CommitCurrent ==
  ASSUME IInv, process = "up", process' = "up",
         sizeCommitted' = [sizeCommitted EXCEPT ![cur] = Len(file[cur])],
         queue' = queue \o RecordsOf(SubSeq(file[cur], sizeCommitted[cur] + 1, Len(file[cur]))),
         UNCHANGED <<file, cur, buffer, nextVsn, exists, cutoverProcessed>>
  PROVE  /\ queue' \in Seq(Records) /\ sizeCommitted' \in [Segments -> Nat]
         /\ sizeCommitted'[cur] = Len(file[cur])
         /\ \A s \in Segments \ {cur} : sizeCommitted'[s] = sizeCommitted[s]
         /\ \A c : /\ InQueue(c) => InQueue(c)'
                   /\ InFile(c) => InQueue(c)'
                   /\ InBuffer(c) => InBuffer(c)'
         /\ InvVsn' /\ VisibleInQueue'
<1>f. PICK F \in Seq(Lines) : F = file[cur]
  BY CurrentThere
<1>n. PICK n \in Nat : n = Len(F)
  OBVIOUS
<1>k. PICK k \in Nat : k = sizeCommitted[cur]
  BY CurrentThere
<1>q. PICK q \in Nat : q = Len(queue)
  BY AheadType
<1>1. k <= n /\ cur \in Segments /\ DOMAIN F = 1 .. n
  <2>1. k \in 0 .. Len(file[cur]) /\ cur \in Segments
    BY <1>k, CurrentThere
  <2>2. k <= n
    BY <1>f, <1>n, <2>1
  <2> QED
    BY <1>n, <2>1, <2>2
<1>2. \A i \in 1 .. n : F[i] = EofMarker => i = n
  BY <1>f, <1>n, <1>1 DEF IInv, InvMarkers
<1>3. /\ sizeCommitted' \in [Segments -> Nat] /\ sizeCommitted'[cur] = n
      /\ \A s \in Segments \ {cur} : sizeCommitted'[s] = sizeCommitted[s]
  BY <1>f, <1>n, <1>1 DEF IInv, QTypeOK
<1>4. Ahead = IF k < n /\ F[n] = EofMarker THEN n - 1 - k ELSE n - k
  <2>1. k < n => F # <<>>
    BY <1>1
  <2> QED
    BY <1>f, <1>n, <1>k, <1>1, <2>1 DEF Ahead, Closed
<1>a. PICK a \in Nat : a = Ahead /\ (a = IF k < n /\ F[n] = EofMarker THEN n - 1 - k ELSE n - k)
  BY <1>4, AheadType
<1>5. PICK R : Suffix(R, F, k, a) /\ queue' = queue \o R
  <2>1. k <= n
    BY <1>1
  <2>2. Len(F) = n
    BY <1>n
  <2>3. Suffix(RecordsOf(SubSeq(F, k + 1, n)), F, k, IF k < n /\ F[n] = EofMarker THEN n - 1 - k ELSE n - k)
    BY <1>2, <2>1, <2>2, TailRecords
  <2>4. Suffix(RecordsOf(SubSeq(F, k + 1, n)), F, k, a)
    BY <1>a, <2>3
  <2>5. queue' = queue \o RecordsOf(SubSeq(F, k + 1, n))
    BY <1>f, <1>n, <1>k
  <2> QED
    BY <2>4, <2>5
<1>6. R \in Seq(Records) /\ Len(R) = a /\ \A i \in 1 .. a : R[i] = F[k + i]
  BY <1>5 DEF Suffix
<1>7. /\ queue \in Seq(Records) /\ queue' \in Seq(Records) /\ Len(queue') = q + a
      /\ \A i \in 1 .. q : queue'[i] = queue[i]
      /\ \A i \in 1 .. a : queue'[q + i] = F[k + i]
  <2>1. queue \in Seq(Records)
    BY DEF IInv, QTypeOK
  <2>2. PICK Q \in Seq(Records) : Q = queue
    BY <2>1
  <2>3. PICK W : W = Q \o R
    OBVIOUS
  <2>4. Len(Q) = q /\ Len(R) = a
    BY <1>q, <1>6, <2>2
  <2>9. R \in Seq(Records)
    BY <1>6
  <2>5. /\ W \in Seq(Records) /\ Len(W) = Len(Q) + Len(R)
        /\ \A i \in 1 .. Len(Q) : W[i] = Q[i]
        /\ \A i \in 1 .. Len(R) : W[Len(Q) + i] = R[i]
    BY <2>3, <2>9
  <2>6. Len(W) = q + a /\ (\A i \in 1 .. q : W[i] = Q[i]) /\ \A i \in 1 .. a : W[q + i] = R[i]
    BY <2>4, <2>5, Zenon
  <2>7. queue' = W
    BY <1>5, <2>2, <2>3
  <2>8. \A i \in 1 .. a : W[q + i] = F[k + i]
    BY <1>6, <2>6, Zenon
  <2> QED
    BY <2>2, <2>5, <2>6, <2>7, <2>8, Zenon
<1>8. DOMAIN queue = 1 .. q /\ DOMAIN queue' = 1 .. q + a
  BY <1>q, <1>7
<1>9. ASSUME NEW c, InQueue(c) PROVE InQueue(c)'
  <2>1. PICK i \in 1 .. q : queue[i].id = c
    BY <1>8, <1>9 DEF InQueue
  <2>2. i \in 1 .. q + a
    OBVIOUS
  <2>3. queue'[i].id = c
    BY <1>7, <2>1
  <2> QED
    BY <1>8, <2>2, <2>3 DEF InQueue
<1>11. ASSUME NEW c, InFile(c) PROVE InQueue(c)'
  <2>1. PICK i \in 1 .. a : F[k + i].id = c
    BY <1>f, <1>k, <1>a, <1>11 DEF InFile
  <2>2. q + i \in 1 .. q + a
    OBVIOUS
  <2>3. queue'[q + i].id = c
    BY <1>7, <2>1
  <2> QED
    BY <1>8, <2>2, <2>3 DEF InQueue
<1>12. \A c : InBuffer(c) => InBuffer(c)'
  BY DEF InBuffer
<1>13. Ahead' = 0 /\ Behind' = (IF n > 0 /\ F[n] = EofMarker THEN n - 1 ELSE n)
  BY <1>f, <1>n, <1>3 DEF Ahead, Behind
<1>14. InvVsn'
  <2>1. /\ \A i \in 1 .. q : queue[i].vsn = i
        /\ \A i \in 1 .. a : F[k + i].vsn = q + i
        /\ \A i \in DOMAIN buffer : buffer[i].vsn = q + a + i
        /\ nextVsn = q + a + Len(buffer) + 1
    BY <1>f, <1>k, <1>q, <1>a, <1>8 DEF IInv, InvVsn
  <2>2. \A i \in 1 .. q + a : queue'[i].vsn = i
    <3> SUFFICES ASSUME NEW i \in 1 .. q + a PROVE queue'[i].vsn = i
      OBVIOUS
    <3>1. CASE i \in 1 .. q
      BY <1>7, <2>1, <3>1
    <3>2. CASE ~(i \in 1 .. q)
      <4>1. PICK j \in 1 .. a : i = q + j
        <5>1. i - q \in 1 .. a /\ i = q + (i - q)
          BY <3>2
        <5> QED
          BY <5>1
      <4> QED
        BY <1>7, <2>1, <4>1
    <3> QED
      BY <3>1, <3>2
  <2>3. /\ \A i \in 1 .. Ahead' : file'[cur][sizeCommitted'[cur] + i].vsn = Len(queue') + i
        /\ \A i \in DOMAIN buffer' : buffer'[i].vsn = Len(queue') + Ahead' + i
        /\ nextVsn' = Len(queue') + Ahead' + Len(buffer') + 1
    <3>1. \A i \in DOMAIN buffer : q + a + 0 + i = q + a + i
      <4>1. \A i \in DOMAIN buffer : i \in Nat
        BY CurrentThere
      <4> QED
        BY <4>1
    <3>2. q + a + 0 = q + a /\ 1 .. 0 = {}
      OBVIOUS
    <3> QED
      BY <1>7, <1>13, <2>1, <3>1, <3>2
  <2>4. ~cutoverProcessed =>
          /\ Behind > 0 => F[Behind].vsn = q
          /\ Behind = 0 =>
               \/ cur = 0 /\ q = 0
               \/ /\ cur > 0 /\ cur - 1 \in exists /\ Closed(cur - 1)
                  /\ file[cur - 1][Len(file[cur - 1]) - 1].vsn = q
    BY <1>f, <1>q DEF IInv, InvVsn
  <2>5. CASE a > 0
    <3>1. Behind' = k + a /\ Behind' > 0
      BY <1>a, <1>1, <1>13, <2>5
    <3>2. a \in 1 .. a
      BY <2>5
    <3>3. F[Behind'].vsn = q + a
      BY <2>1, <3>1, <3>2
    <3>4. Behind' > 0 /\ ~(Behind' = 0) /\ file'[cur][Behind'].vsn = Len(queue')
      BY <1>f, <1>7, <3>1, <3>3
    <3> QED
      BY <1>7, <1>8, <2>2, <2>3, <3>4 DEF InvVsn
  <2>6. CASE a = 0
    <3>1. Behind' = Behind
      <4>1. Behind = IF k > 0 /\ F[k] = EofMarker THEN k - 1 ELSE k
        BY <1>f, <1>k DEF Behind
      <4>2. CASE k = n
        BY <1>13, <4>1, <4>2
      <4>3. CASE k < n
        <5>1. k > 0 => F[k] # EofMarker
          BY <1>2, <4>3
        <5>2. F[n] = EofMarker /\ k = n - 1
          BY <1>a, <2>6, <4>3
        <5> QED
          BY <1>13, <4>1, <4>3, <5>1, <5>2
      <4> QED
        BY <1>1, <4>2, <4>3
    <3>2. Len(queue') = q
      BY <1>7, <2>6
    <3>3. Closed(cur - 1)' <=> Closed(cur - 1)
      BY DEF Closed
    <3>4. ~cutoverProcessed' =>
            /\ Behind' > 0 => file'[cur'][Behind'].vsn = Len(queue')
            /\ Behind' = 0 =>
                 \/ cur' = 0 /\ Len(queue') = 0
                 \/ /\ cur' > 0 /\ cur' - 1 \in exists' /\ Closed(cur - 1)'
                    /\ file'[cur' - 1][Len(file'[cur' - 1]) - 1].vsn = Len(queue')
      BY <1>f, <2>4, <3>1, <3>2, <3>3
    <3> QED
      BY <1>7, <1>8, <2>2, <2>3, <3>4 DEF InvVsn
  <2> QED
    BY <2>5, <2>6
<1>15. VisibleInQueue'
  <2> SUFFICES ASSUME NEW s \in Segments, NEW i \in DOMAIN file[s], i <= sizeCommitted'[s],
                      file[s][i] # EofMarker
               PROVE  InQueue(file[s][i].id)'
    BY DEF VisibleInQueue
  <2>0. VisibleInQueue
    BY DEF IInv, InvChanges
  <2>1. CASE i <= sizeCommitted[s]
    <3>1. PICK x : x = file[s][i].id
      OBVIOUS
    <3>2. InQueue(x)
      BY <2>0, <2>1, <3>1 DEF VisibleInQueue
    <3>3. InQueue(x)'
      BY <1>9, <3>2
    <3> QED
      BY <3>1, <3>3 DEF InQueue
  <2>2. CASE ~(i <= sizeCommitted[s])
    <3>1. s = cur
      BY <1>3, <2>2
    <3>2. i \in 1 .. n /\ i > k /\ F[i] # EofMarker
      BY <1>f, <1>k, <1>1, <2>2, <3>1
    <3>3. PICK j \in 1 .. a : i = k + j
      <4>1. i - k \in 1 .. a /\ i = k + (i - k)
        BY <1>a, <1>1, <3>2
      <4> QED
        BY <4>1
    <3>4. PICK x : x = F[k + j].id
      OBVIOUS
    <3>5. q + j \in 1 .. q + a
      OBVIOUS
    <3>7. queue'[q + j].id = x
      BY <1>7, <3>4
    <3>6. file[s][i].id = x
      BY <1>f, <3>1, <3>3, <3>4
    <3> QED
      BY <1>8, <3>5, <3>6, <3>7 DEF InQueue
  <2> QED
    BY <2>1, <2>2
<1> QED
  BY <1>f, <1>n, <1>3, <1>7, <1>9, <1>11, <1>12, <1>14, <1>15

\* A thread commits the size of the current segment.
LEMMA commitSizeKeeps ==
  ASSUME IInv, NEW t \in Threads, updateQueueSegmentMetaInfo(t), syncing[t] = cur,
         UNCHANGED cleanerVars
  PROVE  IInv'
<1> USE DEF statusVars, processVars, writerVars, batchVars, cleanerVars
<1>1. /\ process = "up" /\ pc[t] = "meta" /\ pc' = [pc EXCEPT ![t] = "clear"]
      /\ sizeCommitted' = [sizeCommitted EXCEPT ![cur] = Len(file[cur])]
      /\ totalEvents' = [totalEvents EXCEPT ![cur] = @ + delta[cur]]
      /\ queue' = queue \o RecordsOf(SubSeq(file[cur], sizeCommitted[cur] + 1, Len(file[cur])))
      /\ UNCHANGED <<rows, importedBy, removed, file, exists, offset, statusVars, processVars,
                     return, syncing, lock, writerVars, batchVars, cleanerVars>>
  BY DEF updateQueueSegmentMetaInfo, Goto
<1>2. /\ queue' \in Seq(Records) /\ sizeCommitted' \in [Segments -> Nat]
      /\ sizeCommitted'[cur] = Len(file[cur])
      /\ \A s \in Segments \ {cur} : sizeCommitted'[s] = sizeCommitted[s]
      /\ \A c : /\ InQueue(c) => InQueue(c)'
                /\ InFile(c) => InQueue(c)'
                /\ InBuffer(c) => InBuffer(c)'
      /\ InvVsn' /\ VisibleInQueue'
  BY <1>1, CommitCurrent
<1>3. cur \in Segments /\ cur \in exists /\ ~cutoverProcessed /\ Len(file[cur]) \in Nat
  BY <1>1, CurrentThere
<1>4. totalEvents' \in [Segments -> Nat]
  <2>1. totalEvents \in [Segments -> Nat] /\ delta \in [Segments -> Nat]
    BY DEF IInv, QTypeOK
  <2>2. totalEvents[cur] + delta[cur] \in Nat
    BY <1>3, <2>1
  <2>3. totalEvents' = [totalEvents EXCEPT ![cur] = totalEvents[cur] + delta[cur]]
    BY <1>1
  <2> QED
    BY <1>3, <2>1, <2>2, <2>3
<1>5. pc' \in [Threads -> MainPcs \cup FlusherPcs]
  BY <1>1 DEF IInv, QTypeOK, MainPcs
<1>6. QTypeOK'
  BY <1>1, <1>2, <1>4, <1>5, ZenonT(60) DEF IInv, QTypeOK
<1>7. FlagsOK'
  BY <1>1, Zenon DEF IInv, FlagsOK
<1>8. /\ \A s : Closed(s)' <=> Closed(s)
      /\ Closed(cur) => Done(cur)'
      /\ Done(cur) => Done(cur)'
  BY <1>1, <1>2 DEF Closed, Done
<1>9. InvMarkers' /\ InvCleaner'
  BY <1>1, <1>3, MarkersKept, CleanerKept DEF IInv
<1>10. InvSegments'
  <2>1. ASSUME NEW s \in Segments
        PROVE  /\ s > cur => file[s] = <<>> /\ sizeCommitted'[s] = 0 /\ importedBy[s] = {}
               /\ s \notin exists => file[s] = <<>>
               /\ s < cur => Len(file[s]) <= sizeCommitted'[s]
               /\ s \in exists => sizeCommitted'[s] <= Len(file[s])
               /\ s <= cur /\ s \notin exists =>
                    importedBy[s] = Importers /\ (Policy = "archive" => archive[s] = "full")
    <3>1. CASE s = cur
      <4>1. ~(cur > cur) /\ ~(cur < cur)
        BY <1>3 DEF Segments
      <4>2. sizeCommitted'[s] <= Len(file[s])
        BY <1>2, <1>3, <3>1
      <4> QED
        BY <1>3, <3>1, <4>1, <4>2
    <3>2. CASE s # cur
      <4>1. sizeCommitted'[s] = sizeCommitted[s]
        BY <1>2, <3>2
      <4> QED
        BY <4>1 DEF IInv, InvSegments
    <3> QED
      BY <3>1, <3>2
  <2>2. 0 .. cur \subseteq rows /\ rows \subseteq 0 .. cur + 1
    BY DEF IInv, InvSegments
  <2>3. /\ cur + 1 \in rows => Done(cur)' /\ process # "exited" /\ ~cutoverDetected
        /\ importedBy[cur] # {} /\ cur \in exists => Done(cur)'
    BY <1>8 DEF IInv, InvSegments
  <2> QED
    BY <1>1, <1>3, <2>1, <2>2, <2>3 DEF InvSegments
<1>11. /\ Written(pos) /\ Cached /\ Committed(offset)
       /\ Written(pos)' /\ Cached' /\ Committed(offset)'
       /\ Flushed(pos) => Committed(pos)' /\ Flushed(pos)'
       /\ Committed(pos) => Committed(pos)'
  <2>1. Written(pos) /\ Cached /\ Committed(offset)
    BY <1>1 DEF IInv, InvChanges
  <2>2. Written(pos)' /\ Cached' /\ Committed(offset)'
    BY <1>1, <1>2, <2>1 DEF Written, Cached, Committed
  <2>3. /\ Flushed(pos) => Committed(pos)' /\ Flushed(pos)'
        /\ Committed(pos) => Committed(pos)'
    BY <1>1, <1>2 DEF Flushed, Committed
  <2> QED
    BY <2>1, <2>2, <2>3
<1>12. CASE t = "main"
  <2>1. pc'["main"] = "clear" /\ pc'["flusher"] = pc["flusher"] /\ pc["main"] = "meta"
    BY <1>1, <1>12 DEF IInv, QTypeOK, Threads
  <2>2. InvThreads'
    BY <1>1, <2>1 DEF IInv, InvThreads, Locked, Closing, MainPcs
  <2>3. InvClosing'
    BY <1>1, <1>8, <1>12, <2>1 DEF IInv, InvClosing, ClosingStep, AfterClose, Closing
  <2>4. InvSynced'
    <3>1. ~cutoverRequested => synced[cur] = Len(file[cur])
      BY <2>1 DEF IInv, InvSynced
    <3>2. Len(file[cur]) \in Nat
      BY <1>3
    <3>3. ASSUME ~cutoverRequested, NEW s \in exists PROVE sizeCommitted'[s] <= synced[s]
      <4>1. s \in Segments /\ sizeCommitted[s] <= synced[s]
        BY <3>3 DEF IInv, QTypeOK, InvSynced
      <4>2. CASE s = cur
        BY <1>2, <3>1, <3>2, <3>3, <4>2
      <4>3. CASE s # cur
        BY <1>2, <4>1, <4>3
      <4> QED
        BY <4>2, <4>3
    <3> QED
      BY <1>1, <2>1, <3>3 DEF InvSynced
  <2>5. BatchStep'
    BY <1>1, <1>11, <2>1 DEF IInv, InvChanges, BatchStep
  <2> QED
    BY <1>1, <1>2, <1>6, <1>7, <1>9, <1>10, <1>11, <2>2, <2>3, <2>4, <2>5 DEF IInv, InvChanges
<1>13. CASE t = "flusher"
  <2>1. pc'["flusher"] = "clear" /\ pc'["main"] = pc["main"] /\ pc["flusher"] = "meta"
    BY <1>1, <1>13 DEF IInv, QTypeOK, Threads
  <2>2. InvThreads' /\ cutoverRequested
    BY <1>1, <2>1 DEF IInv, InvThreads, Locked, Closing, FlusherPcs
  <2>3. InvClosing'
    BY <1>1, <1>8, <1>13, <2>1 DEF IInv, InvClosing, ClosingStep, AfterClose, Closing
  <2>4. InvSynced'
    BY <1>1, <2>2 DEF InvSynced
  <2>5. BatchStep'
    BY <1>1, <1>11, <2>1 DEF IInv, InvChanges, BatchStep
  <2> QED
    BY <1>1, <1>2, <1>6, <1>7, <1>9, <1>10, <1>11, <2>2, <2>3, <2>4, <2>5 DEF IInv, InvChanges
<1> QED
  BY <1>12, <1>13 DEF Threads

\* main commits the size of a segment that the flusher has rotated meanwhile.
LEMMA commitLateKeeps ==
  ASSUME IInv, updateQueueSegmentMetaInfo("main"), syncing["main"] # cur, UNCHANGED cleanerVars
  PROVE  IInv'
<1> USE DEF statusVars, processVars, writerVars, batchVars, cleanerVars
<1>1. PICK s : s = syncing["main"]
  OBVIOUS
<1>2. /\ process = "up" /\ pc["main"] = "meta" /\ pc' = [pc EXCEPT !["main"] = "clear"]
      /\ sizeCommitted' = [sizeCommitted EXCEPT ![s] = Len(file[s])]
      /\ totalEvents' = [totalEvents EXCEPT ![s] = totalEvents[s] + delta[s]]
      /\ queue' = queue \o RecordsOf(SubSeq(file[s], sizeCommitted[s] + 1, Len(file[s])))
      /\ UNCHANGED <<rows, importedBy, removed, file, exists, offset, statusVars, processVars,
                     return, syncing, lock, writerVars, batchVars, cleanerVars>>
  BY <1>1 DEF updateQueueSegmentMetaInfo, Goto
<1>3. /\ s \in Segments /\ cur \in Segments /\ s # cur /\ s < cur /\ return["main"] = "offsets"
      /\ syncing["main"] # cur
  <2>1. s \in Segments /\ cur \in Segments /\ syncing["main"] <= cur
    BY <1>1, <1>2 DEF IInv, QTypeOK, InvClosing, Threads
  <2>2. s < cur
    BY <1>1, <2>1 DEF Segments
  <2>3. return["main"] = "offsets"
    BY <1>2 DEF IInv, InvClosing, ClosingStep, Closing
  <2> QED
    BY <1>1, <2>1, <2>2, <2>3
<1>4. PICK F \in Seq(Lines) : F = file[s]
  BY <1>3 DEF IInv, QTypeOK
<1>5. /\ Len(F) \in Nat /\ sizeCommitted[s] \in Nat /\ Len(F) <= sizeCommitted[s]
      /\ file \in [Segments -> Seq(Lines)] /\ sizeCommitted \in [Segments -> Nat]
      /\ totalEvents \in [Segments -> Nat] /\ delta \in [Segments -> Nat] /\ queue \in Seq(Records)
  <2>1. /\ file \in [Segments -> Seq(Lines)] /\ sizeCommitted \in [Segments -> Nat]
        /\ totalEvents \in [Segments -> Nat] /\ delta \in [Segments -> Nat] /\ queue \in Seq(Records)
    BY DEF IInv, QTypeOK
  <2>2. Len(file[s]) <= sizeCommitted[s]
    BY <1>3 DEF IInv, InvSegments
  <2>3. Len(F) <= sizeCommitted[s]
    BY <1>4, <2>2
  <2> QED
    BY <1>3, <2>1, <2>3
<1>6. queue' = queue
  <2>0. \A a, b \in Nat : a <= b => b + 1 \in Nat /\ a < b + 1
    OBVIOUS
  <2>1. PICK k \in Nat : k = sizeCommitted[s] + 1 /\ Len(F) < k
    BY <1>5, <2>0
  <2>2. SubSeq(F, k, Len(F)) = <<>>
    BY <1>5, <2>1
  <2>3. RecordsOf(SubSeq(F, k, Len(F))) = <<>>
    BY <2>2 DEF RecordsOf
  <2>4. queue \o <<>> = queue
    BY <1>5
  <2> QED
    BY <1>2, <1>4, <2>1, <2>3, <2>4
<1>7. /\ sizeCommitted' \in [Segments -> Nat] /\ sizeCommitted'[s] = Len(file[s])
      /\ \A u \in Segments \ {s} : sizeCommitted'[u] = sizeCommitted[u]
      /\ sizeCommitted'[cur] = sizeCommitted[cur]
  BY <1>2, <1>3, <1>4, <1>5
<1>8. totalEvents' \in [Segments -> Nat]
  <2>1. totalEvents[s] + delta[s] \in Nat
    BY <1>3, <1>5
  <2> QED
    BY <1>2, <1>3, <1>5, <2>1
<1>9. /\ pc' \in [Threads -> MainPcs \cup FlusherPcs]
      /\ pc'["main"] = "clear" /\ pc'["flusher"] = pc["flusher"]
  BY <1>2 DEF IInv, QTypeOK, MainPcs, Threads
<1>10. QTypeOK'
  BY <1>2, <1>6, <1>7, <1>8, <1>9 DEF IInv, QTypeOK
<1>11. FlagsOK'
  BY <1>2, Zenon DEF IInv, FlagsOK
<1>12. /\ \A u : Closed(u)' <=> Closed(u)
       /\ Done(cur)' <=> Done(cur)
       /\ Ahead' = Ahead /\ Behind' = Behind
       /\ \A c : (InQueue(c)' <=> InQueue(c)) /\ (InBuffer(c)' <=> InBuffer(c))
  <2>1. \A u : Closed(u)' <=> Closed(u)
    BY <1>2 DEF Closed
  <2> QED
    BY <1>2, <1>6, <1>7, <2>1 DEF Done, Ahead, Behind, InQueue, InBuffer
<1>13. \A c : InFile(c)' <=> InFile(c)
  BY <1>2, <1>7, <1>12 DEF InFile
<1>14. InvMarkers' /\ InvCleaner'
  BY <1>2, MarkersKept, CleanerKept DEF IInv
<1>15. InvSegments'
  <2>1. ASSUME NEW u \in Segments
        PROVE  /\ u > cur => file[u] = <<>> /\ sizeCommitted'[u] = 0 /\ importedBy[u] = {}
               /\ u \notin exists => file[u] = <<>>
               /\ u < cur => Len(file[u]) <= sizeCommitted'[u]
               /\ u \in exists => sizeCommitted'[u] <= Len(file[u])
               /\ u <= cur /\ u \notin exists =>
                    importedBy[u] = Importers /\ (Policy = "archive" => archive[u] = "full")
    <3>1. CASE u = s
      <4>1. ~(s > cur) /\ Len(file[s]) <= sizeCommitted'[s] /\ sizeCommitted'[s] <= Len(file[s])
        <5>1. ~(s > cur)
          BY <1>3 DEF Segments
        <5>2. Len(file[s]) \in Nat
          BY <1>4, <1>5
        <5> QED
          BY <1>7, <5>1, <5>2
      <4> QED
        BY <3>1, <4>1 DEF IInv, InvSegments
    <3>2. CASE u # s
      <4>1. sizeCommitted'[u] = sizeCommitted[u]
        BY <1>7, <3>2
      <4> QED
        BY <4>1 DEF IInv, InvSegments
    <3> QED
      BY <3>1, <3>2
  <2> QED
    BY <1>2, <1>12, <2>1 DEF IInv, InvSegments
<1>16. InvVsn'
  BY <1>2, <1>6, <1>7, <1>12 DEF IInv, InvVsn
<1>17. InvThreads'
  BY <1>2, <1>9 DEF IInv, InvThreads, Locked, Closing, MainPcs
<1>18. InvClosing'
  BY <1>2, <1>3, <1>9, <1>12 DEF IInv, InvClosing, ClosingStep, AfterClose, Closing
<1>19. InvSynced'
  BY <1>2, <1>3 DEF IInv, InvSynced
<1>20. InvChanges'
  <2>1. VisibleInQueue'
    <3> SUFFICES ASSUME NEW u \in Segments, NEW i \in DOMAIN file[u], i <= sizeCommitted'[u],
                        file[u][i] # EofMarker
                 PROVE  InQueue(file[u][i].id)
      BY <1>2, <1>12 DEF VisibleInQueue
    <3>1. VisibleInQueue
      BY DEF IInv, InvChanges
    <3>2. i <= sizeCommitted[u]
      <4>1. CASE u = s
        <5>1. DOMAIN F = 1 .. Len(F)
          OBVIOUS
        <5>2. i \in 1 .. Len(F)
          BY <1>4, <4>1, <5>1
        <5> QED
          BY <1>5, <4>1, <5>2
      <4>2. CASE u # s
        BY <1>7, <4>2
      <4> QED
        BY <4>1, <4>2
    <3> QED
      BY <3>1, <3>2 DEF VisibleInQueue
  <2>2. /\ Committed(offset)' /\ Written(pos)' /\ Cached'
        /\ Committed(pos) => Committed(pos)'
    BY <1>2, <1>12, <1>13 DEF IInv, InvChanges, Committed, Written, Cached
  <2>3. BatchStep'
    BY <1>2, <1>3, <1>9, <2>2 DEF IInv, InvChanges, BatchStep
  <2> QED
    BY <2>1, <2>2, <2>3 DEF InvChanges
<1> QED
  BY <1>10, <1>11, <1>14, <1>15, <1>16, <1>17, <1>18, <1>19, <1>20 DEF IInv

\* The size of a segment is committed.
LEMMA updateQueueSegmentMetaInfoKeeps ==
  ASSUME IInv, NEW t \in Threads, updateQueueSegmentMetaInfo(t), UNCHANGED cleanerVars
  PROVE  IInv'
<1>1. t = "flusher" => syncing[t] = cur
  BY DEF updateQueueSegmentMetaInfo, IInv, InvThreads, InvClosing, ClosingStep, Closing
<1> QED
  BY <1>1, commitSizeKeeps, commitLateKeeps DEF Threads

-----------------------------------------------------------------------------
(* A segment file appears.                                                 *)

\* A file that no importer has read does not concern the cleaner.
LEMMA CleanerAndNewFile ==
  ASSUME IInv, NEW N, \A s \in N : s \notin removed /\ s \notin eligible, exists' = exists \cup N,
         UNCHANGED <<cleanerVars, removed, importedBy, cutoverProcessed>>,
         rows \subseteq rows', rows' = rows \/ ~cutoverProcessed
  PROVE  InvCleaner'
<1> USE DEF cleanerVars
<1>1. InvCleaner /\ (eligible # {} => Current \in eligible)
  BY CurrentEligible DEF IInv
<1>2. Current' = Current
  BY DEF Current
<1>3. \A s : Removable(s) => Removable(s)'
  BY DEF Removable
<1> QED
  BY <1>1, <1>2, <1>3 DEF InvCleaner

\* The current segment is closed, and the next one takes its place.
LEMMA NewSegment ==
  ASSUME IInv, ~cutoverProcessed, cur + 1 \in rows, cur' = cur + 1, exists' = exists \cup {cur + 1},
         UNCHANGED <<rows, sizeCommitted, importedBy, removed, file, queue, cleanerVars,
                     cutoverProcessed>>
  PROVE  /\ cur \in Segments /\ cur + 1 \in Segments /\ exists' \subseteq Segments
         /\ cur \in Nat /\ cur + 1 > cur /\ cur \in exists
         /\ Done(cur) /\ file[cur] \in Seq(Lines) /\ Len(file[cur]) >= 2
         /\ file[cur][Len(file[cur]) - 1].vsn = Len(queue)
         /\ file[cur + 1] = <<>> /\ sizeCommitted[cur + 1] = 0 /\ importedBy[cur + 1] = {}
         /\ ~Closed(cur)'
         /\ Ahead = 0 /\ Ahead' = 0 /\ Behind' = 0
         /\ \A c : (InQueue(c)' <=> InQueue(c)) /\ ~InFile(c)
         /\ cur' > 0 /\ cur' - 1 \in exists' /\ Closed(cur - 1)'
         /\ file'[cur' - 1][Len(file'[cur' - 1]) - 1].vsn = Len(queue')
         /\ cur' + 1 \notin rows'
         /\ InvMarkers' /\ InvSegments' /\ InvCleaner' /\ Committed(offset) /\ VisibleInQueue'
<1> USE DEF cleanerVars
<1>1. /\ cur \in Segments /\ cur \in Nat /\ cur + 1 \in Segments /\ cur + 1 > cur
      /\ cur \in exists /\ exists' \subseteq Segments
  <2>1. cur \in Segments /\ cur \in exists
    BY CurrentThere
  <2>2. cur + 1 \in Segments /\ exists \subseteq Segments
    BY DEF IInv, QTypeOK
  <2>3. cur \in Nat /\ cur + 1 > cur
    BY <2>1 DEF Segments
  <2> QED
    BY <2>1, <2>2, <2>3
<1>2. Done(cur)
  BY DEF IInv, InvSegments
<1>3. file[cur + 1] = <<>> /\ sizeCommitted[cur + 1] = 0 /\ importedBy[cur + 1] = {}
  BY <1>1 DEF IInv, InvSegments
<1>4. (\A s : Closed(s)' <=> Closed(s)) /\ ~Closed(cur)'
  BY <1>3 DEF Closed
<1>5. PICK F \in Seq(Lines) : F = file[cur]
  BY CurrentThere
<1>6. PICK n \in Nat : n = Len(F) /\ n >= 2 /\ F[n] = EofMarker /\ sizeCommitted[cur] = n
  <2>1. F # <<>> /\ F[Len(F)] = EofMarker /\ sizeCommitted[cur] = Len(F)
    BY <1>2, <1>5 DEF Done, Closed
  <2>2. Len(F) \in DOMAIN F
    BY <2>1
  <2>3. Len(F) >= 2
    BY <1>1, <1>5, <2>1, <2>2 DEF IInv, InvMarkers
  <2> QED
    BY <2>1, <2>3
<1>7. Ahead = 0 /\ Behind = n - 1
  <2>1. Ahead = 0
    <3>1. Len(file[cur]) = n /\ sizeCommitted[cur] = n /\ ~(n < n) /\ n - n = 0
      BY <1>5, <1>6
    <3> QED
      BY <3>1 DEF Ahead
  <2>2. Behind = n - 1
    BY <1>5, <1>6 DEF Behind
  <2> QED
    BY <2>1, <2>2
<1>8. Ahead' = 0 /\ Behind' = 0
  BY <1>3 DEF Ahead, Behind
<1>9. \A c : (InQueue(c)' <=> InQueue(c)) /\ ~InFile(c)
  BY <1>7 DEF InQueue, InFile
<1>10. F[n - 1].vsn = Len(queue)
  BY <1>5, <1>6, <1>7 DEF IInv, InvVsn
<1>11. /\ file[cur] \in Seq(Lines) /\ Len(file[cur]) >= 2
       /\ file[cur][Len(file[cur]) - 1].vsn = Len(queue)
  BY <1>5, <1>6, <1>10
<1>12. /\ cur' > 0 /\ cur' - 1 \in exists' /\ Closed(cur - 1)'
       /\ file'[cur' - 1][Len(file'[cur' - 1]) - 1].vsn = Len(queue')
  <2>1. PICK x : x = cur + 1
    OBVIOUS
  <2>2. x > 0 /\ x - 1 = cur
    BY <1>1, <2>1
  <2>3. cur' = x /\ x - 1 \in exists' /\ Closed(x - 1)
    BY <1>1, <1>2, <2>1, <2>2 DEF Done
  <2>4. file[x - 1][Len(file[x - 1]) - 1].vsn = Len(queue)
    BY <1>11, <2>2
  <2>5. Closed(cur - 1)'
    BY <2>3 DEF Closed
  <2> QED
    BY <2>2, <2>3, <2>4, <2>5
<1>13. InvMarkers'
  BY MarkersKept DEF IInv
<1>14. InvCleaner'
  <2>1. PICK N : N = {cur + 1}
    OBVIOUS
  <2>2. \A s \in N : s \notin removed /\ s \notin eligible
    BY <1>3, <2>1, QueueAssumption DEF IInv, InvCleaner, Removable
  <2>3. exists' = exists \cup N
    BY <2>1
  <2> QED
    BY <2>2, <2>3, CleanerAndNewFile
<1>15. 0 .. cur + 1 \subseteq rows /\ rows \subseteq 0 .. (cur + 1) + 1 /\ (cur + 1) + 1 \notin rows
  <2>1. 0 .. cur \subseteq rows /\ rows \subseteq 0 .. cur + 1
    BY DEF IInv, InvSegments
  <2> QED
    BY <1>1, <2>1
<1>16. InvSegments'
  <2>1. \A s \in Segments : (s > cur + 1 => s > cur) /\ (s < cur + 1 => s < cur \/ s = cur)
                            /\ (s <= cur + 1 => s <= cur \/ s = cur + 1)
    BY <1>1 DEF Segments
  <2>2. Len(file[cur]) <= sizeCommitted[cur]
    BY <1>5, <1>6
  <2>3. ASSUME NEW s \in Segments
        PROVE  /\ s > cur + 1 => file[s] = <<>> /\ sizeCommitted[s] = 0 /\ importedBy[s] = {}
               /\ s \notin exists \cup {cur + 1} => file[s] = <<>>
               /\ s < cur + 1 => Len(file[s]) <= sizeCommitted[s]
               /\ s \in exists \cup {cur + 1} => sizeCommitted[s] <= Len(file[s])
               /\ s <= cur + 1 /\ s \notin exists \cup {cur + 1} =>
                    importedBy[s] = Importers /\ (Policy = "archive" => archive[s] = "full")
    <3>1. /\ s > cur => file[s] = <<>> /\ sizeCommitted[s] = 0 /\ importedBy[s] = {}
          /\ s \notin exists => file[s] = <<>>
          /\ s < cur => Len(file[s]) <= sizeCommitted[s]
          /\ s \in exists => sizeCommitted[s] <= Len(file[s])
          /\ s <= cur /\ s \notin exists =>
                importedBy[s] = Importers /\ (Policy = "archive" => archive[s] = "full")
      BY DEF IInv, InvSegments
    <3>2. Len(file[cur + 1]) = 0
      BY <1>3
    <3> QED
      BY <1>3, <2>1, <2>2, <3>1, <3>2
  <2> QED
    BY <1>3, <1>15, <2>3 DEF InvSegments
<1>17. Committed(offset) /\ VisibleInQueue'
  <2>1. Committed(offset) /\ VisibleInQueue
    BY DEF IInv, InvChanges
  <2> QED
    BY <1>9, <2>1 DEF VisibleInQueue
<1> QED
  BY <1>1, <1>2, <1>3, <1>4, <1>7, <1>8, <1>9, <1>11, <1>12, <1>13, <1>14, <1>15, <1>16, <1>17

\* The file of the next segment is created.
LEMMA openFileKeeps ==
  ASSUME IInv, NEW t \in Threads, openFile(t), UNCHANGED cleanerVars
  PROVE  IInv'
<1> USE DEF statusVars, processVars, batchVars, cleanerVars
<1>1. /\ process = "up" /\ pc[t] = "create" /\ exists' = exists \cup {cur + 1} /\ cur' = cur + 1
      /\ \/ t = "flusher" /\ pc' = [pc EXCEPT !["flusher"] = "cutover"] /\ lock' = lock
         \/ t = "main" /\ pc' = [pc EXCEPT !["main"] = "write"] /\ lock' = lock
         \/ t = "main" /\ pc' = [pc EXCEPT !["main"] = "poll"] /\ lock' = NoLock
      /\ UNCHANGED <<rows, sizeCommitted, totalEvents, importedBy, removed, file, offset, statusVars,
                     queue, processVars, return, syncing, buffer, synced, delta, closed, batchVars,
                     cleanerVars>>
  BY DEF openFile, Goto
<1>2. lock = t /\ cur + 1 \in rows /\ buffer = <<>> /\ ~cutoverProcessed
  BY <1>1 DEF IInv, InvThreads, Locked, InvClosing, ClosingStep, AfterClose, Threads
<1>3. /\ cur \in Segments /\ cur + 1 \in Segments /\ exists' \subseteq Segments
      /\ cur \in Nat /\ cur + 1 > cur /\ cur \in exists
      /\ file[cur + 1] = <<>> /\ sizeCommitted[cur + 1] = 0 /\ importedBy[cur + 1] = {}
      /\ ~Closed(cur)'
      /\ Ahead = 0 /\ Ahead' = 0 /\ Behind' = 0
      /\ \A c : (InQueue(c)' <=> InQueue(c)) /\ ~InFile(c)
      /\ cur' > 0 /\ cur' - 1 \in exists' /\ Closed(cur - 1)'
      /\ file'[cur' - 1][Len(file'[cur' - 1]) - 1].vsn = Len(queue')
      /\ cur' + 1 \notin rows'
      /\ InvMarkers' /\ InvSegments' /\ InvCleaner' /\ Committed(offset) /\ VisibleInQueue'
  BY <1>1, <1>2, NewSegment
<1>10. \A c : (InBuffer(c)' <=> InBuffer(c))
  BY <1>1 DEF InBuffer
<1>11. pc' \in [Threads -> MainPcs \cup FlusherPcs] /\ lock' \in Threads \cup {NoLock}
  BY <1>1 DEF IInv, QTypeOK, MainPcs, FlusherPcs
<1>12. QTypeOK'
  BY <1>1, <1>3, <1>11 DEF IInv, QTypeOK
<1>13. FlagsOK'
  BY <1>1, Zenon DEF IInv, FlagsOK
<1>17. InvVsn'
  <2>1. /\ \A i \in DOMAIN queue : queue[i].vsn = i
        /\ nextVsn = Len(queue) + Ahead + Len(buffer) + 1
    BY <1>1 DEF IInv, InvVsn
  <2>2. DOMAIN buffer = {} /\ Len(buffer) = 0
    BY <1>2
  <2>3. PICK q \in Nat : q = Len(queue)
    BY <1>1, AheadType
  <2>4. /\ \A i \in 1 .. Ahead' : file'[cur'][sizeCommitted'[cur'] + i].vsn = Len(queue') + i
        /\ \A i \in DOMAIN buffer' : buffer'[i].vsn = Len(queue') + Ahead' + i
        /\ nextVsn' = Len(queue') + Ahead' + Len(buffer') + 1
    BY <1>1, <1>3, <2>1, <2>2, <2>3
  <2>8. ~(Behind' > 0)
    BY <1>3
  <2> QED
    BY <1>1, <1>3, <2>1, <2>4, <2>8 DEF InvVsn
<1>18. /\ Committed(offset)' /\ Written(pos)' /\ Cached'
       /\ Flushed(pos) => Committed(pos)' /\ Flushed(pos)'
       /\ Committed(pos) => Committed(pos)'
  <2>1. Written(pos) /\ Cached
    BY <1>1 DEF IInv, InvChanges
  <2> QED
    BY <1>1, <1>3, <1>10, <2>1 DEF Committed, Written, Cached, Flushed
<1>19. cur + 1 \notin closed /\ closed \subseteq 0 .. cur + 1
  <2>1. closed \subseteq 0 .. cur
    BY <1>1 DEF IInv, InvClosing
  <2> QED
    BY <1>3, <2>1
<1>20. CASE t = "main"
  <2>1. /\ pc'["flusher"] = pc["flusher"] /\ pc'["main"] \in {"write", "poll"}
        /\ lock' = lock \/ lock' = NoLock
    BY <1>1, <1>20 DEF IInv, QTypeOK, Threads
  <2>2. ~Locked("flusher") /\ ~shutDown
    BY <1>1, <1>2, <1>20 DEF IInv, InvThreads
  <2>3. ~AfterClose("flusher") /\ pc["flusher"] # "close"
    BY <2>2 DEF Locked, AfterClose
  <2>4. InvThreads'
    BY <1>1, <2>1, <2>2 DEF IInv, InvThreads, Locked, Closing, MainPcs
  <2>5. InvClosing'
    <3> QED
      BY <1>1, <1>3, <1>19, <2>1, <2>3 DEF InvClosing, ClosingStep, AfterClose, Closing
  <2>6. InvSynced'
    <3>1. synced[cur + 1] \in Nat /\ sizeCommitted[cur + 1] <= synced[cur + 1]
      BY <1>3 DEF IInv, QTypeOK
    <3>2. ~cutoverRequested => \A s \in exists : sizeCommitted[s] <= synced[s]
      BY DEF IInv, InvSynced
    <3> QED
      BY <1>1, <2>1, <3>1, <3>2 DEF InvSynced
  <2>7. BatchStep'
    BY <1>1, <2>1 DEF IInv, InvChanges, BatchStep
  <2> QED
    BY <1>1, <1>3, <1>12, <1>13, <1>17, <1>18, <2>4, <2>5, <2>6, <2>7 DEF IInv, InvChanges
<1>21. CASE t = "flusher"
  <2>1. /\ pc'["main"] = pc["main"] /\ pc'["flusher"] = "cutover" /\ lock' = lock
        /\ pc["flusher"] = "create"
    BY <1>1, <1>21 DEF IInv, QTypeOK, Threads
  <2>2. ~Locked("main") /\ ~shutDown /\ cutoverRequested
    BY <1>1, <1>2, <1>21 DEF IInv, InvThreads
  <2>3. ~AfterClose("main") /\ pc["main"] # "close"
    BY <2>2 DEF IInv, InvThreads, MainPcs, Locked, AfterClose
  <2>4. InvThreads'
    BY <1>1, <1>2, <1>21, <2>1, <2>2 DEF IInv, InvThreads, Locked, Closing, FlusherPcs
  <2>5. InvClosing'
    <3>2. pc["main"] = "meta" => syncing["main"] <= cur + 1
      BY <1>1, <1>3 DEF IInv, QTypeOK, InvClosing, Threads, Segments
    <3> QED
      BY <1>1, <1>3, <1>19, <2>1, <2>3, <3>2 DEF InvClosing, ClosingStep, AfterClose, Closing
  <2>6. InvSynced'
    BY <1>1, <2>2 DEF InvSynced
  <2>7. BatchStep'
    BY <1>1, <1>18, <2>1 DEF IInv, InvChanges, BatchStep
  <2> QED
    BY <1>1, <1>3, <1>12, <1>13, <1>17, <1>18, <2>4, <2>5, <2>6, <2>7 DEF IInv, InvChanges
<1> QED
  BY <1>20, <1>21 DEF Threads

-----------------------------------------------------------------------------
(* Crashes and recovery.                                                   *)

\* The lines of a file up to line n.
Prefix(G, F, n) == G \in Seq(Lines) /\ Len(G) = n /\ \A i \in 1 .. n : G[i] = F[i]

\* The first lines of a file.
LEMMA PrefixOf ==
  ASSUME NEW F \in Seq(Lines), NEW n \in 0 .. Len(F)
  PROVE  Prefix(SubSeq(F, 1, n), F, n) /\ (n = Len(F) => SubSeq(F, 1, n) = F)
<1>1. n \in Nat /\ n <= Len(F)
  OBVIOUS
<1>2. SubSeq(F, 1, n) \in Seq(Lines) /\ Len(SubSeq(F, 1, n)) = n /\ \A i \in 1 .. n : SubSeq(F, 1, n)[i] = F[i]
  BY <1>1
<1>3. n = Len(F) => SubSeq(F, 1, n) = F
  BY <1>2
<1> QED
  BY <1>2, <1>3 DEF Prefix

\* The current segment loses lines that are not committed.
LEMMA LinesLost ==
  ASSUME IInv, ~cutoverProcessed, NEW n \in Nat, NEW G, NEW k \in Nat, k = sizeCommitted[cur], k <= n,
         n <= Len(file[cur]), Prefix(G, file[cur], n), n = Len(file[cur]) => G = file[cur],
         file' = [file EXCEPT ![cur] = G],
         UNCHANGED <<sizeCommitted, cur, queue, exists, importedBy, cutoverProcessed>>
  PROVE  /\ file' \in [Segments -> Seq(Lines)]
         /\ file'[cur] = G /\ Len(file'[cur]) = n
         /\ \A s \in Segments \ {cur} : file'[s] = file[s]
         /\ Done(cur) => Done(cur)'
         /\ InvMarkers' /\ VisibleInQueue'
         /\ \A c : InQueue(c)' <=> InQueue(c)
         /\ Behind' = Behind
         /\ Behind > 0 => file'[cur][Behind] = file[cur][Behind]
         /\ \A s \in Segments \ {cur} : Closed(s)' <=> Closed(s)
<1>1. cur \in Segments /\ file[cur] \in Seq(Lines) /\ file \in [Segments -> Seq(Lines)]
  BY CurrentThere DEF IInv, QTypeOK
<1>2. PICK F \in Seq(Lines) : F = file[cur]
  BY <1>1
<1>3. PICK l \in Nat : l = Len(F)
  OBVIOUS
<1>4. n <= l /\ (n = l => G = F) /\ G \in Seq(Lines) /\ Len(G) = n /\ \A i \in 1 .. n : G[i] = F[i]
  BY <1>2, <1>3 DEF Prefix
<1>5. /\ file' \in [Segments -> Seq(Lines)]
      /\ file'[cur] = G /\ Len(file'[cur]) = n
      /\ \A s \in Segments \ {cur} : file'[s] = file[s]
  BY <1>1, <1>4
<1>6. /\ DOMAIN F = 1 .. l /\ DOMAIN G = 1 .. n
      /\ \A i \in 1 .. l : F[i] = EofMarker => i = l /\ i >= 2
  <2>1. DOMAIN F = 1 .. l /\ DOMAIN G = 1 .. n
    BY <1>3, <1>4
  <2>2. \A i \in 1 .. l : F[i] = EofMarker => i = l /\ i >= 2
    BY <1>1, <1>2, <1>3, <2>1 DEF IInv, InvMarkers
  <2> QED
    BY <2>1, <2>2
<1>7. Done(cur) => Done(cur)'
  <2> SUFFICES ASSUME Done(cur) PROVE Done(cur)'
    OBVIOUS
  <2>1. k = l
    BY <1>2, <1>3 DEF Done
  <2>2. G = F
    BY <1>4, <2>1
  <2> QED
    BY <1>2, <1>5, <2>2 DEF Done, Closed
<1>8. InvMarkers'
  <2> SUFFICES ASSUME NEW s \in Segments, NEW i \in DOMAIN file'[s], file'[s][i] = EofMarker
               PROVE  i = Len(file'[s]) /\ i >= 2
    BY DEF InvMarkers
  <2>1. CASE s = cur
    <3>1. i \in 1 .. n /\ F[i] = EofMarker
      BY <1>4, <1>5, <1>6, <2>1
    <3>2. i \in 1 .. l
      BY <1>4, <3>1
    <3>3. i = l /\ i >= 2
      BY <1>6, <3>1, <3>2
    <3>4. i = n
      BY <1>4, <3>1, <3>3
    <3> QED
      BY <1>5, <2>1, <3>3, <3>4
  <2>2. CASE s # cur
    BY <1>5, <2>2 DEF IInv, InvMarkers
  <2> QED
    BY <2>1, <2>2
<1>9. \A c : InQueue(c)' <=> InQueue(c)
  BY DEF InQueue
<1>10. k > 0 => G[k] = F[k]
  <2>1. k > 0 => k \in 1 .. n
    OBVIOUS
  <2> QED
    BY <1>4, <2>1
<1>11. /\ Behind' = IF k > 0 /\ G[k] = EofMarker THEN k - 1 ELSE k
       /\ Behind = IF k > 0 /\ F[k] = EofMarker THEN k - 1 ELSE k
  BY <1>2, <1>5 DEF Behind
<1>12. Behind' = Behind
  BY <1>10, <1>11
<1>13. Behind > 0 => file'[cur][Behind] = file[cur][Behind]
  <2>1. Behind > 0 => Behind \in 1 .. n
    BY <1>11
  <2> QED
    BY <1>2, <1>4, <1>5, <2>1
<1>14. VisibleInQueue'
  <2> SUFFICES ASSUME NEW s \in Segments, NEW i \in DOMAIN file'[s], i <= sizeCommitted[s],
                      file'[s][i] # EofMarker
               PROVE  InQueue(file'[s][i].id)
    BY <1>9 DEF VisibleInQueue
  <2>1. VisibleInQueue
    BY DEF IInv, InvChanges
  <2>2. CASE s = cur
    <3>1. i \in 1 .. n
      BY <1>5, <1>6, <2>2
    <3>2. i \in DOMAIN F /\ G[i] = F[i]
      BY <1>4, <1>6, <3>1
    <3> QED
      BY <1>2, <1>5, <2>1, <2>2, <3>2 DEF VisibleInQueue
  <2>3. CASE s # cur
    BY <1>5, <2>1, <2>3 DEF VisibleInQueue
  <2> QED
    BY <2>2, <2>3
<1>15. \A s \in Segments \ {cur} : Closed(s)' <=> Closed(s)
  BY <1>5 DEF Closed
<1> QED
  BY <1>5, <1>7, <1>8, <1>9, <1>12, <1>13, <1>14, <1>15

\* A file that loses lines keeps the segments in order.
LEMMA SegmentsAfterLoss ==
  ASSUME IInv, ~cutoverProcessed, NEW G, NEW n \in Nat, sizeCommitted[cur] <= n,
         file'[cur] = G, Len(G) = n, \A s \in Segments \ {cur} : file'[s] = file[s],
         Done(cur) => Done(cur)', cur + 1 \in rows => process' # "exited" /\ ~cutoverDetected',
         UNCHANGED <<sizeCommitted, cur, rows, exists, importedBy, cutoverProcessed, archive>>
  PROVE  InvSegments'
<1>1. cur \in Segments /\ cur \in exists
  BY CurrentThere
<1>2. ASSUME NEW s \in Segments
      PROVE  /\ s > cur => file'[s] = <<>> /\ sizeCommitted[s] = 0 /\ importedBy[s] = {}
             /\ s \notin exists => file'[s] = <<>>
             /\ s < cur => Len(file'[s]) <= sizeCommitted[s]
             /\ s \in exists => sizeCommitted[s] <= Len(file'[s])
             /\ s <= cur /\ s \notin exists =>
                  importedBy[s] = Importers /\ (Policy = "archive" => archive[s] = "full")
  <2>1. CASE s = cur
    <3>1. ~(cur > cur) /\ ~(cur < cur)
      BY <1>1 DEF Segments
    <3> QED
      BY <1>1, <2>1, <3>1
  <2>2. CASE s # cur
    <3>1. file'[s] = file[s]
      BY <2>2
    <3> QED
      BY <3>1 DEF IInv, InvSegments
  <2> QED
    BY <2>1, <2>2
<1>3. 0 .. cur \subseteq rows /\ rows \subseteq 0 .. cur + 1
  BY DEF IInv, InvSegments
<1>4. (cur + 1 \in rows => Done(cur)') /\ (importedBy[cur] # {} => Done(cur)')
  BY <1>1 DEF IInv, InvSegments
<1> QED
  BY <1>1, <1>2, <1>3, <1>4 DEF InvSegments

\* The sequence numbers of a process that is down.
LEMMA VsnAfterLoss ==
  ASSUME IInv, ~cutoverProcessed, process' # "up", Behind' = Behind,
         Behind > 0 => file'[cur][Behind] = file[cur][Behind],
         \A s \in Segments \ {cur} : file'[s] = file[s] /\ (Closed(s)' <=> Closed(s)),
         UNCHANGED <<sizeCommitted, cur, queue, exists, cutoverProcessed>>
  PROVE  InvVsn'
<1>1. cur > 0 => cur - 1 \in Segments \ {cur}
  BY QueueAssumption DEF IInv, QTypeOK, Segments
<1>2. cur > 0 => file'[cur - 1] = file[cur - 1] /\ (Closed(cur - 1)' <=> Closed(cur - 1))
  <2>1. PICK x : x = cur - 1
    OBVIOUS
  <2>2. cur > 0 => file'[x] = file[x] /\ (Closed(x)' <=> Closed(x))
    BY <1>1, <2>1
  <2> QED
    BY <2>1, <2>2 DEF Closed
<1> QED
  BY <1>2 DEF IInv, InvVsn

\* A power loss that takes no committed line takes lines of the current segment
\* only, the ones before it being committed whole.
LEMMA LostLines ==
  ASSUME IInv, crash, ~torn'
  PROVE  \E n \in 0 .. Len(file[cur]) :
           /\ n >= sizeCommitted[cur]
           /\ file' = [file EXCEPT ![cur] = SubSeq(file[cur], 1, n)]
<1>1. PICK left \in [AtRisk -> 0 .. QueueSegmentMaxRecords + 1] :
        /\ \A s \in AtRisk : left[s] \in synced[s] .. Len(file[s])
        /\ file' = [s \in Segments |->
                      IF s \in AtRisk THEN SubSeq(file[s], 1, left[s]) ELSE file[s]]
        /\ torn' = (torn \/ \E s \in AtRisk : left[s] < sizeCommitted[s])
  BY DEF crash
<1>2. \A s \in AtRisk : ~(left[s] < sizeCommitted[s])
  BY <1>1, Zenon
<1>3. /\ cur \in Segments /\ file \in [Segments -> Seq(Lines)]
      /\ \A s \in Segments : /\ Len(file[s]) \in Nat /\ sizeCommitted[s] \in Nat
                             /\ synced[s] \in Nat /\ s \in Int
      /\ sizeCommitted[cur] <= Len(file[cur])
  <2>1. ~cutoverProcessed
    BY DEF crash
  <2>2. sizeCommitted[cur] \in 0 .. Len(file[cur])
    BY <2>1, CurrentThere
  <2>3. /\ cur \in Segments /\ file \in [Segments -> Seq(Lines)]
        /\ \A s \in Segments : /\ Len(file[s]) \in Nat /\ sizeCommitted[s] \in Nat
                               /\ synced[s] \in Nat /\ s \in Int
    <3>1. \A s \in Segments : s \in Int
      BY QueueAssumption DEF Segments
    <3>2. /\ cur \in Segments /\ file \in [Segments -> Seq(Lines)]
          /\ sizeCommitted \in [Segments -> Nat] /\ synced \in [Segments -> Nat]
      BY DEF IInv, QTypeOK
    <3> QED
      BY <3>1, <3>2
  <2> QED
    BY <2>2, <2>3
<1>4. ASSUME NEW s \in AtRisk PROVE s \in Segments /\ left[s] \in Nat /\ left[s] <= Len(file[s])
                                    /\ left[s] >= sizeCommitted[s]
  <2>1. s \in Segments
    BY DEF AtRisk
  <2>2. left[s] \in synced[s] .. Len(file[s])
    BY <1>1
  <2> QED
    BY <1>2, <1>3, <2>1, <2>2
<1>5. ASSUME NEW s \in Segments, s # cur PROVE file'[s] = file[s]
  <2>1. CASE s \notin AtRisk
    BY <1>1, <2>1
  <2>2. CASE s \in AtRisk
    <3>1. ~(s > cur)
      <4> SUFFICES ASSUME s > cur PROVE FALSE
        OBVIOUS
      <4>1. file[s] = <<>>
        BY DEF IInv, InvSegments
      <4>2. synced[s] < Len(file[s])
        BY <2>2 DEF AtRisk
      <4> QED
        BY <1>3, <4>1, <4>2
    <3>2. s < cur
      BY <1>3, <1>5, <3>1
    <3>3. Len(file[s]) <= sizeCommitted[s]
      BY <3>2 DEF IInv, InvSegments
    <3>4. left[s] = Len(file[s])
      BY <1>3, <1>4, <2>2, <3>3
    <3>5. PICK F \in Seq(Lines) : F = file[s]
      BY <1>3
    <3>6. SubSeq(F, 1, Len(F)) = F
      <4>1. Len(F) \in Nat /\ Len(F) <= Len(F)
        OBVIOUS
      <4> QED
        BY <4>1, PrefixOf
    <3> QED
      BY <1>1, <2>2, <3>4, <3>5, <3>6
  <2> QED
    BY <2>1, <2>2
<1>6. CASE cur \in AtRisk
  <2>1. file'[cur] = SubSeq(file[cur], 1, left[cur])
    BY <1>1, <1>3, <1>6
  <2>2. file' = [file EXCEPT ![cur] = SubSeq(file[cur], 1, left[cur])]
    BY <1>1, <1>3, <1>5, <2>1
  <2>3. left[cur] \in 0 .. Len(file[cur]) /\ left[cur] >= sizeCommitted[cur]
    BY <1>3, <1>4, <1>6
  <2> QED
    BY <2>2, <2>3
<1>7. CASE cur \notin AtRisk
  <2>1. PICK F \in Seq(Lines) : F = file[cur]
    BY <1>3
  <2>2. Len(F) \in Nat /\ Len(F) <= Len(F)
    OBVIOUS
  <2>3. SubSeq(F, 1, Len(F)) = F
    BY <2>2, PrefixOf
  <2>4. file'[cur] = file[cur]
    BY <1>1, <1>3, <1>7
  <2>5. file' = [file EXCEPT ![cur] = SubSeq(F, 1, Len(F))]
    BY <1>1, <1>3, <1>5, <2>1, <2>3, <2>4
  <2>6. Len(F) \in 0 .. Len(file[cur]) /\ Len(F) >= sizeCommitted[cur]
    BY <1>3, <2>1, <2>2
  <2> QED
    BY <2>1, <2>5, <2>6
<1> QED
  BY <1>6, <1>7

\* The exporter dies, with lines that no committed size covers.
LEMMA crashKeeps ==
  ASSUME IInv, crash, ~torn', UNCHANGED cleanerVars
  PROVE  IInv'
<1> USE DEF statusVars, cleanerVars
<1>1. /\ process # "down" /\ ~cutoverProcessed /\ crashes < MaxCrashes
      /\ crashes' = crashes + 1 /\ process' = "down"
      /\ buffer' = <<>> /\ closed' = {} /\ dedup' = {} /\ shutDown' = FALSE
      /\ delta' = [s \in Segments |-> 0]
      /\ pc' = [main |-> "poll", flusher |-> "watch"]
      /\ return' = [t \in Threads |-> "offsets"] /\ syncing' = [t \in Threads |-> 0]
      /\ lock' = NoLock /\ pos' = offset /\ batchEnd' = offset
      /\ UNCHANGED <<rows, sizeCommitted, totalEvents, importedBy, removed, exists, offset,
                     statusVars, queue, cur, synced, nextVsn, cleanerVars>>
  BY DEF crash
<1>2. PICK n \in 0 .. Len(file[cur]) :
         /\ n >= sizeCommitted[cur]
         /\ file' = [file EXCEPT ![cur] = SubSeq(file[cur], 1, n)]
  BY LostLines
<1>3. /\ cur \in Segments /\ cur \in exists /\ file[cur] \in Seq(Lines) /\ Len(file[cur]) \in Nat
      /\ sizeCommitted[cur] \in Nat /\ sizeCommitted[cur] <= Len(file[cur])
  <2>1. /\ cur \in Segments /\ cur \in exists /\ file[cur] \in Seq(Lines) /\ Len(file[cur]) \in Nat
        /\ sizeCommitted[cur] \in 0 .. Len(file[cur])
    BY <1>1, CurrentThere
  <2> QED
    BY <2>1
<1>4. n \in Nat /\ n <= Len(file[cur])
  BY <1>3
<1>5. PICK k \in Nat : k = sizeCommitted[cur]
  BY <1>3
<1>6. k <= n
  BY <1>2, <1>4, <1>5
<1>7. PICK F \in Seq(Lines) : F = file[cur]
  BY <1>3
<1>8. PICK G : G = SubSeq(F, 1, n)
  OBVIOUS
<1>9. Prefix(G, F, n) /\ (n = Len(F) => G = F)
  BY <1>7, <1>8, PrefixOf
<1>10. /\ Prefix(G, file[cur], n) /\ (n = Len(file[cur]) => G = file[cur])
       /\ file' = [file EXCEPT ![cur] = G]
  BY <1>2, <1>7, <1>8, <1>9
<1>11. /\ file' \in [Segments -> Seq(Lines)]
       /\ file'[cur] = G /\ Len(file'[cur]) = n
       /\ \A s \in Segments \ {cur} : file'[s] = file[s]
       /\ Done(cur) => Done(cur)'
       /\ InvMarkers' /\ VisibleInQueue'
       /\ \A c : InQueue(c)' <=> InQueue(c)
       /\ Behind' = Behind
       /\ Behind > 0 => file'[cur][Behind] = file[cur][Behind]
       /\ \A s \in Segments \ {cur} : Closed(s)' <=> Closed(s)
  BY <1>1, <1>4, <1>5, <1>6, <1>10, LinesLost
<1>12. InvSegments'
  <2>1. sizeCommitted[cur] <= n /\ Len(G) = n
    BY <1>5, <1>6, <1>11
  <2>2. cur + 1 \in rows => process' # "exited" /\ ~cutoverDetected'
    BY <1>1 DEF IInv, InvSegments
  <2> QED
    BY <1>1, <1>4, <1>11, <2>1, <2>2, SegmentsAfterLoss
<1>13. InvVsn'
  BY <1>1, <1>11, VsnAfterLoss
<1>14. InvCleaner'
  BY <1>1, CleanerKept DEF IInv
<1>15. /\ pc' \in [Threads -> MainPcs \cup FlusherPcs] /\ pc'["main"] = "poll" /\ pc'["flusher"] = "watch"
       /\ return' \in [Threads -> {"row", "offsets", "exit"}] /\ return'["main"] = "offsets"
       /\ syncing' \in [Threads -> Segments] /\ delta' \in [Segments -> Nat]
  <2>1. 0 \in Segments
    BY QueueAssumption DEF Segments
  <2>2. /\ pc' \in [Threads -> MainPcs \cup FlusherPcs] /\ pc'["main"] = "poll" /\ pc'["flusher"] = "watch"
    BY <1>1 DEF Threads, MainPcs, FlusherPcs
  <2> QED
    BY <1>1, <2>1, <2>2 DEF Threads
<1>16. /\ crashes' \in 0 .. MaxCrashes /\ buffer' \in Seq(Records) /\ lock' \in Threads \cup {NoLock}
       /\ closed' \subseteq Segments /\ dedup' \subseteq Changes /\ process' \in {"up", "down", "exited"}
       /\ pos' \in 0 .. NumChanges /\ batchEnd' \in 0 .. NumChanges
  <2>1. crashes \in 0 .. MaxCrashes /\ offset \in 0 .. NumChanges
    BY DEF IInv, QTypeOK
  <2>2. crashes' \in 0 .. MaxCrashes
    BY <1>1, <2>1, ExporterAssumption
  <2> QED
    BY <1>1, <2>1, <2>2
<1>17. QTypeOK'
  BY <1>1, <1>11, <1>15, <1>16 DEF IInv, QTypeOK
<1>18. FlagsOK'
  BY <1>1, Zenon DEF IInv, FlagsOK
<1>19. InvThreads'
  BY <1>1, <1>15 DEF IInv, InvThreads, Locked, Closing, MainPcs, FlusherPcs
<1>20. InvClosing'
  BY <1>1 DEF InvClosing
<1>21. InvSynced'
  BY <1>1, <1>15 DEF IInv, InvSynced
<1>22. InvChanges'
  <2>1. Committed(offset)'
    BY <1>1, <1>11 DEF IInv, InvChanges, Committed
  <2> QED
    BY <1>1, <1>11, <2>1 DEF InvChanges
<1> QED
  BY <1>11, <1>12, <1>13, <1>14, <1>17, <1>18, <1>19, <1>20, <1>21, <1>22 DEF IInv

\* A file without lines.
LEMMA EmptySeq ==
  ASSUME NEW F \in Seq(Lines), Len(F) = 0
  PROVE  F = <<>>
  OBVIOUS

\* The sequence number that recovery reads from a file.
LEMMA LastVsn ==
  ASSUME NEW F \in Seq(Lines), NEW n \in Nat, n = Len(F),
         \A i \in 1 .. n : F[i] = EofMarker => i = n /\ i >= 2
  PROVE  /\ n = 0 => LastVsnOf(F) = -1
         /\ n > 0 /\ F[n] = EofMarker => LastVsnOf(F) = F[n - 1].vsn /\ LastVsnOf(F) \in Nat
         /\ n > 0 /\ F[n] # EofMarker => LastVsnOf(F) = F[n].vsn /\ LastVsnOf(F) \in Nat
<1>1. \A i \in 1 .. n : F[i] \in Lines
  OBVIOUS
<1>2. \A i \in 1 .. n : F[i] # EofMarker => F[i].vsn \in Nat
  BY <1>1 DEF Lines, Records
<1>3. CASE n = 0
  <2>0. Len(F) = 0
    BY <1>3
  <2>1. F = <<>>
    BY <2>0, EmptySeq
  <2>2. RecordsOf(F) = <<>>
    BY <2>1 DEF RecordsOf
  <2> QED
    BY <1>3, <2>2 DEF LastVsnOf
<1>4. CASE n > 0 /\ F[n] = EofMarker
  <2>1. n \in 1 .. n /\ F # <<>>
    BY <1>4
  <2>2. n >= 2
    BY <1>4, <2>1
  <2>3. PICK p \in Nat : p = n - 1 /\ p >= 1 /\ p \in 1 .. n /\ p # n
    BY <2>2
  <2>4. PICK R : R = SubSeq(F, 1, p)
    OBVIOUS
  <2>5. RecordsOf(F) = R
    BY <1>4, <2>1, <2>3, <2>4 DEF RecordsOf
  <2>6. p \in 0 .. Len(F)
    BY <2>3
  <2>7. Len(R) = p /\ R \in Seq(Lines) /\ \A i \in 1 .. p : R[i] = F[i]
    <3>1. Prefix(SubSeq(F, 1, p), F, p)
      BY <2>6, PrefixOf
    <3>2. Prefix(R, F, p)
      BY <2>4, <3>1
    <3> QED
      BY <3>2 DEF Prefix
  <2>8. p \in 1 .. p /\ R # <<>>
    BY <2>3, <2>7
  <2>9. R[p] = F[p] /\ F[p] # EofMarker
    BY <2>3, <2>7, <2>8
  <2>10. LastVsnOf(F) = R[p].vsn
    BY <2>5, <2>7, <2>8 DEF LastVsnOf
  <2> QED
    BY <1>2, <1>4, <2>3, <2>9, <2>10
<1>5. CASE n > 0 /\ F[n] # EofMarker
  <2>1. n \in 1 .. n /\ F # <<>>
    BY <1>5
  <2>2. RecordsOf(F) = F
    BY <1>5 DEF RecordsOf
  <2>3. LastVsnOf(F) = F[n].vsn
    BY <2>1, <2>2 DEF LastVsnOf
  <2> QED
    BY <1>2, <1>5, <2>1, <2>3
<1> QED
  BY <1>3, <1>4, <1>5

\* The segment that recovery opens.
LEMMA LatestRow ==
  ASSUME IInv, process = "down"
  PROVE  /\ ~cutoverProcessed
         /\ cur + 1 \in rows => LatestSegment = cur + 1
         /\ cur + 1 \notin rows => LatestSegment = cur
<1>1. ~cutoverProcessed
  BY DEF IInv, InvThreads
<1>2. cur \in Nat /\ 0 .. cur \subseteq rows /\ rows \subseteq 0 .. cur + 1
  BY DEF IInv, QTypeOK, Segments, InvSegments
<1>3. cur + 1 \in Nat /\ rows \in SUBSET (0 .. cur + 1) /\ cur \in rows /\ rows # {}
  BY <1>2
<1>n. PICK N \in Nat : N = cur + 1
  BY <1>3
<1>4. PICK S \in SUBSET (0 .. N) : S = rows
  BY <1>3, <1>n
<1>5. Max(S) \in S /\ \A y \in S : y <= Max(S)
  BY <1>3, <1>4, MaxOfBounded
<1>6. PICK m : m = Max(rows)
  OBVIOUS
<1>7. m \in rows /\ m \in 0 .. cur + 1 /\ \A y \in rows : y <= m
  BY <1>2, <1>4, <1>5, <1>6
<1>8. m \notin removed
  <2> SUFFICES ASSUME m \in removed PROVE FALSE
    OBVIOUS
  <2>1. PICK t \in rows : t > m
    BY <1>1 DEF IInv, InvCleaner, Removable
  <2>2. t \in Nat /\ m \in Nat
    BY <1>2, <1>7
  <2> QED
    BY <1>7, <2>1, <2>2
<1>9. LatestSegment = m
  BY <1>6, <1>8 DEF LatestSegment
<1>10. cur + 1 \in rows => m = cur + 1
  BY <1>2, <1>7
<1>11. cur + 1 \notin rows => m = cur
  <2>1. m >= cur /\ m \in 0 .. cur + 1
    BY <1>3, <1>7
  <2> QED
    BY <1>2, <1>7, <2>1
<1> QED
  BY <1>1, <1>9, <1>10, <1>11

\* What recovery reads from a closed segment before the current one.
LEMMA LastVsnOfClosed ==
  ASSUME IInv, NEW s \in Segments, Closed(s)
  PROVE  LastVsnOf(file[s]) = file[s][Len(file[s]) - 1].vsn
<1>1. PICK F \in Seq(Lines) : F = file[s]
  BY DEF IInv, QTypeOK
<1>2. PICK n \in Nat : n = Len(F)
  OBVIOUS
<1>3. F # <<>> /\ F[n] = EofMarker
  BY <1>1, <1>2 DEF Closed
<1>4. n > 0
  <2>1. n # 0
    BY <1>2, <1>3, EmptySeq
  <2> QED
    BY <2>1
<1>5. \A i \in 1 .. n : F[i] = EofMarker => i = n /\ i >= 2
  BY <1>1, <1>2 DEF IInv, InvMarkers
<1>6. LastVsnOf(F) = F[n - 1].vsn
  BY <1>2, <1>3, <1>4, <1>5, LastVsn
<1> QED
  BY <1>1, <1>2, <1>6

\* The committed lines of the current segment are what recovery keeps of it.
Recovered(G) ==
  /\ Prefix(G, file[cur], sizeCommitted[cur])
  /\ sizeCommitted[cur] = Len(file[cur]) => G = file[cur]
  /\ Truncated(cur) = G
  /\ Reopened(cur) \subseteq rows \cap exists \cap Segments /\ cur \in Reopened(cur)
  /\ \A s \in Reopened(cur) : s # cur => Truncated(s) = file[s]
  /\ NextVsnAfter(cur) = Len(queue) + 1

\* Recovery finds the segment that was current and the vsn after the last
\* committed record.
LEMMA RecoverCurrent ==
  ASSUME IInv, process = "down"
  PROVE  \E G : Recovered(G)
<1>1. /\ ~cutoverProcessed /\ cur \in exists /\ cur \in Segments /\ cur \in Nat /\ cur \in rows
  <2>1. ~cutoverProcessed /\ cur \in exists /\ cur \in Segments
    BY CurrentThere
  <2>2. cur \in Nat
    BY <2>1 DEF Segments
  <2>3. 0 .. cur \subseteq rows
    BY DEF IInv, InvSegments
  <2> QED
    BY <2>1, <2>2, <2>3
<1>2. PICK F \in Seq(Lines) : F = file[cur]
  BY <1>1, CurrentThere
<1>3. PICK l \in Nat : l = Len(F)
  OBVIOUS
<1>4. PICK k \in Nat : k = sizeCommitted[cur]
  BY <1>1, CurrentThere
<1>5. k <= l
  <2>1. sizeCommitted[cur] \in 0 .. Len(file[cur])
    BY <1>1, CurrentThere
  <2>2. k \in 0 .. l
    BY <1>2, <1>3, <1>4, <2>1
  <2> QED
    BY <2>2
<1>6. PICK q \in Nat : q = Len(queue)
  BY DEF IInv, QTypeOK
<1>7. PICK G : G = Truncated(cur)
  OBVIOUS
<1>8. Prefix(G, F, k) /\ (k = l => G = F)
  <2>1. G = IF k < l THEN SubSeq(F, 1, k) ELSE F
    BY <1>2, <1>3, <1>4, <1>7 DEF Truncated, Visible
  <2>2. k \in 0 .. Len(F)
    BY <1>3, <1>5
  <2>3. Prefix(SubSeq(F, 1, k), F, k) /\ (k = Len(F) => SubSeq(F, 1, k) = F)
    BY <2>2, PrefixOf
  <2>4. CASE k < l
    BY <2>1, <2>3, <2>4
  <2>5. CASE k = l
    <3>1. SubSeq(F, 1, k) = F
      BY <1>3, <2>3, <2>5
    <3>2. ~(k < l)
      BY <2>5
    <3> QED
      BY <2>1, <2>3, <3>1, <3>2
  <2> QED
    BY <1>5, <2>4, <2>5
<1>9. G \in Seq(Lines) /\ Len(G) = k /\ \A i \in 1 .. k : G[i] = F[i]
  BY <1>8 DEF Prefix
<1>10. \A i \in 1 .. k : G[i] = EofMarker => i = k /\ i >= 2
  <2> SUFFICES ASSUME NEW i \in 1 .. k, G[i] = EofMarker PROVE i = k /\ i >= 2
    OBVIOUS
  <2>1. i \in 1 .. l /\ DOMAIN F = 1 .. l
    BY <1>3, <1>5
  <2>2. i = l /\ i >= 2
    BY <1>1, <1>2, <1>3, <1>9, <2>1 DEF IInv, InvMarkers
  <2> QED
    BY <1>5, <2>2
<1>11. Behind = IF k > 0 /\ F[k] = EofMarker THEN k - 1 ELSE k
  BY <1>2, <1>4 DEF Behind
<1>12. /\ Behind > 0 => F[Behind].vsn = q
       /\ Behind = 0 =>
            \/ cur = 0 /\ q = 0
            \/ /\ cur > 0 /\ cur - 1 \in exists /\ Closed(cur - 1)
               /\ file[cur - 1][Len(file[cur - 1]) - 1].vsn = q
  BY <1>1, <1>2, <1>6 DEF IInv, InvVsn
<1>13. PICK v : v = LastVsnOf(G)
  OBVIOUS
<1>14. /\ k = 0 => v = -1
       /\ k > 0 /\ G[k] = EofMarker => v = G[k - 1].vsn
       /\ k > 0 /\ G[k] # EofMarker => v = G[k].vsn
  <2>1. k = Len(G)
    BY <1>9
  <2> QED
    BY <1>9, <1>10, <1>13, <2>1, LastVsn
<1>15. CASE k > 0
  <2>1. v = q
    <3>1. k \in 1 .. k /\ G[k] = F[k]
      BY <1>9, <1>15
    <3>2. CASE G[k] = EofMarker
      <4>1. k >= 2
        BY <1>10, <3>1, <3>2
      <4>2. k - 1 \in 1 .. k /\ k - 1 > 0 /\ Behind = k - 1
        BY <1>11, <3>1, <3>2, <4>1
      <4>3. G[k - 1] = F[k - 1]
        BY <1>9, <4>2
      <4> QED
        BY <1>12, <1>14, <1>15, <3>2, <4>2, <4>3
    <3>3. CASE G[k] # EofMarker
      <4>1. Behind = k
        BY <1>11, <3>1, <3>3
      <4> QED
        BY <1>12, <1>14, <1>15, <3>1, <3>3, <4>1
    <3> QED
      BY <3>2, <3>3
  <2>2. v # -1 /\ v + 1 = q + 1
    BY <2>1
  <2>3. Reopened(cur) = {cur}
    BY <1>7, <1>13, <2>2 DEF Reopened
  <2>4. NextVsnAfter(cur) = q + 1
    BY <1>7, <1>13, <2>2 DEF NextVsnAfter
  <2>5. Recovered(G)
    BY <1>1, <1>2, <1>3, <1>4, <1>6, <1>7, <1>8, <2>3, <2>4 DEF Recovered
  <2> QED
    BY <2>5
<1>16. CASE k = 0 /\ cur = 0
  <2>1. v = -1 /\ Behind = 0 /\ q = 0
    BY <1>11, <1>12, <1>14, <1>16
  <2>2. Reopened(cur) = {cur}
    <3>1. {0, 0 - 1} \cap Segments = {0}
      BY <1>1, <1>16 DEF Segments
    <3> QED
      BY <1>7, <1>13, <1>16, <2>1, <3>1 DEF Reopened
  <2>3. NextVsnAfter(cur) = q + 1
    BY <1>7, <1>13, <1>16, <2>1 DEF NextVsnAfter
  <2>4. Recovered(G)
    BY <1>1, <1>2, <1>3, <1>4, <1>6, <1>7, <1>8, <2>2, <2>3 DEF Recovered
  <2> QED
    BY <2>4
<1>17. CASE k = 0 /\ cur > 0
  <2>1. PICK x : x = cur - 1
    OBVIOUS
  <2>2. x \in Segments /\ x # cur /\ x < cur /\ x \in 0 .. cur
    BY <1>1, <1>17, <2>1, QueueAssumption DEF Segments
  <2>3. v = -1 /\ Behind = 0 /\ cur # 0
    BY <1>11, <1>14, <1>17
  <2>4. x \in exists /\ Closed(x) /\ file[x][Len(file[x]) - 1].vsn = q
    BY <1>12, <1>17, <2>1, <2>3
  <2>5. x \in rows
    BY <2>2 DEF IInv, InvSegments
  <2>6. Truncated(x) = file[x]
    <3>1. Len(file[x]) <= sizeCommitted[x] /\ Len(file[x]) \in Nat /\ sizeCommitted[x] \in Nat
      BY <2>2 DEF IInv, QTypeOK, InvSegments
    <3>2. ~(sizeCommitted[x] < Len(file[x]))
      BY <3>1
    <3> QED
      BY <3>2 DEF Truncated
  <2>7. LastVsnOf(Truncated(x)) = q
    BY <2>2, <2>4, <2>6, LastVsnOfClosed
  <2>8. Reopened(cur) = {cur, x}
    <3>1. LastVsnOf(Truncated(cur)) = -1
      BY <1>7, <1>13, <2>3
    <3>2. Reopened(cur) = {cur, cur - 1} \cap Segments
      BY <3>1 DEF Reopened
    <3> QED
      BY <1>1, <2>1, <2>2, <3>2
  <2>9. NextVsnAfter(cur) = q + 1
    <3>1. LastVsnOf(Truncated(cur)) = -1
      BY <1>7, <1>13, <2>3
    <3>2. LastVsnOf(Truncated(cur - 1)) = q
      BY <2>1, <2>7
    <3>3. NextVsnAfter(cur) = LastVsnOf(Truncated(cur - 1)) + 1
      BY <2>3, <3>1 DEF NextVsnAfter
    <3> QED
      BY <3>2, <3>3
  <2>10. Recovered(G)
    BY <1>1, <1>2, <1>3, <1>4, <1>6, <1>7, <1>8, <2>2, <2>4, <2>5, <2>6, <2>8, <2>9 DEF Recovered
  <2> QED
    BY <2>10
<1> QED
  BY <1>1, <1>15, <1>16, <1>17

\* The cache holds no more than what was read from the files.
LEMMA CacheFromDisk ==
  ASSUME NEW X,
         \A s \in rows : \A i \in DOMAIN X[s] : X[s][i] # EofMarker => InQueue(X[s][i].id)
  PROVE  \A c \in warmUp(X) : c \in Changes /\ InQueue(c)
<1> DEFINE ids == {c \in Changes : \E s \in rows :
                     /\ s >= WarmUpStart(totalEvents)
                     /\ \E i \in DOMAIN X[s] : X[s][i] # EofMarker /\ X[s][i].id = c}
<1>1. \A c \in ids : c \in Changes /\ InQueue(c)
  OBVIOUS
<1>2. warmUp(X) = IF HasEventIds THEN {c \in ids : Cardinality({d \in ids : d > c}) < maxCacheSize}
                  ELSE {}
  BY DEF warmUp
<1> HIDE DEF ids
<1> QED
  BY <1>1, <1>2

\* What the disk holds after recovery is visible.
LEMMA CacheVisible ==
  ASSUME IInv, NEW f, NEW E, \A s \in rows : s \in Segments,
         \A s \in rows : \A i \in DOMAIN f[s] : f[s][i] # EofMarker => InQueue(f[s][i].id)
  PROVE  \A c \in warmUp([t \in Segments |-> IF t \in E THEN f[t] ELSE <<>>]) :
           c \in Changes /\ InQueue(c)
<1>1. PICK X : X = [t \in Segments |-> IF t \in E THEN f[t] ELSE <<>>]
  OBVIOUS
<1>2. ASSUME NEW s \in rows, NEW i \in DOMAIN X[s], X[s][i] # EofMarker PROVE InQueue(X[s][i].id)
  <2>1. X[s] = IF s \in E THEN f[s] ELSE <<>>
    BY <1>1
  <2>2. CASE s \in E
    BY <1>2, <2>1, <2>2
  <2>3. CASE s \notin E
    <3>1. DOMAIN X[s] = {}
      BY <2>1, <2>3
    <3> QED
      BY <3>1
  <2> QED
    BY <2>2, <2>3
<1>3. \A c \in warmUp(X) : c \in Changes /\ InQueue(c)
  BY <1>2, CacheFromDisk
<1> QED
  BY <1>1, <1>3

\* Every line that is left of a segment is committed.
LEMMA AllVisible ==
  ASSUME IInv, NEW f, \A s \in Segments : s # cur => f[s] = file[s],
         Prefix(f[cur], file[cur], sizeCommitted[cur]), sizeCommitted[cur] <= Len(file[cur])
  PROVE  \A s \in rows : \A i \in DOMAIN f[s] : f[s][i] # EofMarker => InQueue(f[s][i].id)
<1> SUFFICES ASSUME NEW s \in rows, NEW i \in DOMAIN f[s], f[s][i] # EofMarker
             PROVE  InQueue(f[s][i].id)
  OBVIOUS
<1>1. s \in Segments /\ cur \in Segments /\ VisibleInQueue /\ file \in [Segments -> Seq(Lines)]
  BY DEF IInv, QTypeOK, InvChanges
<1>2. CASE s = cur
  <2>1. PICK k \in Nat : k = sizeCommitted[cur]
    BY <1>1 DEF IInv, QTypeOK
  <2>2. PICK F \in Seq(Lines) : F = file[cur]
    BY <1>1
  <2>3. DOMAIN f[cur] = 1 .. k /\ \A j \in 1 .. k : f[cur][j] = F[j]
    BY <2>1, <2>2 DEF Prefix
  <2>4. k <= Len(F) /\ DOMAIN F = 1 .. Len(F)
    BY <2>1, <2>2
  <2>5. i \in 1 .. k /\ i \in DOMAIN F /\ f[s][i] = F[i] /\ i <= k
    BY <1>2, <2>3, <2>4
  <2> QED
    BY <1>1, <1>2, <2>1, <2>2, <2>5 DEF VisibleInQueue
<1>3. CASE s # cur
  <2>1. f[s] = file[s] /\ i \in DOMAIN file[s]
    BY <1>1, <1>3
  <2>2. i <= sizeCommitted[s]
    <3>1. s < cur \/ s > cur
      BY <1>1, <1>3 DEF Segments
    <3>2. CASE s < cur
      <4>1. Len(file[s]) <= sizeCommitted[s]
        BY <1>1, <3>2 DEF IInv, InvSegments
      <4>2. PICK F \in Seq(Lines), k \in Nat : F = file[s] /\ k = sizeCommitted[s]
        BY <1>1 DEF IInv, QTypeOK
      <4>3. i \in 1 .. Len(F) /\ Len(F) <= k
        BY <2>1, <4>1, <4>2
      <4>4. i <= k
        BY <4>3
      <4> QED
        BY <4>2, <4>4
    <3>3. CASE s > cur
      <4>1. file[s] = <<>>
        BY <1>1, <3>3 DEF IInv, InvSegments
      <4> QED
        BY <2>1, <4>1
    <3> QED
      BY <3>1, <3>2, <3>3
  <2> QED
    BY <1>1, <2>1, <2>2 DEF VisibleInQueue
<1> QED
  BY <1>2, <1>3

\* The disk after recovery, when the current segment is the last one.
LEMMA RecoveredDisk ==
  ASSUME IInv, process = "down", NEW G, Recovered(G), NEW f,
         f = [t \in Segments |-> IF t \in Reopened(cur) THEN Truncated(t) ELSE file[t]]
  PROVE  f = [file EXCEPT ![cur] = G] /\ f[cur] = G /\ \A s \in Segments : s # cur => f[s] = file[s]
<1>1. cur \in Segments /\ file \in [Segments -> Seq(Lines)]
  BY DEF IInv, QTypeOK
<1>2. f[cur] = G /\ \A s \in Segments : s # cur => f[s] = file[s]
  BY <1>1 DEF Recovered
<1> QED
  BY <1>1, <1>2

\* The types of what recovery sets.
LEMMA RecoveredTypes ==
  ASSUME IInv, NEW f \in [Segments -> Seq(Lines)],
         synced' = [t \in Segments |-> IF synced[t] < Len(f[t]) THEN synced[t] ELSE Len(f[t])]
  PROVE  synced' \in [Segments -> Nat]
<1>1. \A t \in Segments : synced[t] \in Nat /\ Len(f[t]) \in Nat
  BY DEF IInv, QTypeOK
<1> QED
  BY <1>1

\* Recovery goes on with the current segment.
LEMMA recoverCurrentKeeps ==
  ASSUME IInv, recoverStateFromDisk, cur + 1 \notin rows, UNCHANGED cleanerVars
  PROVE  IInv'
<1> USE DEF statusVars, cleanerVars
<1>1. process = "down" /\ ~cutoverDetected /\ ~cutoverProcessed /\ LatestSegment = cur
  BY LatestRow DEF recoverStateFromDisk
<1>2. PICK G : Recovered(G)
  BY <1>1, RecoverCurrent
<1>3. PICK f : f = [t \in Segments |-> IF t \in Reopened(cur) THEN Truncated(t) ELSE file[t]]
  OBVIOUS
<1>4. f = [file EXCEPT ![cur] = G] /\ f[cur] = G /\ \A s \in Segments : s # cur => f[s] = file[s]
  BY <1>1, <1>2, <1>3, RecoveredDisk
<1>5. rows \cup Reopened(cur) = rows /\ exists \cup Reopened(cur) = exists /\ NextVsnAfter(cur) = Len(queue) + 1
  BY <1>2 DEF Recovered
<1>6. /\ IsClosed(cur) => cur < MaxSegment
      /\ process' = "up" /\ rows' = rows /\ exists' = exists /\ file' = f
      /\ synced' = [t \in Segments |-> IF synced[t] < Len(f[t]) THEN synced[t] ELSE Len(f[t])]
      /\ cur' = cur /\ nextVsn' = Len(queue) + 1
      /\ dedup' = warmUp([t \in Segments |-> IF t \in exists THEN f[t] ELSE <<>>])
      /\ IF \E i \in DOMAIN f[cur] : f[cur][i] = EofMarker
         THEN pc' = [pc EXCEPT !["main"] = "row"] /\ lock' = "main"
         ELSE UNCHANGED <<pc, lock>>
      /\ UNCHANGED <<sizeCommitted, totalEvents, importedBy, removed, offset, statusVars, queue,
                     shutDown, crashes, return, syncing, buffer, delta, closed, pos, batchEnd,
                     cleanerVars>>
  BY <1>1, <1>3, <1>5 DEF recoverStateFromDisk
<1>7. /\ cur \in Segments /\ cur \in exists /\ file[cur] \in Seq(Lines)
      /\ file \in [Segments -> Seq(Lines)]
  BY <1>1, CurrentThere DEF IInv, QTypeOK
<1>8. PICK k \in Nat : k = sizeCommitted[cur]
  BY <1>7 DEF IInv, QTypeOK
<1>9. /\ k <= Len(file[cur]) /\ Prefix(G, file[cur], k) /\ (k = Len(file[cur]) => G = file[cur])
      /\ file' = [file EXCEPT ![cur] = G]
  <2>1. sizeCommitted[cur] \in 0 .. Len(file[cur])
    BY <1>1, CurrentThere
  <2>2. k <= Len(file[cur])
    BY <1>8, <2>1
  <2> QED
    BY <1>2, <1>4, <1>6, <1>8, <2>2 DEF Recovered
<1>10. /\ file' \in [Segments -> Seq(Lines)]
       /\ file'[cur] = G /\ Len(file'[cur]) = k
       /\ \A s \in Segments \ {cur} : file'[s] = file[s]
       /\ Done(cur) => Done(cur)'
       /\ InvMarkers' /\ VisibleInQueue'
       /\ \A c : InQueue(c)' <=> InQueue(c)
       /\ Behind' = Behind
       /\ Behind > 0 => file'[cur][Behind] = file[cur][Behind]
       /\ \A s \in Segments \ {cur} : Closed(s)' <=> Closed(s)
  <2>1. k <= k
    OBVIOUS
  <2> QED
    BY <1>1, <1>6, <1>8, <1>9, <2>1, LinesLost
<1>11. InvSegments'
  <2>1. sizeCommitted[cur] <= k /\ Len(G) = k
    BY <1>8, <1>10
  <2>2. process' # "exited" /\ ~cutoverDetected'
    BY <1>1, <1>6
  <2> QED
    BY <1>1, <1>6, <1>10, <2>1, <2>2, SegmentsAfterLoss
<1>12. InvCleaner'
  BY <1>1, <1>6, CleanerKept DEF IInv
<1>13. Ahead' = 0
  <2>1. ~(k < k) /\ k - k = 0
    OBVIOUS
  <2> QED
    BY <1>6, <1>8, <1>10, <2>1 DEF Ahead
<1>14. /\ pc["main"] = "poll" /\ pc["flusher"] = "watch" /\ lock = NoLock
       /\ buffer = <<>> /\ closed = {} /\ ~shutDown /\ pos = offset /\ batchEnd = offset
  BY <1>1 DEF IInv, InvThreads
<1>15. InvVsn'
  <2>1. cur > 0 => cur - 1 \in Segments \ {cur}
    BY <1>7, QueueAssumption DEF Segments
  <2>2. cur > 0 => file'[cur - 1] = file[cur - 1] /\ (Closed(cur - 1)' <=> Closed(cur - 1))
    <3>1. PICK x : x = cur - 1
      OBVIOUS
    <3>2. cur > 0 => file'[x] = file[x] /\ (Closed(x)' <=> Closed(x))
      BY <1>10, <2>1, <3>1
    <3> QED
      BY <1>6, <3>1, <3>2 DEF Closed
  <2>3. PICK q \in Nat : q = Len(queue)
    BY DEF IInv, QTypeOK
  <2>4. DOMAIN buffer = {} /\ Len(buffer) = 0
    BY <1>14
  <2>5. /\ \A i \in 1 .. Ahead' : file'[cur'][sizeCommitted'[cur'] + i].vsn = Len(queue') + i
        /\ \A i \in DOMAIN buffer' : buffer'[i].vsn = Len(queue') + Ahead' + i
        /\ nextVsn' = Len(queue') + Ahead' + Len(buffer') + 1
    BY <1>6, <1>13, <2>3, <2>4
  <2>6. ~cutoverProcessed' =>
          /\ Behind' > 0 => file'[cur'][Behind'].vsn = Len(queue')
          /\ Behind' = 0 =>
               \/ cur' = 0 /\ Len(queue') = 0
               \/ /\ cur' > 0 /\ cur' - 1 \in exists' /\ Closed(cur - 1)'
                  /\ file'[cur' - 1][Len(file'[cur' - 1]) - 1].vsn = Len(queue')
    BY <1>1, <1>6, <1>10, <2>2 DEF IInv, InvVsn
  <2>7. \A i \in DOMAIN queue : queue[i].vsn = i
    BY DEF IInv, InvVsn
  <2> QED
    BY <1>6, <2>5, <2>6, <2>7 DEF InvVsn
<1>16. \A c \in dedup' : c \in Changes /\ InQueue(c)
  <2>1. \A s \in rows : \A i \in DOMAIN f[s] : f[s][i] # EofMarker => InQueue(f[s][i].id)
    BY <1>4, <1>8, <1>9, AllVisible
  <2>2. PICK E : E = exists
    OBVIOUS
  <2>3. \A s \in rows : s \in Segments
    BY DEF IInv, QTypeOK
  <2>4. dedup' = warmUp([t \in Segments |-> IF t \in E THEN f[t] ELSE <<>>])
    BY <1>6, <2>2
  <2> QED
    BY <2>1, <2>3, <2>4, CacheVisible
<1>17. /\ synced' \in [Segments -> Nat] /\ dedup' \subseteq Changes /\ nextVsn' \in Nat
       /\ synced'[cur] = IF synced[cur] < k THEN synced[cur] ELSE k
  <2>1. f \in [Segments -> Seq(Lines)]
    BY <1>6, <1>10
  <2>2. synced' \in [Segments -> Nat]
    BY <1>6, <2>1, RecoveredTypes
  <2>3. nextVsn' \in Nat
    BY <1>6 DEF IInv, QTypeOK
  <2>4. synced'[cur] = IF synced[cur] < k THEN synced[cur] ELSE k
    BY <1>6, <1>7, <1>10
  <2> QED
    BY <1>16, <2>2, <2>3, <2>4
<1>18. InvSynced' \/ cutoverRequested
  <2>1. CASE ~cutoverRequested
    <3>1. k <= synced[cur] /\ synced[cur] \in Nat
      BY <1>7, <1>8, <2>1 DEF IInv, QTypeOK, InvSynced
    <3>2. synced'[cur] = k
      BY <1>17, <3>1
    <3>3. pc'["main"] \in {"poll", "row"}
      BY <1>6, <1>14 DEF IInv, QTypeOK, Threads
    <3>4. ASSUME NEW s \in exists' PROVE sizeCommitted'[s] <= synced'[s]
      <4>1. CASE s = cur
        BY <1>6, <1>8, <3>2, <4>1
      <4>2. CASE s # cur
        <5>1. s \in Segments /\ s \in exists
          BY <1>6 DEF IInv, QTypeOK
        <5>2. /\ f[s] = file[s] /\ Len(file[s]) \in Nat /\ sizeCommitted[s] \in Nat
              /\ synced[s] \in Nat
          BY <1>4, <4>2, <5>1 DEF IInv, QTypeOK
        <5>3. sizeCommitted[s] <= Len(file[s]) /\ sizeCommitted[s] <= synced[s]
          BY <2>1, <5>1 DEF IInv, InvSegments, InvSynced
        <5>4. synced'[s] = IF synced[s] < Len(file[s]) THEN synced[s] ELSE Len(file[s])
          BY <1>6, <5>1, <5>2
        <5> QED
          BY <1>6, <5>3, <5>4
      <4> QED
        BY <4>1, <4>2
    <3> QED
      BY <3>3, <3>4 DEF InvSynced
  <2> QED
    BY <2>1
<1>19. InvSynced'
  BY <1>6, <1>18 DEF InvSynced
<1>20. /\ pc' \in [Threads -> MainPcs \cup FlusherPcs] /\ lock' \in Threads \cup {NoLock}
       /\ pc'["flusher"] = "watch"
       /\ IF Closed(cur)' THEN pc'["main"] = "row" /\ lock' = "main" /\ cur < MaxSegment
          ELSE pc'["main"] = "poll" /\ lock' = NoLock
  <2>1. Closed(cur)' <=> \E i \in DOMAIN f[cur] : f[cur][i] = EofMarker
    <3>1. f[cur] = G /\ G \in Seq(Lines) /\ Len(G) = k /\ DOMAIN G = 1 .. k
      BY <1>4, <1>9, <1>10 DEF Prefix
    <3>2. ASSUME Closed(cur)' PROVE \E i \in DOMAIN G : G[i] = EofMarker
      <4>1. G # <<>> /\ G[k] = EofMarker
        BY <1>6, <1>10, <3>2 DEF Closed
      <4>2. k # 0
        BY <3>1, <4>1, EmptySeq
      <4>3. k \in DOMAIN G
        BY <3>1, <4>2
      <4> QED
        BY <4>1, <4>3
    <3>3. ASSUME NEW i \in DOMAIN G, G[i] = EofMarker PROVE Closed(cur)'
      <4>1. i = Len(G)
        BY <1>6, <1>7, <1>10, <3>3 DEF InvMarkers
      <4>2. G # <<>>
        OBVIOUS
      <4> QED
        BY <1>6, <1>10, <3>3, <4>1, <4>2 DEF Closed
    <3> QED
      BY <3>1, <3>2, <3>3
  <2>2. Closed(cur)' => cur < MaxSegment
    <3> SUFFICES ASSUME NEW i \in DOMAIN f[cur], f[cur][i] = EofMarker PROVE cur < MaxSegment
      BY <2>1
    <3>1. G \in Seq(Lines) /\ Len(G) = k /\ \A j \in 1 .. k : G[j] = file[cur][j]
      BY <1>9 DEF Prefix
    <3>2. i \in 1 .. k
      BY <1>4, <3>1
    <3>3. PICK l \in Nat : l = Len(file[cur]) /\ DOMAIN file[cur] = 1 .. l
      BY <1>7
    <3>4. i \in DOMAIN file[cur]
      BY <1>9, <3>2, <3>3
    <3>5. IsClosed(cur)
      BY <1>4, <3>1, <3>2, <3>4 DEF IsClosed
    <3> QED
      BY <1>6, <3>5
  <2>3. pc \in [Threads -> MainPcs \cup FlusherPcs]
    BY DEF IInv, QTypeOK
  <2> QED
    BY <1>6, <1>14, <2>1, <2>2, <2>3 DEF Threads, MainPcs
<1>21. QTypeOK'
  BY <1>6, <1>10, <1>17, <1>20 DEF IInv, QTypeOK
<1>22. FlagsOK'
  BY <1>6, Zenon DEF IInv, FlagsOK
<1>23. InvThreads'
  BY <1>1, <1>6, <1>14, <1>20 DEF IInv, InvThreads, Locked, Closing, MainPcs, FlusherPcs
<1>24. InvClosing'
  <2>1. Closed(cur)' => Done(cur)'
    BY <1>6, <1>8, <1>10 DEF Done
  <2> QED
    BY <1>6, <1>14, <1>20, <2>1 DEF InvClosing, ClosingStep, AfterClose, Closing
<1>25. InvChanges'
  <2>1. Committed(offset)' /\ Written(pos)'
    BY <1>6, <1>10, <1>14 DEF IInv, InvChanges, Committed, Written
  <2>2. Cached'
    BY <1>10, <1>16 DEF Cached
  <2>3. BatchStep'
    <3>1. pos' = batchEnd' /\ pos' <= batchEnd' /\ pc'["main"] \in {"poll", "row"}
      BY <1>6, <1>14, <1>20 DEF IInv, QTypeOK
    <3> QED
      BY <3>1 DEF BatchStep
  <2> QED
    BY <1>10, <2>1, <2>2, <2>3 DEF InvChanges
<1> QED
  BY <1>10, <1>11, <1>12, <1>15, <1>19, <1>21, <1>22, <1>23, <1>24, <1>25 DEF IInv

\* Recovery goes on with the next segment, whose row was there already.
LEMMA recoverNextKeeps ==
  ASSUME IInv, recoverStateFromDisk, cur + 1 \in rows, UNCHANGED cleanerVars
  PROVE  IInv'
<1> USE DEF statusVars, cleanerVars
<1>1. process = "down" /\ ~cutoverDetected /\ ~cutoverProcessed /\ LatestSegment = cur + 1
  BY LatestRow DEF recoverStateFromDisk
<1>2. /\ cur \in Segments /\ cur \in Nat /\ cur + 1 \in Segments /\ cur \in exists /\ cur \in rows
      /\ file \in [Segments -> Seq(Lines)] /\ Done(cur)
      /\ file[cur + 1] = <<>> /\ sizeCommitted[cur + 1] = 0
  <2>1. cur \in Segments /\ cur \in exists /\ file \in [Segments -> Seq(Lines)] /\ cur + 1 \in Segments
    BY <1>1, CurrentThere DEF IInv, QTypeOK
  <2>2. cur \in Nat /\ cur + 1 > cur /\ cur \in 0 .. cur
    BY <2>1 DEF Segments
  <2>3. Done(cur) /\ cur \in rows
    BY <2>2 DEF IInv, InvSegments
  <2>4. file[cur + 1] = <<>> /\ sizeCommitted[cur + 1] = 0
    BY <2>1, <2>2 DEF IInv, InvSegments
  <2> QED
    BY <2>1, <2>2, <2>3, <2>4
<1>3. Truncated(cur) = file[cur] /\ Truncated(cur + 1) = <<>>
  <2>1. sizeCommitted[cur] = Len(file[cur]) /\ Len(file[cur]) \in Nat
    BY <1>2 DEF Done
  <2>2. ~(sizeCommitted[cur] < Len(file[cur]))
    BY <2>1
  <2>3. ~(0 < Len(<<>>))
    OBVIOUS
  <2> QED
    BY <1>2, <2>2, <2>3 DEF Truncated
<1>4. LastVsnOf(<<>>) = -1
  BY DEF LastVsnOf, RecordsOf
<1>5. PICK x : x = cur + 1
  OBVIOUS
<1>6. x - 1 = cur /\ x # 0 /\ x # cur /\ x \in Segments
  BY <1>2, <1>5
<1>7. Reopened(x) = {x, cur}
  <2>1. Reopened(x) = {x, x - 1} \cap Segments
    BY <1>3, <1>4, <1>5 DEF Reopened
  <2> QED
    BY <1>2, <1>6, <2>1
<1>8. NextVsnAfter(x) = LastVsnOf(file[cur]) + 1
  <2>1. LastVsnOf(Truncated(x)) = -1
    BY <1>3, <1>4, <1>5
  <2>2. NextVsnAfter(x) = LastVsnOf(Truncated(x - 1)) + 1
    BY <1>6, <2>1 DEF NextVsnAfter
  <2> QED
    BY <1>3, <1>6, <2>2
<1>9. [t \in Segments |-> IF t \in Reopened(x) THEN Truncated(t) ELSE file[t]] = file
  <2>1. \A t \in Segments : (IF t \in Reopened(x) THEN Truncated(t) ELSE file[t]) = file[t]
    BY <1>2, <1>3, <1>5, <1>7
  <2> QED
    BY <1>2, <2>1
<1>10. rows \cup Reopened(x) = rows /\ exists \cup Reopened(x) = exists \cup {cur + 1}
  BY <1>2, <1>5, <1>7
<1>11. /\ process' = "up" /\ rows' = rows /\ exists' = exists \cup {cur + 1} /\ file' = file
       /\ synced' = [t \in Segments |-> IF synced[t] < Len(file[t]) THEN synced[t] ELSE Len(file[t])]
       /\ cur' = cur + 1 /\ nextVsn' = LastVsnOf(file[cur]) + 1
       /\ dedup' = warmUp([t \in Segments |-> IF t \in exists' THEN file[t] ELSE <<>>])
       /\ UNCHANGED <<pc, lock>>
       /\ UNCHANGED <<sizeCommitted, totalEvents, importedBy, removed, offset, statusVars, queue,
                      shutDown, crashes, return, syncing, buffer, delta, closed, pos, batchEnd,
                      cleanerVars>>
  <2>1. LatestSegment = x
    BY <1>1, <1>5
  <2>2. ~\E i \in DOMAIN file[x] : file[x][i] = EofMarker
    BY <1>2, <1>5
  <2> QED
    BY <1>5, <1>8, <1>9, <1>10, <2>1, <2>2 DEF recoverStateFromDisk
<1>12. /\ exists' \subseteq Segments
       /\ file[cur][Len(file[cur]) - 1].vsn = Len(queue)
       /\ ~Closed(cur)'
       /\ Ahead' = 0 /\ Behind' = 0
       /\ \A c : (InQueue(c)' <=> InQueue(c)) /\ ~InFile(c)
       /\ cur' > 0 /\ cur' - 1 \in exists' /\ Closed(cur - 1)'
       /\ file'[cur' - 1][Len(file'[cur' - 1]) - 1].vsn = Len(queue')
       /\ cur' + 1 \notin rows'
       /\ InvMarkers' /\ InvSegments' /\ InvCleaner' /\ Committed(offset) /\ VisibleInQueue'
  BY <1>1, <1>11, NewSegment
<1>13. nextVsn' = Len(queue) + 1
  BY <1>2, <1>11, <1>12, LastVsnOfClosed DEF Done
<1>14. /\ pc["main"] = "poll" /\ pc["flusher"] = "watch" /\ lock = NoLock
       /\ buffer = <<>> /\ closed = {} /\ ~shutDown /\ pos = offset /\ batchEnd = offset
  BY <1>1 DEF IInv, InvThreads
<1>15. InvVsn'
  <2>1. PICK q \in Nat : q = Len(queue)
    BY DEF IInv, QTypeOK
  <2>2. DOMAIN buffer = {} /\ Len(buffer) = 0
    BY <1>14
  <2>3. /\ \A i \in 1 .. Ahead' : file'[cur'][sizeCommitted'[cur'] + i].vsn = Len(queue') + i
        /\ \A i \in DOMAIN buffer' : buffer'[i].vsn = Len(queue') + Ahead' + i
        /\ nextVsn' = Len(queue') + Ahead' + Len(buffer') + 1
    BY <1>11, <1>12, <1>13, <2>1, <2>2
  <2>4. ~(Behind' > 0)
    BY <1>12
  <2>5. \A i \in DOMAIN queue : queue[i].vsn = i
    BY DEF IInv, InvVsn
  <2> QED
    BY <1>11, <1>12, <2>3, <2>4, <2>5 DEF InvVsn
<1>16. \A c \in dedup' : c \in Changes /\ InQueue(c)
  <2>1. PICK f : f = file
    OBVIOUS
  <2>2. Prefix(f[cur], file[cur], sizeCommitted[cur]) /\ sizeCommitted[cur] <= Len(file[cur])
    <3>1. sizeCommitted[cur] = Len(file[cur]) /\ Len(file[cur]) \in Nat /\ file[cur] \in Seq(Lines)
      BY <1>2 DEF Done
    <3> QED
      BY <2>1, <3>1 DEF Prefix
  <2>3. \A s \in rows : \A i \in DOMAIN f[s] : f[s][i] # EofMarker => InQueue(f[s][i].id)
    BY <2>1, <2>2, AllVisible
  <2>4. PICK E : E = exists'
    OBVIOUS
  <2>5. \A s \in rows : s \in Segments
    BY DEF IInv, QTypeOK
  <2>6. dedup' = warmUp([t \in Segments |-> IF t \in E THEN f[t] ELSE <<>>])
    BY <1>11, <2>1, <2>4
  <2> QED
    BY <2>3, <2>5, <2>6, CacheVisible
<1>17. synced' \in [Segments -> Nat] /\ dedup' \subseteq Changes /\ nextVsn' \in Nat
  <2>1. PICK f \in [Segments -> Seq(Lines)] : f = file
    BY <1>2
  <2>2. synced' \in [Segments -> Nat]
    BY <1>11, <2>1, RecoveredTypes
  <2>3. nextVsn' \in Nat
    BY <1>13 DEF IInv, QTypeOK
  <2> QED
    BY <1>16, <2>2, <2>3
<1>18. QTypeOK'
  BY <1>2, <1>11, <1>12, <1>17 DEF IInv, QTypeOK
<1>19. FlagsOK'
  BY <1>11, Zenon DEF IInv, FlagsOK
<1>20. InvThreads'
  BY <1>1, <1>11, <1>14 DEF IInv, InvThreads, Locked, Closing, MainPcs, FlusherPcs
<1>21. InvClosing'
  BY <1>11, <1>12, <1>14 DEF InvClosing, ClosingStep, AfterClose, Closing
<1>22. InvSynced'
  <2>1. synced'[cur + 1] \in Nat /\ sizeCommitted[cur + 1] <= synced'[cur + 1]
    BY <1>2, <1>17
  <2>2. ASSUME ~cutoverRequested, NEW s \in exists PROVE sizeCommitted[s] <= synced'[s]
    <3>1. /\ s \in Segments /\ Len(file[s]) \in Nat /\ sizeCommitted[s] \in Nat
          /\ synced[s] \in Nat
      BY DEF IInv, QTypeOK
    <3>2. sizeCommitted[s] <= Len(file[s]) /\ sizeCommitted[s] <= synced[s]
      BY <2>2, <3>1 DEF IInv, InvSegments, InvSynced
    <3>3. synced'[s] = IF synced[s] < Len(file[s]) THEN synced[s] ELSE Len(file[s])
      BY <1>11, <3>1
    <3> QED
      BY <3>2, <3>3
  <2> QED
    BY <1>11, <1>14, <2>1, <2>2 DEF InvSynced
<1>23. InvChanges'
  <2>1. Committed(offset)' /\ Written(pos)'
    BY <1>11, <1>12, <1>14 DEF Committed, Written
  <2>2. Cached'
    BY <1>12, <1>16 DEF Cached
  <2>3. BatchStep'
    <3>1. pos' = batchEnd' /\ pos' <= batchEnd' /\ pc'["main"] = "poll"
      BY <1>11, <1>14 DEF IInv, QTypeOK
    <3> QED
      BY <3>1 DEF BatchStep
  <2> QED
    BY <1>12, <2>1, <2>2, <2>3 DEF InvChanges
<1> QED
  BY <1>12, <1>15, <1>18, <1>19, <1>20, <1>21, <1>22, <1>23 DEF IInv

-----------------------------------------------------------------------------
(* The invariant and what follows from it.                                 *)

\* Either thread closes or syncs a segment.
LEMMA CloseOrSyncKeeps ==
  ASSUME IInv, NEW t \in Threads, CloseOrSync(t), UNCHANGED cleanerVars
  PROVE  IInv'
<1>1. CASE closeSegment(t)
  BY <1>1, closeSegmentKeeps
<1>2. CASE fsync(t)
  BY <1>2, fsyncKeeps
<1>3. CASE updateQueueSegmentMetaInfo(t)
  BY <1>3, updateQueueSegmentMetaInfoKeeps
<1>4. CASE clearDelta(t)
  BY <1>4, clearDeltaKeeps
<1>5. CASE queueSegmentCreated(t)
  BY <1>5, queueSegmentCreatedKeeps
<1>6. CASE openFile(t)
  BY <1>6, openFileKeeps
<1> QED
  BY <1>1, <1>2, <1>3, <1>4, <1>5, <1>6 DEF CloseOrSync

\* Every step of the exporter keeps the invariant, but for a power loss that
\* takes committed lines.
LEMMA ExporterKeeps ==
  ASSUME IInv, ExporterNext, ~torn', UNCHANGED cleanerVars
  PROVE  IInv'
<1>0. "main" \in Threads /\ "flusher" \in Threads
  BY DEF Threads
<1>1. CASE handleBatch
  BY <1>1, handleBatchKeeps
<1>2. CASE skipRecord
  BY <1>2, skipRecordKeeps
<1>3. CASE rotateQueueSegment
  BY <1>0, <1>3, RotateKeeps DEF rotateQueueSegment, MainWrites
<1>4. CASE writeRecord
  BY <1>4, writeRecordKeeps
<1>5. CASE returnOnShutDown
  BY <1>5, MainStopsKeeps DEF returnOnShutDown, Goto
<1>6. CASE flush
  BY <1>6, flushKeeps
<1>7. CASE commitBatchOffsets
  BY <1>7, commitBatchOffsetsKeeps
<1>8. CASE CloseOrSync("main")
  BY <1>0, <1>8, CloseOrSyncKeeps
<1>9. CASE checkForSwitchOperation
  BY <1>9, checkForSwitchOperationKeeps
<1>10. CASE rotateForSwitchRecord
  BY <1>0, <1>10, RotateKeeps DEF rotateForSwitchRecord
<1>11. CASE writeSwitchRecord
  BY <1>11, writeSwitchRecordKeeps
<1>12. CASE setShutDown
  BY <1>12, setShutDownKeeps
<1>13. CASE exit
  BY <1>13, exitKeeps
<1>14. CASE CloseOrSync("flusher")
  BY <1>0, <1>14, CloseOrSyncKeeps
<1>15. CASE updateCutoverDetectedFlag
  BY <1>15, updateCutoverDetectedFlagKeeps
<1>16. CASE markCutoverProcessed
  BY <1>16, markCutoverProcessedKeeps
<1>17. CASE recoverStateFromDisk
  BY <1>17, recoverCurrentKeeps, recoverNextKeeps
<1>18. CASE skipDebezium
  BY <1>18, skipDebeziumKeeps
<1>19. CASE Spill
  BY <1>19, SpillKeeps
<1>20. CASE crash
  BY <1>20, crashKeeps
<1>21. CASE MainStep
  BY <1>1, <1>2, <1>3, <1>4, <1>5, <1>6, <1>7, <1>8, <1>21 DEF MainStep
<1>22. CASE FlusherStep
  BY <1>9, <1>10, <1>11, <1>12, <1>13, <1>14, <1>22 DEF FlusherStep
<1>23. CASE CommandStep
  BY <1>15, <1>16, <1>17, <1>18, <1>23 DEF CommandStep
<1> QED
  BY <1>19, <1>20, <1>21, <1>22, <1>23 DEF ExporterNext

\* The queue is empty at first.
LEMMA InitHolds == Init => IInv
<1> SUFFICES ASSUME Init PROVE IInv
  OBVIOUS
<1> USE DEF Init, SegmentsInit, ExporterInit, CleanerInit
<1>1. 0 \in Segments /\ cur = 0 /\ file[0] = <<>> /\ sizeCommitted[0] = 0
  BY QueueAssumption DEF Segments
<1>2. QTypeOK
  <2>1. <<>> \in Seq(Lines) /\ <<>> \in Seq(Records) /\ 0 \in Nat
    OBVIOUS
  <2>2. /\ rows \subseteq Segments /\ removed \subseteq rows /\ exists \subseteq Segments
        /\ sizeCommitted \in [Segments -> Nat] /\ totalEvents \in [Segments -> Nat]
        /\ importedBy \in [Segments -> SUBSET Importers]
        /\ file \in [Segments -> Seq(Lines)]
    BY <1>1, <2>1
  <2>3. /\ offset \in 0 .. NumChanges /\ pos \in 0 .. NumChanges /\ batchEnd \in 0 .. NumChanges
        /\ crashes \in 0 .. MaxCrashes /\ copyErrors \in 0 .. CopyErrors
        /\ cleanerCrashes \in 0 .. MaxCleanerCrashes
    BY QueueAssumption, ExporterAssumption, CleanerAssumption
  <2>4. pc \in [Threads -> MainPcs \cup FlusherPcs]
    BY DEF Threads, MainPcs, FlusherPcs
  <2>5. return \in [Threads -> {"row", "offsets", "exit"}] /\ syncing \in [Threads -> Segments]
    BY <1>1
  <2>6. /\ synced \in [Segments -> Nat] /\ delta \in [Segments -> Nat] /\ nextVsn \in Nat
        /\ archive \in [Segments -> {"none", "partial", "full"}]
    OBVIOUS
  <2> QED
    BY <1>1, <2>1, <2>2, <2>3, <2>4, <2>5, <2>6 DEF QTypeOK
<1>3. FlagsOK
  BY Zenon DEF FlagsOK
<1>4. pc["main"] = "poll" /\ pc["flusher"] = "watch" /\ return["main"] = "offsets"
  BY DEF Threads
<1>5. InvThreads
  BY <1>4 DEF InvThreads, Locked, Closing, MainPcs, FlusherPcs
<1>6. InvMarkers
  BY DEF InvMarkers
<1>7. \A s \in Segments : ~Closed(s)
  BY DEF Closed
<1>8. InvSegments
  <2>1. ASSUME NEW s \in Segments
        PROVE  /\ file[s] = <<>> /\ sizeCommitted[s] = 0 /\ importedBy[s] = {}
               /\ Len(file[s]) <= sizeCommitted[s] /\ sizeCommitted[s] <= Len(file[s])
               /\ s <= 0 => s \in exists
    BY DEF Segments
  <2>2. 0 .. 0 \subseteq rows /\ rows \subseteq 0 .. 0 + 1 /\ 0 + 1 \notin rows
    OBVIOUS
  <2>3. importedBy[0] = {}
    BY <1>1
  <2> QED
    BY <1>1, <2>1, <2>2, <2>3 DEF InvSegments
<1>9. InvClosing
  <2>1. 0 + 1 \notin rows
    OBVIOUS
  <2> QED
    BY <1>1, <1>4, <1>7, <2>1 DEF InvClosing, ClosingStep, AfterClose, Closing
<1>10. InvSynced
  BY <1>1, <1>4 DEF InvSynced
<1>11. Ahead = 0 /\ Behind = 0
  <2>1. Len(file[0]) = 0
    BY <1>1
  <2> QED
    BY <1>1, <2>1 DEF Ahead, Behind
<1>12. InvVsn
  BY <1>11 DEF InvVsn
<1>13. InvChanges
  BY <1>4, <1>11 DEF InvChanges, Committed, VisibleInQueue, Written, Cached, BatchStep
<1>14. InvCleaner
  BY DEF InvCleaner
<1> QED
  BY <1>2, <1>3, <1>5, <1>6, <1>8, <1>9, <1>10, <1>12, <1>13, <1>14 DEF IInv

\* A step that changes nothing.
LEMMA StutterKeeps ==
  ASSUME IInv, UNCHANGED vars
  PROVE  IInv'
<1> USE DEF vars, segmentVars, statusVars, exporterVars, processVars, threadVars, writerVars, batchVars,
        cleanerVars
<1>1. CASE process = "up"
  <2>1. QTypeOK'
    BY DEF IInv, QTypeOK
  <2>2. FlagsOK'
    BY Zenon DEF IInv, FlagsOK
  <2>3. InvThreads'
    BY DEF IInv, InvThreads, Locked, Closing
  <2>4. UNCHANGED Content
    BY DEF Content
  <2>5. InvClosing'
    BY <2>4, SameContent DEF IInv, InvClosing, ClosingStep, AfterClose, Closing
  <2>6. InvSynced'
    BY DEF IInv, InvSynced
  <2>7. BatchStep'
    BY <1>1, <2>4, SameCoverage DEF IInv, InvChanges, BatchStep
  <2> QED
    BY <1>1, <2>1, <2>2, <2>3, <2>5, <2>6, <2>7, ThreadStepKeeps
<1>2. CASE process # "up"
  <2>1. QTypeOK' /\ InvCleaner'
    BY CleanerKept DEF IInv, QTypeOK
  <2>2. FlagsOK'
    BY Zenon DEF IInv, FlagsOK
  <2>3. InvThreads'
    BY DEF IInv, InvThreads, Locked, Closing
  <2>4. UNCHANGED Content
    BY DEF Content
  <2>5. InvMarkers' /\ InvVsn' /\ InvSegments'
    BY <2>4, MarkersKept, VsnKept, SegmentsKept DEF IInv, InvSegments
  <2>6. InvClosing' /\ InvSynced'
    BY <1>2 DEF IInv, InvClosing, InvSynced
  <2>7. InvChanges'
    BY <1>2, <2>4, SameContent, SameCoverage DEF IInv, InvChanges
  <2> QED
    BY <2>1, <2>2, <2>3, <2>5, <2>6, <2>7 DEF IInv
<1> QED
  BY <1>1, <1>2

\* Every step keeps the invariant, but for such a power loss.
LEMMA NextKeeps == IInv /\ [Next]_vars /\ ~torn' => IInv'
<1> SUFFICES ASSUME IInv, [Next]_vars, ~torn' PROVE IInv'
  OBVIOUS
<1>1. CASE ExporterNext /\ UNCHANGED cleanerVars
  BY <1>1, ExporterKeeps
<1>2. CASE CleanerNext /\ UNCHANGED exporterVars
  BY <1>2, CleanerKeeps
<1>3. CASE initiateCutover
  BY <1>3, initiateCutoverKeeps
<1>4. ASSUME NEW r \in Importers, markSegmentImported(r) PROVE IInv'
  BY <1>4, markSegmentImportedKeeps
<1>5. CASE Finished
  BY <1>5, StutterKeeps DEF Finished
<1>6. CASE UNCHANGED vars
  BY <1>6, StutterKeeps
<1> QED
  BY <1>1, <1>2, <1>3, <1>4, <1>5, <1>6 DEF Next

\* Only a crash tears the queue, and a cutover, once requested, stays requested.
LEMMA OnlyCrashTears ==
  ASSUME [Next]_vars
  PROVE  (torn' = torn \/ crash) /\ (cutoverRequested' = cutoverRequested \/ initiateCutover)
<1> USE DEF segmentVars, statusVars, exporterVars, processVars, cleanerVars
<1>1. ASSUME NEW t \in Threads, CloseOrSync(t)
      PROVE  torn' = torn /\ cutoverRequested' = cutoverRequested
  BY <1>1, Zenon DEF CloseOrSync, closeSegment, fsync, updateQueueSegmentMetaInfo, clearDelta,
     queueSegmentCreated, openFile
<1>2. CASE MainStep
  <2>1. "main" \in Threads
    BY DEF Threads
  <2> QED
    BY <1>1, <1>2, <2>1 DEF MainStep, handleBatch, skipRecord, rotateQueueSegment, Rotate, writeRecord,
       returnOnShutDown, flush, commitBatchOffsets
<1>3. CASE FlusherStep
  <2>1. "flusher" \in Threads
    BY DEF Threads
  <2> QED
    BY <1>1, <1>3, <2>1 DEF FlusherStep, checkForSwitchOperation, rotateForSwitchRecord, Rotate,
       writeSwitchRecord, setShutDown, exit
<1>4. CASE CommandStep
  BY <1>4, Zenon DEF CommandStep, updateCutoverDetectedFlag, markCutoverProcessed,
     recoverStateFromDisk, skipDebezium
<1>5. CASE Spill
  BY <1>5, Zenon DEF Spill
<1>6. CASE crash
  BY <1>6, Zenon DEF crash
<1>7. CASE CleanerNext /\ UNCHANGED exporterVars
  <2>1. torn' = torn
    BY <1>7
  <2>2. cutoverRequested' = cutoverRequested
    <3>1. CASE deleteSegment \/ removeOldArchive \/ checkArchived \/ CopyFile
      BY <3>1, Zenon DEF deleteSegment, Remove, removeOldArchive, checkArchived, CopyFile
    <3>2. CASE removeAfterCopy \/ markSegment \/ endIteration
      BY <3>2, Zenon DEF removeAfterCopy, Remove, markSegment, endIteration
    <3>3. CASE GetProcessedAndPendingSegments \/ cleanerRestart
      BY <3>3, Zenon DEF GetProcessedAndPendingSegments, cleanerRestart
    <3>4. CASE SignalStop \/ copyError \/ cleanerCrash
      BY <3>4, Zenon DEF SignalStop, copyError, cleanerCrash
    <3> QED
      BY <1>7, <3>1, <3>2, <3>3, <3>4 DEF CleanerNext, CleanerStep
  <2> QED
    BY <2>1, <2>2
<1>8. CASE initiateCutover
  BY <1>8, Zenon DEF initiateCutover
<1>9. ASSUME NEW r \in Importers, markSegmentImported(r)
      PROVE  torn' = torn /\ cutoverRequested' = cutoverRequested
  BY <1>9, Zenon DEF markSegmentImported
<1>10. CASE Finished \/ UNCHANGED vars
  BY <1>10, Zenon DEF Finished, vars
<1> QED
  BY <1>2, <1>3, <1>4, <1>5, <1>6, <1>7, <1>8, <1>9, <1>10, Zenon DEF Next, ExporterNext

\* Before a cutover is requested no power loss takes committed lines.
LEMMA crashBeforeCutover ==
  ASSUME IInv, crash, ~torn, ~cutoverRequested
  PROVE  ~torn'
<1>1. PICK left \in [AtRisk -> 0 .. QueueSegmentMaxRecords + 1] :
        /\ \A s \in AtRisk : left[s] \in synced[s] .. Len(file[s])
        /\ torn' = (torn \/ \E s \in AtRisk : left[s] < sizeCommitted[s])
  BY DEF crash
<1>2. ASSUME NEW s \in AtRisk PROVE ~(left[s] < sizeCommitted[s])
  <2>1. /\ s \in Segments /\ synced[s] < Len(file[s])
        /\ synced[s] \in Nat /\ Len(file[s]) \in Nat /\ sizeCommitted[s] \in Nat
    BY DEF AtRisk, IInv, QTypeOK
  <2>2. s \in exists
    <3> SUFFICES ASSUME s \notin exists PROVE FALSE
      OBVIOUS
    <3>1. file[s] = <<>>
      BY <2>1 DEF IInv, InvSegments
    <3> QED
      BY <2>1, <3>1
  <2>3. sizeCommitted[s] <= synced[s]
    BY <2>2 DEF IInv, InvSynced
  <2>4. left[s] \in synced[s] .. Len(file[s])
    BY <1>1
  <2> QED
    BY <2>1, <2>3, <2>4
<1> QED
  BY <1>1, <1>2, Zenon

\* The queue is sound until a power loss during a cutover takes lines that a
\* committed size covers.
Sound == (torn => cutoverRequested) /\ (~torn => IInv)

\* The inductive invariant holds in every reachable state, for any number of
\* changes, segments, importers, crashes and failing copies, until a power loss
\* takes committed lines; and that does not happen before a cutover has been
\* requested.
THEOREM QueueInvariance == Spec => []Sound
<1>1. Init => Sound
  <2> SUFFICES ASSUME Init PROVE Sound
    OBVIOUS
  <2>1. torn = FALSE
    BY DEF Init, ExporterInit
  <2> QED
    BY <2>1, InitHolds, Zenon DEF Sound
<1>2. Sound /\ [Next]_vars => Sound'
  <2> SUFFICES ASSUME Sound, [Next]_vars PROVE Sound'
    OBVIOUS
  <2>1. /\ torn' = torn \/ crash
        /\ cutoverRequested' = cutoverRequested \/ initiateCutover
    BY OnlyCrashTears
  <2>2. cutoverRequested => cutoverRequested'
    BY <2>1, Zenon DEF initiateCutover
  <2>3. torn => torn'
    BY <2>1, Zenon DEF crash
  <2>4. torn' => cutoverRequested'
    <3>1. CASE torn' = torn
      BY <2>2, <3>1, Zenon DEF Sound
    <3>2. CASE crash
      BY <2>2, <2>3, <3>2, crashBeforeCutover, Zenon DEF Sound
    <3> QED
      BY <2>1, <3>1, <3>2
  <2>5. ~torn' => IInv'
    BY <2>3, NextKeeps, Zenon DEF Sound
  <2> QED
    BY <2>4, <2>5, Zenon DEF Sound
<1> QED
  BY <1>1, <1>2, PTL DEF Spec

\* Without power loss, a kill of the process being all that happens, the queue is
\* never torn.
THEOREM KillsTearNothing ==
  ASSUME ~PowerLoss
  PROVE  Spec => []~torn
<1>1. Init => ~torn
  BY Zenon DEF Init, ExporterInit
<1>2. ~torn /\ [Next]_vars => ~torn'
  <2> SUFFICES ASSUME ~torn, [Next]_vars PROVE ~torn'
    OBVIOUS
  <2>1. AtRisk = {}
    BY DEF AtRisk
  <2>2. CASE crash
    BY <2>1, <2>2 DEF crash
  <2>3. CASE torn' = torn
    BY <2>3, Zenon
  <2> QED
    BY <2>2, <2>3, OnlyCrashTears
<1> QED
  BY <1>1, <1>2, PTL DEF Spec

-----------------------------------------------------------------------------
(* What the invariant says of the queue.                                   *)

\* What a committed size covers is on the disk until a cutover is requested, in
\* the current segment and in those the importers have still to read: the fsync
\* of QueueSegment.sync comes before updateQueueSegmentMetaInfo, and before the
\* cutover nobody else writes to the file in between.
THEOREM CommittedOnDisk == Spec => []CommittedIsSynced
<1>1. Sound => CommittedIsSynced
  <2> SUFFICES ASSUME Sound, ~cutoverRequested
               PROVE  ~torn /\ \A s \in Segments : s \in exists => sizeCommitted[s] <= synced[s]
    BY DEF CommittedIsSynced
  <2>1. ~torn /\ IInv
    BY Zenon DEF Sound
  <2> QED
    BY <2>1 DEF IInv, InvSynced
<1> QED
  BY <1>1, QueueInvariance, PTL

\* The variables keep their types, for every source log, every number of
\* segments and every schedule of the exporter's two threads, the importers and
\* the cleaner: no write of EventQueue or QueueSegment leaves its domain.
THEOREM QueueTypeCorrect == Spec => [](torn \/ TypeOK)
<1>1. Sound => torn \/ TypeOK
  <2> SUFFICES ASSUME Sound, ~torn PROVE TypeOK
    OBVIOUS
  <2>0. IInv /\ torn = FALSE
    BY DEF Sound
  <2>1. QTypeOK /\ FlagsOK
    BY <2>0 DEF IInv
  <2>2. DOMAIN file = Segments /\ \A s \in Segments : \A i \in DOMAIN file[s] : file[s][i] \in Lines
    <3>1. file \in [Segments -> Seq(Lines)]
      BY <2>1, Zenon DEF QTypeOK
    <3> QED
      BY <3>1
  <2>3. /\ \A i \in DOMAIN queue : queue[i] \in Records
        /\ \A i \in DOMAIN buffer : buffer[i] \in Records
    <3>1. queue \in Seq(Records) /\ buffer \in Seq(Records)
      BY <2>1, Zenon DEF QTypeOK
    <3> QED
      BY <3>1
  <2>4. SegmentsTypeOK
    BY <2>1, <2>2, <2>3, Zenon DEF QTypeOK, FlagsOK, SegmentsTypeOK
  <2>5. ExporterTypeOK
    BY <2>0, <2>1, <2>3, Zenon DEF QTypeOK, FlagsOK, ExporterTypeOK
  <2>6. CleanerTypeOK
    BY <2>1, Zenon DEF QTypeOK, FlagsOK, CleanerTypeOK
  <2> QED
    BY <2>4, <2>5, <2>6 DEF TypeOK
<1> QED
  BY <1>1, QueueInvariance, PTL

\* A committed segment is whole in the queue directory until every importer has
\* marked it, and with the archive policy it is then whole in the archive
\* (archiveAndDeleteSegment and deleteSegment of cleanup.go, and the fsync before
\* updateQueueSegmentMetaInfo in QueueSegment.sync), however often either process
\* dies, until a power loss during a cutover takes committed lines.
THEOREM NothingLost == Spec => []NothingUnreadLost
<1>1. Sound => NothingUnreadLost
  <2> SUFFICES ASSUME Sound, ~torn, NEW s \in rows, sizeCommitted[s] > 0
               PROVE  \/ s \in exists /\ Len(file[s]) >= sizeCommitted[s]
                      \/ importedBy[s] = Importers /\ (Policy = "archive" => archive[s] = "full")
    BY DEF NothingUnreadLost
  <2>1. QTypeOK /\ InvSegments
    BY DEF Sound, IInv
  <2>2. s \in Segments /\ sizeCommitted[s] \in Nat /\ Len(file[s]) \in Nat
    BY <2>1 DEF QTypeOK
  <2>3. s \in Int /\ cur \in Int
    BY <2>1, <2>2, QueueAssumption DEF QTypeOK, Segments
  <2>4. s <= cur
    BY <2>1, <2>2, <2>3 DEF InvSegments
  <2>5. CASE s \in exists
    BY <2>1, <2>2, <2>5 DEF InvSegments
  <2>6. CASE s \notin exists
    BY <2>1, <2>2, <2>4, <2>6 DEF InvSegments
  <2> QED
    BY <2>5, <2>6
<1> QED
  BY <1>1, QueueInvariance, PTL

\* The queue numbers its records without a gap or a repetition across crashes
\* and rotations (EventQueue.recoverStateFromDisk, SequenceNumberGenerator).
VsnsConsecutive == \A i \in DOMAIN queue : queue[i].vsn = i

\* A change whose offset Debezium has committed is in the queue, unless it is one
\* that is never written (YbExporterConsumer.handleBatch syncs before it commits).
OffsetsCovered ==
  \A c \in 1 .. offset : c \in Ignored \/ \E i \in DOMAIN queue : queue[i].id = c

\* The two promises of the exporter hold whatever the cleaner's policy and
\* however often its copies fail, until a power loss takes committed lines: the
\* vsns of those would be given out again.
THEOREM ExportIsComplete == Spec => [](torn \/ (VsnsConsecutive /\ OffsetsCovered))
<1>1. IInv => VsnsConsecutive /\ OffsetsCovered
  BY DEF IInv, InvVsn, InvChanges, Committed, InQueue, VsnsConsecutive, OffsetsCovered
<1>2. Sound => torn \/ (VsnsConsecutive /\ OffsetsCovered)
  BY <1>1, Zenon DEF Sound
<1> QED
  BY <1>2, QueueInvariance, PTL

\* When processes are killed but the machine keeps running, the two promises hold
\* without exception, and when the cleaner deletes segments, or when its copies
\* succeed, "cleanup complete" also means that no segment is left
\* (SegmentCleaner.Run).  Where a copy to the archive fails the cleaner reports
\* completion over the segment it left (runArchivePolicy), so neither condition
\* can be dropped.
THEOREM QueueIsComplete ==
  ASSUME ~PowerLoss, Policy = "delete" \/ CopyErrors = 0
  PROVE  Spec => []QueueComplete
<1>1. Sound /\ ~torn => QueueComplete
  <2> SUFFICES ASSUME Sound, ~torn PROVE QueueComplete
    OBVIOUS
  <2>0. IInv
    BY DEF Sound
  <2>1. VsnsConsecutive /\ OffsetsCovered
    BY <2>0 DEF IInv, InvVsn, InvChanges, Committed, InQueue, VsnsConsecutive, OffsetsCovered
  <2>2. cleaner = "complete" => rows \cap exists = {}
    BY <2>0 DEF IInv, InvCleaner
  <2> QED
    BY <2>1, <2>2 DEF QueueComplete, VsnsConsecutive, OffsetsCovered
<1> QED
  BY <1>1, QueueInvariance, KillsTearNothing, PTL
=============================================================================
