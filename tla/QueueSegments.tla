--------------------------- MODULE QueueSegments ---------------------------
(***************************************************************************)
(* What the exporter, the importers and the segment cleaner of a live      *)
(* migration share: the segment files of the change queue                  *)
(* (segment.<N>.ndjson), the rows of the meta database table               *)
(* queue_segment_meta, Debezium's offset file and the cutover flags of the *)
(* migration status record.                                                *)
(*                                                                         *)
(* Sizes are counted in lines instead of bytes.  A line is a record, with  *)
(* its vsn and the id of the change it carries, or the end-of-file marker. *)
(* The changes of the source are numbered 1 .. NumChanges in the order of  *)
(* the source's log.                                                       *)
(***************************************************************************)
EXTENDS Integers, Sequences, FiniteSets

CONSTANTS
  NumChanges,              \* changes in the source's log
  Ignored,                 \* changes that are never written (see writeRecord)
  MaxSegment,              \* bound: segments are numbered 0 .. MaxSegment
  Importers,               \* the importers that must read the queue
  EofMarker, CutoverId     \* the line "\." and the "id" of the switch record

ASSUME QueueAssumption ==
  /\ NumChanges \in Nat
  /\ Ignored \subseteq 1 .. NumChanges
  /\ MaxSegment \in Nat
  /\ Importers # {} /\ IsFiniteSet(Importers)
  /\ CutoverId \notin Nat
  /\ EofMarker \notin [vsn : Nat, id : 1 .. NumChanges \cup {CutoverId}]

Changes == 1 .. NumChanges
Segments == 0 .. MaxSegment
Records == [vsn : Nat, id : Changes \cup {CutoverId}]
Lines == Records \cup {EofMarker}

VARIABLES
  rows,              \* the segments that have a row in queue_segment_meta
  sizeCommitted,     \* size_committed of each row
  totalEvents,       \* total_events of each row
  importedBy,        \* the importers that have marked each row
  removed,           \* rows with archived = 1 and deleted = 1
  file,              \* the content of each segment file
  exists,            \* the segment files present in the queue directory
  offset,            \* the source position in Debezium's offset file
  cutoverRequested,  \* MigrationStatusRecord: a cutover was initiated
  cutoverDetected,   \* MigrationStatusRecord: Debezium exited for a cutover
  cutoverProcessed,  \* MigrationStatusRecord: the exporter has processed it
  importerDone,      \* MigrationStatusRecord: the importers that have
                     \* processed the cutover
  queue              \* history: every record ever covered by a committed
                     \* size, in the order it became visible to readers

statusVars ==
  <<cutoverRequested, cutoverDetected, cutoverProcessed, importerDone>>
segmentVars == <<rows, sizeCommitted, totalEvents, importedBy, removed, file,
                 exists, offset, statusVars, queue>>

(***************************************************************************)
(* A segment is closed when its end-of-file marker has been written.       *)
(***************************************************************************)
IsClosed(s) == \E i \in DOMAIN file[s] : file[s][i] = EofMarker

\* The records among the lines of a segment; the marker is always last.
RecordsOf(lines) ==
  IF lines # <<>> /\ lines[Len(lines)] = EofMarker
  THEN SubSeq(lines, 1, Len(lines) - 1) ELSE lines

\* The committed prefix of a segment: what a reader may see of it.
Visible(s) == SubSeq(file[s], 1, sizeCommitted[s])

(***************************************************************************)
(* The exporter has opened segment 0 and nothing has been written yet.     *)
(* The cleaner is started after the exporter has begun to stream.          *)
(***************************************************************************)
SegmentsInit ==
  /\ rows = {0}
  /\ sizeCommitted = [s \in Segments |-> 0]
  /\ totalEvents = [s \in Segments |-> 0]
  /\ importedBy = [s \in Segments |-> {}]
  /\ removed = {}
  /\ file = [s \in Segments |-> <<>>]
  /\ exists = {0}
  /\ offset = 0
  /\ cutoverRequested = FALSE
  /\ cutoverDetected = FALSE
  /\ cutoverProcessed = FALSE
  /\ importerDone = {}
  /\ queue = <<>>

SegmentsTypeOK ==
  /\ rows \subseteq Segments /\ removed \subseteq rows
  /\ exists \subseteq Segments
  /\ sizeCommitted \in [Segments -> Nat]
  /\ totalEvents \in [Segments -> Nat]
  /\ importedBy \in [Segments -> SUBSET Importers]
  /\ DOMAIN file = Segments
  /\ \A s \in Segments : \A i \in DOMAIN file[s] : file[s][i] \in Lines
  /\ offset \in 0 .. NumChanges
  /\ cutoverRequested \in BOOLEAN
  /\ cutoverDetected \in BOOLEAN /\ cutoverProcessed \in BOOLEAN
  /\ importerDone \subseteq Importers
  /\ \A i \in DOMAIN queue : queue[i] \in Records
=============================================================================
