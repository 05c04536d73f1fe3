----------------------------- MODULE ChangeQueue -----------------------------
(***************************************************************************)
(* The change queue of a live migration: the exporter that writes it, the  *)
(* importers that read it and the cleaner that removes what they have all  *)
(* read, three kinds of processes that share the queue directory and the   *)
(* meta database.  What an importer does with a segment is the subject of  *)
(* StreamImport; here it only marks the segments it has finished.          *)
(***************************************************************************)
EXTENDS EventQueue, SegmentCleaner, TLC

CONSTANT MayCutOver    \* FALSE: the cutover is out of sight yet

ASSUME CutoverAssumption == MayCutOver \in BOOLEAN

\* A batch of Debezium (2048 changes) does not fill a segment (1 GB).
ASSUME BatchAssumption == MaxBatch <= QueueSegmentMaxRecords

vars == <<segmentVars, exporterVars, cleanerVars>>

Init == SegmentsInit /\ ExporterInit /\ CleanerInit

\* "initiate cutover".
initiateCutover ==
  /\ MayCutOver /\ ~cutoverRequested
  /\ cutoverRequested' = TRUE
  /\ UNCHANGED <<rows, sizeCommitted, totalEvents, importedBy, removed, file,
                 exists, offset, cutoverDetected, cutoverProcessed, importerDone,
                 queue, exporterVars, cleanerVars>>

\* Importer r comes to the end of the first segment it has not marked: it has
\* read it up to the end-of-file marker, which a committed size covers.  The
\* segment with the switch record is its last one.
markSegmentImported(r) ==
  LET s == Min({t \in rows : r \notin importedBy[t]}) IN
  /\ r \notin importerDone
  /\ \E t \in rows : r \notin importedBy[t]
  /\ s \in exists
  /\ sizeCommitted[s] \in DOMAIN file[s]
  /\ file[s][sizeCommitted[s]] = EofMarker
  /\ importedBy' = [importedBy EXCEPT ![s] = @ \cup {r}]
  /\ importerDone' = IF \E i \in DOMAIN RecordsOf(file[s]) : file[s][i].id = CutoverId
                     THEN importerDone \cup {r} ELSE importerDone
  /\ UNCHANGED <<rows, sizeCommitted, totalEvents, removed, file, exists,
                 offset, cutoverRequested, cutoverDetected, cutoverProcessed, queue,
                 exporterVars, cleanerVars>>

\* The migration is over.
Finished ==
  /\ process = "exited" /\ cutoverProcessed /\ cleaner = "complete"
  /\ UNCHANGED vars

Next ==
  \/ ExporterNext /\ UNCHANGED cleanerVars
  \/ CleanerNext /\ UNCHANGED exporterVars
  \/ initiateCutover
  \/ \E r \in Importers : markSegmentImported(r)
  \/ Finished

Spec == Init /\ [][Next]_vars

\* Threads and processes that can take a step take it, and a command that has
\* died is started again.  Crashes, copies that fail and the request for a
\* cutover are nobody's duty.
Fairness ==
  /\ WF_vars(MainStep /\ UNCHANGED cleanerVars)
  /\ WF_vars(FlusherStep /\ UNCHANGED cleanerVars)
  /\ WF_vars(CommandStep /\ UNCHANGED cleanerVars)
  /\ WF_vars(CleanerStep /\ UNCHANGED exporterVars)
  /\ WF_vars(SignalStop /\ UNCHANGED exporterVars)
  /\ \A r \in Importers : WF_vars(markSegmentImported(r))

FairSpec == Spec /\ Fairness

\* Importers are alike: nothing but the marks of a segment tells them apart.
ImporterSymmetry == Permutations(Importers)

-----------------------------------------------------------------------------
\* The types of the variables.
TypeOK == SegmentsTypeOK /\ ExporterTypeOK /\ CleanerTypeOK

Log == INSTANCE ChangeLog WITH log <- queue, acked <- offset

(***************************************************************************)
(* With event ids the exporter implements ChangeLog: across crashes        *)
(* between any two steps, those of the cutover too, rotations and the      *)
(* cleaner's removals, the queue holds the source's changes in order, each *)
(* once, with consecutive vsns (EventQueue.recoverStateFromDisk,           *)
(* EventDedupCache), and Debezium's offset never passes a change that no   *)
(* committed size covers (YbExporterConsumer.handleBatch).  It does so     *)
(* until a power loss takes lines that a committed size covers, which      *)
(* CommittedIsSynced confines to the cutover.                              *)
(***************************************************************************)
ImplementsChangeLog == Log!Init /\ [][torn' \/ Log!Next]_<<queue, offset>>

(***************************************************************************)
(* What a committed size covers is on the disk, in every segment, whatever *)
(* rotates, is closed or is killed in between, so that a power loss takes  *)
(* only lines that recovery would cut off anyway and Debezium will send    *)
(* again ("those events will be received again upon restart",              *)
(* YbExporterConsumer.flushSyncStreamingData).  A cutover ends that: the   *)
(* flusher writes the switch record under the lock, but main's sync, which *)
(* does not take it, measures the file after its fd.sync() and so may      *)
(* commit the flusher's lines (QueueSegment.sync).                         *)
(***************************************************************************)
CommittedIsSynced ==
  ~cutoverRequested =>
    ~torn /\ \A s \in Segments : s \in exists => sizeCommitted[s] <= synced[s]

(***************************************************************************)
(* Without event ids a change may be written again after a crash, but the  *)
(* vsns stay consecutive, so that an importer that resumes after a last    *)
(* applied vsn neither skips nor repeats a record; and a change whose      *)
(* offset has been committed is in the queue, or is one never written.     *)
(* When the cleaner reports "cleanup complete", it has removed every       *)
(* segment, also the ones created while it looked at the others.           *)
(***************************************************************************)
QueueComplete ==
  /\ \A i \in DOMAIN queue : queue[i].vsn = i
  /\ \A c \in 1 .. offset : c \in Ignored \/ \E i \in DOMAIN queue : queue[i].id = c
  /\ cleaner = "complete" => rows \cap exists = {}

(***************************************************************************)
(* Every committed segment is whole in the queue directory, down to its    *)
(* last committed line, until every importer has marked it, and with the   *)
(* archive policy it is then whole in the archive directory, however often *)
(* the exporter dies (with the lines it has not synced, unless a committed *)
(* size covered them: see CommittedIsSynced) and the cleaner dies between  *)
(* removing an old archive file, copying, removing and marking.            *)
(***************************************************************************)
NothingUnreadLost ==
  ~torn => \A s \in {x \in rows : sizeCommitted[x] > 0} :
    \/ s \in exists /\ Len(file[s]) >= sizeCommitted[s]
    \/ importedBy[s] = Importers /\ (Policy = "archive" => archive[s] = "full")

(***************************************************************************)
(* Every change is exported and its offset committed, or a cutover ends    *)
(* the export: rotation, the flusher's lock and recovery block nobody for  *)
(* ever.                                                                   *)
(***************************************************************************)
EverythingExported == <>(offset = NumChanges \/ cutoverRequested)

\* Two switch records: the exporter died after it had committed the first and
\* before it was noted that Debezium had exited for the cutover.
SwitchedTwice == Cardinality({i \in DOMAIN queue : queue[i].id = CutoverId}) > 1

(***************************************************************************)
(* A cutover that is requested is processed on both sides, whatever crash  *)
(* falls between the switch record, the exit of Debezium and the two flags *)
(* (isCutoverInitiatedAndCutoverDetected), and then the cleaner drains     *)
(* what remains and exits (SegmentCleaner.SignalStop), with every segment  *)
(* removed unless a copy failed (an error after the stop signal is taken   *)
(* for the end, cleanup.go:210).  Only where a crash made the exporter     *)
(* write a second switch record, into a segment that no importer reads, or *)
(* a power loss took the first, may the cleaner wait for ever.             *)
(***************************************************************************)
CutoverCompletes ==
  cutoverRequested ~>
    /\ workflowEnded
    /\ \/ cleaner = "complete" /\ (copyErrors = 0 => rows \subseteq removed)
       \/ SwitchedTwice \/ torn
=============================================================================
