--------------------------- MODULE SegmentCleaner ---------------------------
(***************************************************************************)
(* The command "archive changes": a process of its own that removes the    *)
(* segments every importer has read, either deleting them or copying them  *)
(* to an archive directory first (archivechanges.SegmentCleaner).          *)
(*                                                                         *)
(* Every file operation and every update of the meta database is a step of *)
(* its own, and the process may die before each of them.  A goroutine      *)
(* raises the stop signal, at any moment after the workflow has ended.     *)
(***************************************************************************)
EXTENDS QueueSegments, FiniteSetsExt

CONSTANTS
  Policy,                \* PolicyDelete or PolicyArchive
  archiveChangesBuffer,  \* processed segments that are always kept
  CopyErrors,            \* bound: copies that fail
  MaxCleanerCrashes      \* bound: crashes of the cleaner

ASSUME CleanerAssumption ==
  /\ Policy \in {"delete", "archive"}
  /\ archiveChangesBuffer \in Nat \ {0}
  /\ CopyErrors \in Nat /\ MaxCleanerCrashes \in Nat

VARIABLES
  cleaner,         \* "tick", "segment", "copy", "copied", "mark", "failed",
                   \* "complete" or "down"
  stop,            \* SegmentCleaner.stop
  processed,       \* GetProcessedAndPendingSegments: ready for cleanup
  pending,         \* ... and still being imported
  eligible,        \* segments of this iteration that are still to be removed
  archive,         \* the archive file of each segment: "none", "partial", "full"
  copyErrors,      \* copies that failed so far
  cleanerCrashes   \* crashes so far

cleanerVars == <<cleaner, stop, processed, pending, eligible, archive,
                 copyErrors, cleanerCrashes>>

CleanerTypeOK ==
  /\ cleaner \in {"tick", "segment", "copy", "copied", "mark", "failed",
                  "complete", "down"}
  /\ stop \in BOOLEAN
  /\ processed \subseteq Segments /\ pending \subseteq Segments
  /\ eligible \subseteq processed
  /\ archive \in [Segments -> {"none", "partial", "full"}]
  /\ copyErrors \in 0 .. CopyErrors
  /\ cleanerCrashes \in 0 .. MaxCleanerCrashes

CleanerInit ==
  /\ cleaner = "tick" /\ stop = FALSE
  /\ processed = {} /\ pending = {} /\ eligible = {}
  /\ archive = [s \in Segments |-> "none"]
  /\ copyErrors = 0 /\ cleanerCrashes = 0

\* workflowEndedForDB: the cutover has been processed on both sides.
workflowEnded == cutoverProcessed /\ importerDone = Importers

SignalStop ==
  /\ cleaner \notin {"down", "complete", "failed"} /\ ~stop
  /\ workflowEnded
  /\ stop' = TRUE
  /\ UNCHANGED <<segmentVars, cleaner, processed, pending, eligible, archive, copyErrors, cleanerCrashes>>

\* All but the last archiveChangesBuffer segments; all of them after the stop
\* signal.
segmentsEligibleForCleanup(segments) ==
  IF stop THEN segments
  ELSE {s \in segments :
          Cardinality({t \in segments : t > s}) >= archiveChangesBuffer}

GetProcessedAndPendingSegments_RemovedPending ==
  LET done == {s \in rows \ removed : importedBy[s] = Importers} IN
  /\ cleaner = "tick"
  /\ processed' = done
  /\ pending' = rows \ done
  /\ eligible' = segmentsEligibleForCleanup(done)
  /\ cleaner' = "segment"
  /\ UNCHANGED <<segmentVars, stop, archive, copyErrors, cleanerCrashes>>

\* One iteration begins: both lists are read in one transaction.
GetProcessedAndPendingSegments ==
  LET done == {s \in rows : importedBy[s] = Importers} IN
  /\ cleaner = "tick"
  /\ processed' = done \ removed
  /\ pending' = rows \ done
  /\ eligible' = segmentsEligibleForCleanup(done \ removed)
  /\ cleaner' = "segment"
  /\ UNCHANGED <<segmentVars, stop, archive, copyErrors,
                 cleanerCrashes>>

Current == Min(eligible)

Remove(s) ==
  /\ exists' = exists \ {s}
  /\ file' = [file EXCEPT ![s] = <<>>]
  /\ UNCHANGED <<rows, sizeCommitted, totalEvents, importedBy, removed, offset,
                 statusVars, queue>>

\* deleteSegment: the file, if it is there, and then the row.
deleteSegment ==
  /\ cleaner = "segment" /\ Policy = "delete" /\ eligible # {}
  /\ cleaner' = "mark"
  /\ Remove(Current)
  /\ UNCHANGED <<stop, processed, pending, eligible, archive,
                 copyErrors, cleanerCrashes>>

\* archiveAndDeleteSegment: an archive file of an earlier attempt is removed,
\* the segment is copied, the segment is removed, and then the row is marked.
removeOldArchive ==
  /\ cleaner = "segment" /\ Policy = "archive" /\ eligible # {}
  /\ Current \in exists
  /\ archive' = [archive EXCEPT ![Current] = "none"]
  /\ cleaner' = "copy"
  /\ UNCHANGED <<segmentVars, stop, processed, pending, eligible,
                 copyErrors, cleanerCrashes>>

\* ArchiveProcessedSegments returns no segments together with an error, and
\* runArchivePolicy looks at the stop signal and the (then empty) lists before
\* it looks at the error.
ErrorOutcome == IF stop THEN "complete" ELSE "failed"

\* The segment is gone already: it must be in the archive directory.
checkArchived ==
  /\ cleaner = "segment" /\ Policy = "archive" /\ eligible # {}
  /\ Current \notin exists
  /\ cleaner' = IF archive[Current] # "none" THEN "mark" ELSE ErrorOutcome
  /\ UNCHANGED <<segmentVars, stop, processed, pending, eligible, archive, copyErrors, cleanerCrashes>>

\* Mutant: a short copy goes unnoticed.
CopyFile_Short ==
  /\ cleaner = "copy"
  /\ archive' = [archive EXCEPT ![Current] = "partial"]
  /\ cleaner' = "copied"
  /\ UNCHANGED <<segmentVars, stop, processed, pending, eligible, copyErrors,
                 cleanerCrashes>>

CopyFile ==
  /\ cleaner = "copy"
  /\ \/ /\ archive[Current] = "none"
        /\ archive' = [archive EXCEPT ![Current] = "partial"]
        /\ UNCHANGED cleaner
     \/ /\ archive[Current] = "partial"
        /\ archive' = [archive EXCEPT ![Current] = "full"]
        /\ cleaner' = "copied"
  /\ UNCHANGED <<segmentVars, stop, processed, pending, eligible,
                 copyErrors, cleanerCrashes>>

removeAfterCopy ==
  /\ cleaner = "copied"
  /\ cleaner' = "mark"
  /\ Remove(Current)
  /\ UNCHANGED <<stop, processed, pending, eligible, archive,
                 copyErrors, cleanerCrashes>>

\* MarkSegmentDeletedAndArchived, ArchiveAndDeleteSegment.
markSegment ==
  /\ cleaner = "mark"
  /\ removed' = removed \cup {Current}
  /\ eligible' = eligible \ {Current}
  /\ cleaner' = "segment"
  /\ UNCHANGED <<rows, sizeCommitted, totalEvents, importedBy, file, exists,
                 offset, statusVars, queue, stop,
                 processed, pending, archive, copyErrors,
                 cleanerCrashes>>

\* The iteration ends.  After the stop signal, an iteration that found
\* nothing to do is the last one.
endIteration ==
  /\ cleaner = "segment" /\ eligible = {}
  /\ cleaner' = IF stop /\ processed = {} /\ pending = {}
                THEN "complete" ELSE "tick"
  /\ UNCHANGED <<segmentVars, stop, processed, pending, eligible, archive, copyErrors, cleanerCrashes>>

\* The copy fails, for lack of space say.
copyError ==
  /\ cleaner = "copy" /\ copyErrors < CopyErrors
  /\ copyErrors' = copyErrors + 1
  /\ cleaner' = ErrorOutcome
  /\ processed' = {} /\ pending' = {} /\ eligible' = {}
  /\ UNCHANGED <<segmentVars, stop, archive, cleanerCrashes>>

cleanerCrash ==
  /\ cleaner \notin {"down", "complete", "failed"}
  /\ cleanerCrashes < MaxCleanerCrashes
  /\ cleanerCrashes' = cleanerCrashes + 1
  /\ cleaner' = "down"
  /\ UNCHANGED <<segmentVars, stop, processed, pending, eligible, archive, copyErrors>>

\* The command is started again after a crash or an error; the new process
\* has not been told to stop yet.
cleanerRestart ==
  /\ cleaner \in {"down", "failed"}
  /\ cleaner' = "tick" /\ stop' = FALSE
  /\ UNCHANGED <<segmentVars, processed, pending, eligible, archive,
                 copyErrors, cleanerCrashes>>

CleanerStep ==
  \/ GetProcessedAndPendingSegments
  \/ deleteSegment \/ removeOldArchive \/ checkArchived \/ CopyFile
  \/ removeAfterCopy \/ markSegment \/ endIteration \/ cleanerRestart

CleanerNext == CleanerStep \/ SignalStop \/ copyError \/ cleanerCrash
=============================================================================
