-------------------------- MODULE FileBatchProducer --------------------------
(* The batches of a data file: what is kept of them on disk, and the        *)
(* goroutine that splits the file into them.                                *)
EXTENDS Integers, FiniteSets, FiniteSetsExt

-----------------------------------------------------------------------------
(* The snapshot of one table, as a data file split into batches, and what  *)
(* import data keeps of it on disk: one file per batch, whose name holds   *)
(* the batch number, the line where the next batch starts and the state of *)
(* the batch, and the files of rows that could not be processed.           *)
(* Restarting is only reading these names back.                            *)

CONSTANTS
  Tasks,            \* data files with the options of the command, one of which is imported
  MaxBatchNumber    \* bound on batch numbers

VARIABLES
  task,             \* the file and the options, the same on every start
  batchFiles,       \* batch number -> the batch file, or NoBatch
  errorFiles        \* processing-errors files: which batch number, which lines

stateVars == <<batchFiles, errorFiles>>

NumLines == task.numLines     \* records of the data file
BadLines == task.badLines     \* records that cannot be processed (too large, not convertible)
BigLines == task.bigLines     \* records that with the header exceed MaxBatchSizeInBytes

Lines == 1 .. NumLines
GoodLines == Lines \ BadLines

ASSUME FileAssumption ==
  /\ \A t \in Tasks : /\ t.numLines \in Nat \ {0}
                      /\ t.badLines \subseteq 1 .. t.numLines
                      /\ t.bigLines \subseteq (1 .. t.numLines) \ t.badLines
  /\ MaxBatchNumber \in Nat \ {0}

NoBatch == [state |-> "none", lines |-> {}, offsetEnd |-> 0, note |-> "none"]

\* The last batch of a file has this number, whatever its place.
LAST_SPLIT_NUM == 0
BatchNumbers == 0 .. MaxBatchNumber

Batches == {n \in BatchNumbers : batchFiles[n].state # "none"}
InState(s) == {n \in Batches : batchFiles[n].state \in s}
IsInterrupted(n) == batchFiles[n].state = "P"

StateInit ==
  /\ task \in Tasks
  /\ batchFiles = [n \in BatchNumbers |-> NoBatch]
  /\ errorFiles = {}

StateTypeOK ==
  /\ task \in Tasks
  /\ batchFiles \in [BatchNumbers ->
       [state : {"none", "C", "P", "D", "E"}, lines : SUBSET GoodLines,
        offsetEnd : 0 .. NumLines, note : {"none", "error", "partial"}]]
  /\ errorFiles \subseteq [number : BatchNumbers, lines : SUBSET BadLines]

\* The renames that move a batch from one state to the next.
Rename(n, s) == batchFiles' = [batchFiles EXCEPT ![n].state = s]

-----------------------------------------------------------------------------
batchGenerationCompleted == LAST_SPLIT_NUM \in Batches

GetFileImportState ==
  IF InState({"D"}) = Batches /\ batchGenerationCompleted THEN "COMPLETED"
  ELSE IF InState({"D", "E"}) = Batches /\ batchGenerationCompleted
       THEN "COMPLETED_WITH_ERRORS"
  ELSE IF InState({"C"}) = Batches THEN "NOT_STARTED" ELSE "IN_PROGRESS"

\* AllBatchesImported, and the tasks that classifyTasksForImport leaves out.
AllBatchesImported ==
  GetFileImportState \in {"COMPLETED", "COMPLETED_WITH_ERRORS"}

\* What Recover reads back from the names of the batch files.
PendingBatches == InState({"C", "P"})
LastBatchNumber == Max(Batches \cup {0})
LastOffset == Max({batchFiles[n].offsetEnd : n \in Batches} \cup {0})

-----------------------------------------------------------------------------
(* ImportDataStashAndContinueHandler                                       *)

\* The files FinalizeRowProcessingErrorsForBatch removes: those of the number
\* the batch has before the last one is renumbered.
OldErrorFiles(n) == {f \in errorFiles : f.number = n}

\* A file's name holds its batch number and its row count, so the rename
\* replaces a file on which both agree.
SameName(f, g) == f.number = g.number /\ Cardinality(f.lines) = Cardinality(g.lines)

FinalizeRowProcessingErrorsForBatch(n, isLast, bad) ==
  LET f == [number |-> IF isLast THEN LAST_SPLIT_NUM ELSE n, lines |-> bad]
      kept == errorFiles \ OldErrorFiles(n)
  IN  errorFiles' = IF bad = {} THEN errorFiles
                    ELSE {g \in kept : ~SameName(f, g)} \cup {f}

\* The message MarkError appends to the file it has renamed to .E: the error,
\* with PARTIAL_BATCH_ERROR_NOTE when rows of the batch may be in the table.
ErrorMessage(isPartial) == IF isPartial THEN "partial" ELSE "error"

AppendMessage(n, isPartial) ==
  batchFiles' = [batchFiles EXCEPT ![n].note = ErrorMessage(isPartial)]

-----------------------------------------------------------------------------
(* RandomBatchProducer over SequentialFileBatchProducer: a goroutine that  *)
(* hands out the batches left by the previous run, then splits the rest of *)
(* the file.  A line that does not fit is carried over to the next batch;  *)
(* a batch file therefore ends one line before the last line read.         *)

BatchSizes == task.batchSizes       \* values of --batch-size the runs may be started with
StashAndContinue == task.stash      \* the error policy (abort otherwise)
NoTrailingNewline == task.noNewline \* the last record is returned together with io.EOF

VARIABLES
  producer,             \* "off", "next", "finalize" or "finished"
  pendingBatches,       \* batches left by the previous run
  lastBatchNumber, numLinesTaken,
  lineFromPreviousBatch,    \* the carried line, 0 when there is none
  batchSize,            \* batchSizeInNumRows of this run
  produced              \* sequentiallyProducedBatches

producerVars == <<producer, pendingBatches, lastBatchNumber, numLinesTaken,
                  lineFromPreviousBatch, batchSize, produced>>

ASSUME ProducerAssumption ==
  \A t \in Tasks : /\ t.batchSizes \subseteq Nat \ {0} /\ t.batchSizes # {}
                   /\ t.stash \in BOOLEAN /\ t.noNewline \in BOOLEAN

ProducerOff ==
  /\ producer = "off"
  /\ pendingBatches = {} /\ produced = {}
  /\ lastBatchNumber = 0 /\ numLinesTaken = 0 /\ lineFromPreviousBatch = 0
  /\ batchSize = CHOOSE b \in BatchSizes : TRUE

ProducerInit == ProducerOff

ProducerGone ==
  /\ producer' = "off"
  /\ pendingBatches' = {} /\ produced' = {}
  /\ lastBatchNumber' = 0 /\ numLinesTaken' = 0 /\ lineFromPreviousBatch' = 0
  /\ batchSize' = CHOOSE b \in BatchSizes : TRUE

ProducerTypeOK ==
  /\ producer \in {"off", "next", "finalize", "finished"}
  /\ pendingBatches \subseteq BatchNumbers /\ produced \subseteq BatchNumbers
  /\ lastBatchNumber \in BatchNumbers
  /\ numLinesTaken \in 0 .. NumLines
  /\ lineFromPreviousBatch \in {0} \cup GoodLines
  /\ batchSize \in BatchSizes

\* NewSequentialFileBatchProducer: PrepareForFileImport and Recover.
NewFileBatchProducer ==
  /\ producer' = "next"
  /\ pendingBatches' = PendingBatches
  /\ lastBatchNumber' = LastBatchNumber
  /\ numLinesTaken' = LastOffset
  /\ lineFromPreviousBatch' = 0
  /\ batchSize' \in BatchSizes
  /\ produced' = {}

-----------------------------------------------------------------------------
(* produceNextBatch                                                        *)

Carried == {lineFromPreviousBatch} \ {0}

\* The records the batch holds when line c is read.
WrittenBefore(c) == Carried \cup {l \in GoodLines : numLinesTaken < l /\ l < c}

\* Line c is read and not added: the batch has its rows or its bytes.
Overflows(c) ==
  /\ c > numLinesTaken
  /\ Cardinality(WrittenBefore(c)) = batchSize \/ c \in BigLines

StopLines == {c \in GoodLines : Overflows(c)}
isLastBatch == StopLines = {}

\* Mutant: the offset counts the line that is carried over.
OffsetEnd_Carried == IF isLastBatch THEN NumLines ELSE Min(StopLines)

BatchLines == WrittenBefore(IF isLastBatch THEN NumLines + 1 ELSE Min(StopLines))
\* The line of the file where the next batch starts.
OffsetEnd == IF isLastBatch THEN NumLines ELSE Min(StopLines) - 1

BadLinesRead ==
  {l \in BadLines : numLinesTaken < l /\ (isLastBatch \/ l < Min(StopLines))}

\* A record in error returns from produceNextBatch under the abort policy; at
\* the end of a file without a last newline it leaves the loop with io.EOF.
ProductionFails ==
  \/ BadLinesRead # {} /\ ~StashAndContinue
  \/ isLastBatch /\ NoTrailingNewline /\ NumLines \in BadLinesRead

-----------------------------------------------------------------------------
\* Mutant: a batch of the previous run is taken for the end of the file.
ProducerDone_NoPending(pending) == pending = {}

\* Done, once the batches in pending are left to hand out.
ProducerDone(pending) == pending = {} /\ batchGenerationCompleted

\* NextBatch with batches of the previous run, interrupted ones first.
NextPendingBatch ==
  /\ producer = "next"
  /\ \E n \in pendingBatches :
       /\ (\E m \in pendingBatches : IsInterrupted(m)) => IsInterrupted(n)
       /\ pendingBatches' = pendingBatches \ {n}
       /\ produced' = produced \cup {n}
       /\ producer' = IF ProducerDone(pendingBatches \ {n}) THEN "finished" ELSE "next"
  /\ UNCHANGED <<stateVars, lastBatchNumber, numLinesTaken, lineFromPreviousBatch, batchSize>>

\* The rows in error are stored before the batch is.
FinalizeErrors ==
  /\ producer = "next" /\ pendingBatches = {} /\ ~ProductionFails
  /\ isLastBatch \/ lastBatchNumber < MaxBatchNumber
  /\ FinalizeRowProcessingErrorsForBatch(lastBatchNumber + 1, isLastBatch, BadLinesRead)
  /\ producer' = "finalize"
  /\ UNCHANGED <<batchFiles, pendingBatches, lastBatchNumber, numLinesTaken,
                 lineFromPreviousBatch, batchSize, produced>>

\* BatchWriter.Done: the rename creates the batch, and it is handed out.
FinalizeBatch ==
  /\ producer = "finalize"
  /\ LET n == IF isLastBatch THEN LAST_SPLIT_NUM ELSE lastBatchNumber + 1
     IN  /\ batchFiles' = [batchFiles EXCEPT ![n] =
                [state |-> "C", lines |-> BatchLines,
                 offsetEnd |-> OffsetEnd, note |-> "none"]]
         /\ produced' = produced \cup {n}
  /\ lastBatchNumber' = IF isLastBatch THEN lastBatchNumber ELSE lastBatchNumber + 1
  /\ numLinesTaken' = IF isLastBatch THEN NumLines ELSE Min(StopLines)
  /\ lineFromPreviousBatch' = IF isLastBatch THEN 0 ELSE Min(StopLines)
  /\ producer' = IF isLastBatch THEN "finished" ELSE "next"
  /\ UNCHANGED <<errorFiles, pendingBatches, batchSize>>

ProducerNext == NextPendingBatch \/ FinalizeErrors \/ FinalizeBatch
=============================================================================
