---------------------------- MODULE SnapshotImport ----------------------------
(***************************************************************************)
(* The import of one data file into YugabyteDB: batches taken in random    *)
(* order from the producer's buffer, imported by a pool of workers, each   *)
(* over the transactional COPY path or the fast path with its row by row   *)
(* recovery, with retries, the two error policies, commits whose answer is *)
(* lost, and kills of the process at any step.                             *)
(***************************************************************************)
EXTENDS FileBatchProducer

CONSTANTS
  Workers,              \* goroutines of the batch import pool
  COPY_MAX_RETRY_COUNT,
  MaxErrors, MaxCrashes \* bounds on transient errors and on kills

VARIABLES
  rows,                 \* how often each record is in the target table
  imported,             \* batch numbers in ybvoyager_import_data_batches_metainfo
  inDoubt,              \* batches whose commit failed without an answer
  mode,                 \* the command: "down", "up" or "done"
  worker,               \* what each goroutine of the pool is doing
  errors, crashes

dbVars == <<rows, imported, inDoubt>>
vars == <<task, stateVars, producerVars, dbVars, mode, worker, errors, crashes>>

ASSUME SnapshotAssumption ==
  /\ \A t \in Tasks :
       /\ t.primaryKey \in BOOLEAN /\ t.ignoreConflicts \in BOOLEAN
       /\ t.lateLanding \in BOOLEAN
       /\ t.existing \cup t.poison \subseteq (1 .. t.numLines) \ t.badLines
       /\ t.existing # {} => t.primaryKey
  /\ COPY_MAX_RETRY_COUNT \in Nat \ {0}
  /\ MaxErrors \in Nat /\ MaxCrashes \in Nat

HasPrimaryKey == task.primaryKey
IgnoreConflicts == task.ignoreConflicts   \* on-primary-key-conflict is IGNORE
ExistingLines == task.existing   \* records whose primary key is in the table beforehand
PoisonLines == task.poison       \* records the target rejects whatever happens
LateLanding == task.lateLanding  \* a commit in doubt may land after the retry has looked

ShouldUseFastPath == HasPrimaryKey /\ IgnoreConflicts

Idle == [pc |-> "idle", batch |-> 0, attempt |-> 0, recovery |-> FALSE, todo |-> {}]
Busy == {w \in Workers : worker[w].pc # "idle"}

Init ==
  /\ StateInit /\ ProducerInit
  /\ rows = [l \in GoodLines |-> 0]
  /\ imported = {} /\ inDoubt = {}
  /\ mode = "down"
  /\ worker = [w \in Workers |-> Idle]
  /\ errors = 0 /\ crashes = 0

-----------------------------------------------------------------------------
(* The command.                                                            *)

\* classifyTasksForImport: a file that is completed is not imported again.
StartImport ==
  /\ mode = "down"
  /\ IF AllBatchesImported
     THEN mode' = "done" /\ UNCHANGED producerVars
     ELSE mode' = "up" /\ NewFileBatchProducer
  /\ UNCHANGED <<task, stateVars, dbVars, worker, errors, crashes>>

Produce ==
  /\ mode = "up"
  /\ ProducerNext
  /\ UNCHANGED <<task, dbVars, mode, worker, errors, crashes>>

\* ProduceAndSubmitNextBatchToWorkerPool: any batch of the buffer goes to a
\* free goroutine of the pool.
SubmitBatch(w) ==
  /\ mode = "up" /\ worker[w].pc = "idle"
  /\ \E n \in produced :
       /\ produced' = produced \ {n}
       /\ worker' = [worker EXCEPT ![w] = [Idle EXCEPT !.pc = "start", !.batch = n]]
  /\ UNCHANGED <<task, stateVars, producer, pendingBatches, lastBatchNumber, numLinesTaken,
                 lineFromPreviousBatch, batchSize, dbVars, mode, errors, crashes>>

AllBatchesSubmitted == producer = "finished" /\ produced = {}

\* The loop over the task picker sleeps and looks again.
WaitForBatches ==
  /\ mode = "up" /\ produced = {}
  /\ ~(AllBatchesSubmitted /\ AllBatchesImported)
  /\ UNCHANGED vars

\* PostProcess and MarkTaskAsDone, once every batch file is .D or .E.
FinishTask ==
  /\ mode = "up" /\ AllBatchesSubmitted /\ AllBatchesImported
  /\ mode' = "done"
  /\ ProducerGone
  /\ UNCHANGED <<task, stateVars, dbVars, worker, errors, crashes>>

\* The process ends, with everything it had in memory.
ProcessGone ==
  /\ mode' = "down"
  /\ ProducerGone
  /\ worker' = [w \in Workers |-> Idle]
  /\ UNCHANGED <<task, stateVars, dbVars>>

\* utils.ErrExit in the producer's goroutine.
ProducerExit ==
  /\ mode = "up" /\ producer = "next" /\ pendingBatches = {} /\ ProductionFails
  /\ ProcessGone
  /\ UNCHANGED <<errors, crashes>>

Crash ==
  /\ mode = "up" /\ crashes < MaxCrashes
  /\ crashes' = crashes + 1
  /\ ProcessGone
  /\ UNCHANGED errors

-----------------------------------------------------------------------------
(* importBatch                                                             *)

Batch(w) == worker[w].batch
LinesOf(n) == batchFiles[n].lines
At(w, pc) == mode = "up" /\ worker[w].pc = pc
Go(w, pc) == worker' = [worker EXCEPT ![w].pc = pc]
InMemory == <<task, producerVars, mode, crashes>>
Transient == errors < MaxErrors /\ errors' = errors + 1

isRecoveryCandidate(w) == worker[w].recovery \/ worker[w].attempt > 0

\* The batch is renamed to .P, unless the previous run did; an empty one is done.
MarkInProgress(w) ==
  /\ At(w, "start")
  /\ LET n == Batch(w) IN
     /\ Rename(n, "P")
     /\ worker' = [worker EXCEPT
          ![w].recovery = IsInterrupted(n),
          ![w].pc = IF LinesOf(n) = {} THEN "markDone" ELSE "check"]
  /\ UNCHANGED <<errorFiles, dbVars, InMemory, errors>>

\* The loop over the attempts.
AfterError(w) ==
  IF worker[w].attempt + 1 < COPY_MAX_RETRY_COUNT THEN "check" ELSE "failed"

Retry(w) ==
  /\ Transient
  /\ worker' = [worker EXCEPT ![w].pc = AfterError(w), ![w].attempt = @ + 1, ![w].todo = {}]
  /\ UNCHANGED <<stateVars, InMemory>>

isBatchAlreadyImported(n) == n \in imported

CopyPath(w) ==
  IF ~ShouldUseFastPath THEN "copy"
  ELSE IF isRecoveryCandidate(w) THEN "recover" ELSE "fastCopy"

\* isBatchAlreadyImported, at the start of every path.
CheckAlreadyImported(w) ==
  /\ At(w, "check")
  /\ LateLanding \/ Batch(w) \notin inDoubt
  /\ worker' = [worker EXCEPT
       ![w].pc = IF isBatchAlreadyImported(Batch(w)) THEN "markDone" ELSE CopyPath(w),
       ![w].todo = LinesOf(Batch(w))]
  /\ UNCHANGED <<stateVars, dbVars, InMemory, errors>>

CheckFails(w) == At(w, "check") /\ Retry(w) /\ UNCHANGED dbVars

\* Records the table refuses because of their primary key.
Conflicting(n) ==
  {l \in LinesOf(n) : HasPrimaryKey /\ (l \in ExistingLines \/ rows[l] > 0)}
Rejected(n) == LinesOf(n) \cap PoisonLines
Accepted(n) == LinesOf(n) \ (Conflicting(n) \cup Rejected(n))
Added(S) == [l \in GoodLines |-> IF l \in S THEN rows[l] + 1 ELSE rows[l]]

\* COPY and recordEntryInDB in one transaction.
Commit(n) == rows' = Added(LinesOf(n)) /\ imported' = imported \cup {n}

\* Mutant: nothing keeps a batch from being recorded twice.
CanCommit_NoKey(n) == Conflicting(n) \cup Rejected(n) = {}

\* The commit passes the constraints of the table and the primary key of
\* ybvoyager_import_data_batches_metainfo.
CanCommit(n) == Conflicting(n) \cup Rejected(n) = {} /\ n \notin imported

Copy(w) ==
  /\ At(w, "copy") /\ CanCommit(Batch(w))
  /\ Commit(Batch(w))
  /\ Go(w, "markDone")
  /\ UNCHANGED <<stateVars, inDoubt, InMemory, errors>>

\* IsNonRetryableCopyError: a constraint, also the one of the metadata table.
CopyRejected(w) ==
  /\ At(w, "copy") /\ ~CanCommit(Batch(w))
  /\ Go(w, "failed")
  /\ UNCHANGED <<stateVars, dbVars, InMemory, errors>>

CopyError(w) ==
  /\ At(w, "copy") /\ Retry(w)
  /\ \/ UNCHANGED inDoubt
     \/ CanCommit(Batch(w)) /\ inDoubt' = inDoubt \cup {Batch(w)}
  /\ UNCHANGED <<rows, imported>>

\* The target settles a commit whose answer was lost.
CommitLands(n) ==
  /\ n \in inDoubt /\ CanCommit(n)
  /\ Commit(n)
  /\ inDoubt' = inDoubt \ {n}
  /\ UNCHANGED <<task, stateVars, producerVars, mode, worker, errors, crashes>>

CommitAborts(n) ==
  /\ n \in inDoubt
  /\ inDoubt' = inDoubt \ {n}
  /\ UNCHANGED <<task, stateVars, producerVars, rows, imported, mode, worker, errors, crashes>>

-----------------------------------------------------------------------------
(* The fast path: COPY outside a transaction.                              *)

FastCopy(w) ==
  /\ At(w, "fastCopy") /\ Accepted(Batch(w)) = LinesOf(Batch(w))
  /\ rows' = Added(LinesOf(Batch(w)))
  /\ Go(w, "record")
  /\ UNCHANGED <<stateVars, imported, inDoubt, InMemory, errors>>

\* A COPY that fails leaves any of the rows it can insert behind.
FastCopyStops(w) ==
  /\ At(w, "fastCopy")
  /\ \E S \in SUBSET Accepted(Batch(w)) : rows' = Added(S)
  /\ \/ /\ Conflicting(Batch(w)) # {}      \* checkIfPrimaryKeyViolationError
        /\ Go(w, IF isBatchAlreadyImported(Batch(w)) THEN "markDone" ELSE "recover")
        /\ UNCHANGED <<stateVars, InMemory, errors>>
     \/ /\ Rejected(Batch(w)) # {}
        /\ Go(w, "failed")
        /\ UNCHANGED <<stateVars, InMemory, errors>>
     \/ Retry(w)
  /\ UNCHANGED <<imported, inDoubt>>

NextLine(w) == Min(worker[w].todo)

\* Mutant: any failure of a row is taken for a primary key conflict.
IgnoredRow_Any(n, l) == l \in Conflicting(n) \cup Rejected(n)

IgnoredRow(n, l) == l \in Conflicting(n)

\* importBatchFastRecover: one COPY per row, conflicts are ignored.
RecoverRow(w) ==
  /\ At(w, "recover") /\ worker[w].todo # {}
  /\ LET n == Batch(w)
         l == NextLine(w)
     IN  IF IgnoredRow(n, l) \/ l \in Accepted(n)
         THEN /\ rows' = IF l \in Accepted(n) THEN Added({l}) ELSE rows
              /\ worker' = [worker EXCEPT ![w].todo = @ \ {l}]
         ELSE Go(w, "failed") /\ UNCHANGED rows
  /\ UNCHANGED <<stateVars, imported, inDoubt, InMemory, errors>>

RecoverRowError(w) ==
  /\ At(w, "recover") /\ worker[w].todo # {}
  /\ Retry(w)
  /\ rows' \in {rows, Added({NextLine(w)} \cap Accepted(Batch(w)))}
  /\ UNCHANGED <<imported, inDoubt>>

RecoverEnds(w) ==
  /\ At(w, "recover") /\ worker[w].todo = {}
  /\ Go(w, "record")
  /\ UNCHANGED <<stateVars, dbVars, InMemory, errors>>

recordEntryInDB(w) ==
  /\ At(w, "record")
  /\ imported' = imported \cup {Batch(w)}
  /\ Go(w, "markDone")
  /\ UNCHANGED <<stateVars, rows, inDoubt, InMemory, errors>>

\* The entry may have been written although the answer is an error.
RecordError(w) ==
  /\ At(w, "record") /\ Retry(w)
  /\ imported' \in {imported, imported \cup {Batch(w)}}
  /\ UNCHANGED <<rows, inDoubt>>

-----------------------------------------------------------------------------
MarkDone(w) ==
  /\ At(w, "markDone")
  /\ Rename(Batch(w), "D")
  /\ worker' = [worker EXCEPT ![w] = Idle]
  /\ UNCHANGED <<errorFiles, dbVars, InMemory, errors>>

\* HandleBatchIngestionError: stash-and-continue keeps the batch file as .E ...
HandleBatchIngestionError(w) ==
  /\ At(w, "failed") /\ StashAndContinue
  /\ Rename(Batch(w), "E")
  /\ Go(w, "message")
  /\ UNCHANGED <<errorFiles, dbVars, InMemory, errors>>

\* ... and then appends the message.  The task may be over by then.
AppendErrorMessage(w) ==
  /\ mode # "down" /\ worker[w].pc = "message"
  /\ AppendMessage(Batch(w), ShouldUseFastPath)
  /\ worker' = [worker EXCEPT ![w] = Idle]
  /\ UNCHANGED <<errorFiles, dbVars, InMemory, errors>>

\* Nothing waits for the pool at the end of the command.
ExitEarly ==
  /\ mode = "done" /\ Busy # {}
  /\ worker' = [w \in Workers |-> Idle]
  /\ UNCHANGED <<stateVars, dbVars, InMemory, errors>>

\* The abort policy ends the command.
AbortOnError(w) ==
  /\ At(w, "failed") /\ ~StashAndContinue
  /\ ProcessGone
  /\ UNCHANGED <<errors, crashes>>

ImportBatch(w) ==
  \/ MarkInProgress(w) \/ CheckAlreadyImported(w) \/ CheckFails(w)
  \/ Copy(w) \/ CopyRejected(w) \/ CopyError(w)
  \/ FastCopy(w) \/ FastCopyStops(w)
  \/ RecoverRow(w) \/ RecoverRowError(w) \/ RecoverEnds(w)
  \/ recordEntryInDB(w) \/ RecordError(w)
  \/ MarkDone(w) \/ HandleBatchIngestionError(w) \/ AppendErrorMessage(w)
  \/ AbortOnError(w)

Finished == mode = "done" /\ Busy = {} /\ inDoubt = {} /\ UNCHANGED vars

Next ==
  \/ StartImport \/ Produce \/ WaitForBatches \/ FinishTask \/ ProducerExit \/ Crash \/ ExitEarly
  \/ \E w \in Workers : SubmitBatch(w) \/ ImportBatch(w)
  \/ \E n \in BatchNumbers : CommitLands(n) \/ CommitAborts(n)
  \/ Finished

Spec == Init /\ [][Next]_vars

\* The command is started again, its goroutines run, and the target settles
\* every commit; nothing forces an error or a kill.
Fairness ==
  /\ WF_vars(StartImport) /\ WF_vars(Produce) /\ WF_vars(FinishTask) /\ WF_vars(ProducerExit)
  /\ \A w \in Workers : WF_vars(SubmitBatch(w)) /\ WF_vars(ImportBatch(w))
  /\ \A n \in BatchNumbers : WF_vars(CommitLands(n) \/ CommitAborts(n))

FairSpec == Spec /\ Fairness

-----------------------------------------------------------------------------
Pc == {"idle", "start", "check", "copy", "fastCopy", "recover", "record",
       "markDone", "failed", "message"}

\* The types of the variables.
TypeOK ==
  /\ StateTypeOK /\ ProducerTypeOK
  /\ rows \in [GoodLines -> 0 .. MaxErrors + MaxCrashes + 1]
  /\ imported \subseteq BatchNumbers /\ inDoubt \subseteq BatchNumbers
  /\ mode \in {"down", "up", "done"}
  /\ worker \in [Workers -> [pc : Pc, batch : BatchNumbers,
       attempt : 0 .. COPY_MAX_RETRY_COUNT, recovery : BOOLEAN, todo : SUBSET GoodLines]]
  /\ errors \in 0 .. MaxErrors /\ crashes \in 0 .. MaxCrashes

\* No record is imported twice, whatever is retried, resumed or in doubt, even
\* when no primary key would refuse it: importBatch writes the rows and the
\* entry of the batch in one transaction, and looks the entry up first.
NoDuplicateRows == \A l \in GoodLines : rows[l] <= 1

\* Up to the line where the splitting of the file resumes, every record is in
\* exactly one batch file, or is stashed in a file of processing errors; beyond
\* it no record is in a batch.  LastOffset is all that a restart knows.
FileAccounted ==
  \A l \in Lines :
    LET holders == {n \in Batches : l \in LinesOf(n)}
    IN  IF l > LastOffset THEN holders = {}
        ELSE IF l \in BadLines THEN \E f \in errorFiles : l \in f.lines
        ELSE Cardinality(holders) = 1

\* The names of the files tell the truth, which is all a restart and the user go by.
\* Every record of a batch marked .D is in the table, imported once or already there
\* when conflicts are ignored.  When the file is reported completed every record has
\* been dealt with: imported, ignored, kept in a .E batch, or stashed.  And on the
\* fast path a .E batch whose message lacks PARTIAL_BATCH_ERROR_NOTE has put nothing
\* in the table (on the transactional path a commit in doubt may still land).
StatesTellTruth ==
  LET InTable(l) == rows[l] = 1 \/ (IgnoreConflicts /\ l \in ExistingLines)
  IN  /\ \A n \in InState({"D"}) : \A l \in LinesOf(n) : InTable(l)
      /\ AllBatchesImported =>
           /\ \A l \in GoodLines : InTable(l) \/ \E n \in InState({"E"}) : l \in LinesOf(n)
           /\ \A l \in BadLines : \E f \in errorFiles : l \in f.lines
      /\ ShouldUseFastPath => \A n \in InState({"E"}) :
           batchFiles[n].note = "error" => \A l \in LinesOf(n) : rows[l] = 0

\* Under stash-and-continue the import of the file ends, whatever records are
\* in error or rejected, with retries and after a restart.
ImportEnds == StashAndContinue ~> mode = "done"
=============================================================================
