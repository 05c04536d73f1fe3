------------------------ MODULE SnapshotImportProofs ------------------------
(***************************************************************************)
(* SnapshotImport for every file, batch size, pool of workers and bound on *)
(* errors and kills: no record is imported twice, every record up to the   *)
(* offset of the last batch file is in one batch or stashed, and the       *)
(* states in the names of the batch files tell the truth.                  *)
(*                                                                         *)
(* The inductive invariant says where the producer stands in the file      *)
(* relative to the batch files (InvBatches, InvErrorFiles, InvSplitting),  *)
(* who holds a batch and in which state its file is then (InvHanding), and *)
(* what of it is in the table (InvImporting).                              *)
(***************************************************************************)
EXTENDS SnapshotImport, WellFoundedInduction, FiniteSetTheorems, TLAPS

\* Batches do not overlap, and every record up to LastOffset is in one of them.
InvBatches ==
  /\ \A n \in Batches : \A l \in LinesOf(n) : l <= LastOffset
  /\ \A m, n \in Batches : m # n => LinesOf(m) \cap LinesOf(n) = {}
  /\ \A l \in GoodLines : l <= LastOffset => \E n \in Batches : l \in LinesOf(n)
  /\ batchGenerationCompleted => LastOffset = NumLines

\* Before the last batch is made, the next one can only replace files of
\* processing errors with a number that no batch has.
InvErrorFiles ==
  \A l \in BadLines : l <= LastOffset =>
    \E f \in errorFiles :
      /\ l \in f.lines
      /\ batchGenerationCompleted \/ f.number \in 1 .. LastBatchNumber

\* The producer stands where the batch files end, or one carried line behind.
InvSplitting ==
  /\ producer \in {"next", "finalize"} =>
       /\ lastBatchNumber = LastBatchNumber
       /\ \/ lineFromPreviousBatch = 0 /\ numLinesTaken = LastOffset
          \/ lineFromPreviousBatch = numLinesTaken /\ numLinesTaken = LastOffset + 1
       /\ batchGenerationCompleted => pendingBatches # {}
  /\ producer = "finalize" =>
       /\ pendingBatches = {}
       /\ isLastBatch \/ lastBatchNumber < MaxBatchNumber
       /\ \A l \in BadLinesRead : \E f \in errorFiles :
            /\ l \in f.lines
            /\ isLastBatch \/ f.number = lastBatchNumber + 1

\* The states of the batch file of a worker, by what the worker is doing.
StatesAt(pc) ==
  IF pc = "start" THEN {"C", "P"} ELSE IF pc = "message" THEN {"E"} ELSE {"P"}

\* What a worker has in hand, no other worker has.
HoldsAlone(w) ==
  worker[w].pc # "idle" =>
    /\ Batch(w) \in Batches \ (pendingBatches \cup produced)
    /\ batchFiles[Batch(w)].state \in StatesAt(worker[w].pc)
    /\ \A v \in Workers \ {w} : worker[v].pc # "idle" => Batch(v) # Batch(w)

\* A batch that is not done is with one worker or in one of the two buffers.
InvHanding ==
  /\ pendingBatches \cup produced \subseteq PendingBatches
  /\ pendingBatches \cap produced = {}
  /\ \A w \in Workers : HoldsAlone(w)
  /\ mode # "up" => producer = "off"
  /\ mode = "down" => \A w \in Workers : worker[w] = Idle
  /\ mode = "done" => \A w \in Workers : worker[w].pc \in {"idle", "message"}
  /\ producer = "off" => pendingBatches = {} /\ produced = {}

\* A record is in the table: imported, or there before and to be left alone.
InTable(l) == rows[l] = 1 \/ (IgnoreConflicts /\ l \in ExistingLines)
BatchInTable(n) == \A l \in LinesOf(n) : InTable(l)

\* How far a worker has come with its batch.
Progress(w) ==
  /\ worker[w].pc = "copy" => ~ShouldUseFastPath
  /\ worker[w].pc \in {"fastCopy", "recover", "record"} => ShouldUseFastPath
  /\ worker[w].pc \in {"record", "markDone"} => BatchInTable(Batch(w))
  /\ worker[w].pc \in {"fastCopy", "recover"} =>
       /\ worker[w].todo \subseteq LinesOf(Batch(w))
       /\ \A l \in LinesOf(Batch(w)) \ worker[w].todo : InTable(l)
  /\ worker[w].pc \in {"start", "check", "copy", "fastCopy", "recover", "record"} =>
       worker[w].attempt < COPY_MAX_RETRY_COUNT

\* The transactional path: a record is in the table only when its batch is
\* recorded.  Both paths: a batch recorded or done is in the table.
InvImporting ==
  /\ rows \in [GoodLines -> {0, 1}]
  /\ imported \cup inDoubt \subseteq Batches
  /\ ~ShouldUseFastPath => \A l \in GoodLines :
       rows[l] = 1 => \E n \in imported : l \in LinesOf(n)
  /\ ShouldUseFastPath => inDoubt = {}
  /\ \A n \in imported \cup InState({"D"}) : BatchInTable(n)
  /\ \A w \in Workers : Progress(w)
  /\ ShouldUseFastPath => \A n \in Batches : batchFiles[n].note # "error"

IInv ==
  /\ TypeOK
  /\ InvBatches /\ InvErrorFiles /\ InvSplitting
  /\ InvHanding /\ InvImporting

-----------------------------------------------------------------------------
(* Minima, maxima, and what the names of the batch files say.              *)

\* A set of natural numbers has a smallest element.
LEMMA MinOfNats ==
  ASSUME NEW S \in SUBSET Nat, S # {}
  PROVE  Min(S) \in S /\ \A y \in S : Min(S) <= y
<1>1. \E x \in S : \A y \in S : ~(<<y, x>> \in OpToRel(<, Nat))
  BY WFMin, NatLessThanWellFounded, Zenon
<1>2. PICK x \in S : \A y \in S : ~(<<y, x>> \in OpToRel(<, Nat))
  BY <1>1, Zenon
<1>3. \A y \in S : ~(y < x)
  BY <1>2, Zenon DEF OpToRel
<1>4. \A y \in S : x <= y
  BY <1>3
<1> QED
  BY <1>4 DEF Min

\* A bounded set of natural numbers has a largest element.
LEMMA MaxOfBounded ==
  ASSUME NEW N \in Nat, NEW S \in SUBSET (0 .. N), S # {}
  PROVE  Max(S) \in S /\ \A y \in S : y <= Max(S)
<1> DEFINE R == {N - x : x \in S}
<1>1. \A x \in S : x \in Int /\ N - x \in Nat
  OBVIOUS
<1>2. R \in SUBSET Nat /\ R # {}
  BY <1>1
<1>3. Min(R) \in R /\ \A y \in R : Min(R) <= y
  BY <1>2, MinOfNats
<1>4. PICK x \in S : Min(R) = N - x
  BY <1>3
<1>5. ASSUME NEW y \in S PROVE x >= y
  <2>1. N - y \in R
    OBVIOUS
  <2>2. N - x <= N - y
    BY <1>3, <1>4, <2>1
  <2> QED
    BY <1>1, <2>2
<1> QED
  BY <1>5 DEF Max

\* What the assumptions say of the file.
LEMMA TaskFacts ==
  ASSUME task \in Tasks
  PROVE  /\ NumLines \in Nat \ {0} /\ BadLines \subseteq Lines
         /\ BigLines \subseteq GoodLines /\ GoodLines \subseteq Nat
         /\ MaxBatchNumber \in Nat \ {0} /\ BatchNumbers \subseteq Nat
         /\ BatchSizes \subseteq Nat \ {0} /\ (CHOOSE b \in BatchSizes : TRUE) \in BatchSizes
         /\ ExistingLines \subseteq GoodLines
<1>1. task.batchSizes # {} /\ task.batchSizes \subseteq Nat \ {0}
  BY ProducerAssumption
<1>2. /\ task.numLines \in Nat \ {0}
      /\ task.badLines \subseteq 1 .. task.numLines
      /\ task.bigLines \subseteq (1 .. task.numLines) \ task.badLines
      /\ MaxBatchNumber \in Nat \ {0}
  BY FileAssumption
<1>3. task.existing \subseteq (1 .. task.numLines) \ task.badLines
  BY SnapshotAssumption
<1> QED
  BY <1>1, <1>2, <1>3
  DEF NumLines, BadLines, BigLines, Lines, GoodLines, BatchNumbers, BatchSizes, ExistingLines

\* LastOffset and LastBatchNumber are the largest in the names of the files.
LEMMA Largest ==
  ASSUME StateTypeOK
  PROVE  /\ LastOffset \in 0 .. NumLines
         /\ \A n \in Batches : batchFiles[n].offsetEnd <= LastOffset
         /\ LastOffset = 0 \/ \E n \in Batches : batchFiles[n].offsetEnd = LastOffset
         /\ LastBatchNumber \in BatchNumbers
         /\ \A n \in Batches : n <= LastBatchNumber
         /\ LastBatchNumber = 0 \/ LastBatchNumber \in Batches
<1>0. NumLines \in Nat /\ MaxBatchNumber \in Nat
  BY TaskFacts DEF StateTypeOK
<1> DEFINE S == {batchFiles[n].offsetEnd : n \in Batches} \cup {0}
<1>1. \A n \in Batches : batchFiles[n].offsetEnd \in 0 .. NumLines
  BY DEF StateTypeOK, Batches
<1>2. S \in SUBSET (0 .. NumLines) /\ S # {}
  BY <1>0, <1>1
<1>3. Max(S) \in S /\ \A y \in S : y <= Max(S)
  BY <1>0, <1>2, MaxOfBounded
<1>4. Batches \cup {0} \in SUBSET (0 .. MaxBatchNumber) /\ Batches \cup {0} # {}
  BY <1>0 DEF Batches, BatchNumbers
<1>5. Max(Batches \cup {0}) \in Batches \cup {0} /\ \A y \in Batches \cup {0} : y <= Max(Batches \cup {0})
  BY <1>0, <1>4, MaxOfBounded
<1>6. Max(S) = LastOffset
  BY DEF LastOffset
<1> HIDE DEF S
<1>7. LastOffset \in S /\ \A y \in S : y <= LastOffset
  BY <1>3, <1>6
<1> USE DEF S
<1>8. /\ LastOffset \in 0 .. NumLines
      /\ \A n \in Batches : batchFiles[n].offsetEnd <= LastOffset
      /\ LastOffset = 0 \/ \E n \in Batches : batchFiles[n].offsetEnd = LastOffset
  BY <1>2, <1>7
<1> QED
  BY <1>4, <1>5, <1>8 DEF LastBatchNumber, BatchNumbers

-----------------------------------------------------------------------------
(* Steps that create no batch: the split of the file stays what it is.     *)

SameSplit ==
  /\ task' = task /\ errorFiles' = errorFiles
  /\ Batches' = Batches
  /\ \A n \in BatchNumbers :
       /\ batchFiles'[n].lines = batchFiles[n].lines
       /\ batchFiles'[n].offsetEnd = batchFiles[n].offsetEnd

\* What depends on the task alone.
LEMMA SameTask ==
  ASSUME task' = task
  PROVE  /\ NumLines' = NumLines /\ BadLines' = BadLines /\ BigLines' = BigLines
         /\ GoodLines' = GoodLines /\ BatchSizes' = BatchSizes /\ ExistingLines' = ExistingLines
         /\ PoisonLines' = PoisonLines /\ NoTrailingNewline' = NoTrailingNewline
         /\ StashAndContinue' = StashAndContinue /\ IgnoreConflicts' = IgnoreConflicts
         /\ ShouldUseFastPath' = ShouldUseFastPath
  BY DEF NumLines, BadLines, BigLines, Lines, GoodLines, BatchSizes, ExistingLines, PoisonLines,
         NoTrailingNewline, StashAndContinue, IgnoreConflicts, ShouldUseFastPath, HasPrimaryKey

\* What the names of the batch files say stays the same.
LEMMA SplitKept ==
  ASSUME SameSplit, InvBatches, InvErrorFiles
  PROVE  /\ LastOffset' = LastOffset /\ LastBatchNumber' = LastBatchNumber
         /\ \A n \in Batches : LinesOf(n)' = LinesOf(n)
         /\ batchGenerationCompleted' = batchGenerationCompleted
         /\ InvBatches' /\ InvErrorFiles'
<1>1. /\ NumLines' = NumLines /\ BadLines' = BadLines /\ GoodLines' = GoodLines
  BY SameTask DEF SameSplit
<1>2. Batches \subseteq BatchNumbers
  BY DEF Batches
<1>3. {batchFiles[n].offsetEnd : n \in Batches}' = {batchFiles[n].offsetEnd : n \in Batches}
  BY <1>2 DEF SameSplit
<1>4. LastOffset' = LastOffset
  BY <1>3 DEF LastOffset
<1>5. LastBatchNumber' = LastBatchNumber
  BY DEF SameSplit, LastBatchNumber
<1>6. \A n \in Batches : LinesOf(n)' = LinesOf(n)
  BY <1>2 DEF SameSplit, LinesOf
<1>7. batchGenerationCompleted' = batchGenerationCompleted
  BY DEF SameSplit, batchGenerationCompleted
<1>8. InvBatches'
  BY <1>1, <1>4, <1>6, <1>7 DEF InvBatches, SameSplit
<1>9. InvErrorFiles'
  BY <1>1, <1>4, <1>5, <1>7 DEF InvErrorFiles, SameSplit
<1> QED
  BY <1>4, <1>5, <1>6, <1>7, <1>8, <1>9

\* The producer's place in the file is kept with it.
LEMMA PlaceKept ==
  ASSUME SameSplit, InvBatches, InvErrorFiles, InvSplitting,
         producer' = producer /\ lastBatchNumber' = lastBatchNumber /\ numLinesTaken' = numLinesTaken,
         lineFromPreviousBatch' = lineFromPreviousBatch /\ batchSize' = batchSize,
         pendingBatches' = pendingBatches
  PROVE  InvSplitting'
<1>1. /\ NumLines' = NumLines /\ BadLines' = BadLines /\ GoodLines' = GoodLines /\ BigLines' = BigLines
  BY SameTask DEF SameSplit
<1>2. isLastBatch' = isLastBatch /\ StopLines' = StopLines
  BY <1>1 DEF isLastBatch, StopLines, Overflows, WrittenBefore, Carried
<1>3. BadLinesRead' = BadLinesRead
  BY <1>1, <1>2 DEF BadLinesRead
<1>4. /\ LastOffset' = LastOffset /\ LastBatchNumber' = LastBatchNumber
      /\ batchGenerationCompleted' = batchGenerationCompleted
  BY SplitKept
<1> QED
  BY <1>2, <1>3, <1>4 DEF InvSplitting, SameSplit

\* A rename leaves the split alone.
LEMMA RenameKeeps ==
  ASSUME StateTypeOK, task' = task, errorFiles' = errorFiles,
         NEW n \in Batches, NEW s \in {"C", "P", "D", "E"}, Rename(n, s)
  PROVE  /\ SameSplit /\ StateTypeOK'
         /\ batchFiles'[n].state = s /\ batchFiles'[n].note = batchFiles[n].note
         /\ \A m \in BatchNumbers \ {n} : batchFiles'[m] = batchFiles[m]
<1>1. n \in BatchNumbers
  BY DEF Batches
<1>2. /\ batchFiles'[n] = [batchFiles[n] EXCEPT !.state = s]
      /\ \A m \in BatchNumbers \ {n} : batchFiles'[m] = batchFiles[m]
  BY <1>1 DEF Rename, StateTypeOK
<1>3. StateTypeOK'
  BY <1>1, SameTask DEF StateTypeOK, Rename
<1>4. /\ batchFiles'[n].lines = batchFiles[n].lines /\ batchFiles'[n].offsetEnd = batchFiles[n].offsetEnd
      /\ batchFiles'[n].state = s /\ batchFiles'[n].note = batchFiles[n].note
  BY <1>1, <1>2 DEF StateTypeOK
<1>5. Batches' = Batches
  BY <1>2, <1>4 DEF Batches
<1> QED
  BY <1>2, <1>3, <1>4, <1>5 DEF SameSplit

\* So does the message that is appended to a batch file.
LEMMA MessageKeeps ==
  ASSUME StateTypeOK, task' = task, errorFiles' = errorFiles,
         NEW n \in Batches, NEW partial \in BOOLEAN, AppendMessage(n, partial)
  PROVE  /\ SameSplit /\ StateTypeOK'
         /\ batchFiles'[n].state = batchFiles[n].state /\ batchFiles'[n].note = ErrorMessage(partial)
         /\ \A m \in BatchNumbers \ {n} : batchFiles'[m] = batchFiles[m]
<1>1. n \in BatchNumbers
  BY DEF Batches
<1>2. /\ batchFiles'[n] = [batchFiles[n] EXCEPT !.note = ErrorMessage(partial)]
      /\ \A m \in BatchNumbers \ {n} : batchFiles'[m] = batchFiles[m]
  BY <1>1 DEF AppendMessage, StateTypeOK
<1>3. StateTypeOK'
  BY <1>1, SameTask DEF StateTypeOK, AppendMessage, ErrorMessage
<1>4. /\ batchFiles'[n].lines = batchFiles[n].lines /\ batchFiles'[n].offsetEnd = batchFiles[n].offsetEnd
      /\ batchFiles'[n].state = batchFiles[n].state /\ batchFiles'[n].note = ErrorMessage(partial)
  BY <1>1, <1>2 DEF StateTypeOK
<1>5. Batches' = Batches
  BY <1>2, <1>4 DEF Batches
<1> QED
  BY <1>2, <1>3, <1>4, <1>5 DEF SameSplit

\* And every step that does not touch the files.
LEMMA UntouchedFiles ==
  ASSUME UNCHANGED <<task, batchFiles, errorFiles>>
  PROVE  SameSplit /\ (StateTypeOK => StateTypeOK')
  BY SameTask DEF SameSplit, Batches, StateTypeOK

-----------------------------------------------------------------------------
(* A step of a worker with its batch.                                      *)

WorkerStates ==
  [pc : Pc, batch : BatchNumbers, attempt : 0 .. COPY_MAX_RETRY_COUNT,
   recovery : BOOLEAN, todo : SUBSET GoodLines]

\* The worker gives its batch back, or goes on with it in a state that fits.
LEMMA HandingKept ==
  ASSUME TypeOK, InvHanding, SameSplit, NEW w \in Workers, NEW r \in WorkerStates,
         worker[w].pc # "idle", worker' = [worker EXCEPT ![w] = r],
         UNCHANGED <<producerVars, mode>>,
         mode = "up" \/ (mode # "down" /\ r.pc \in {"idle", "message"}),
         \A m \in BatchNumbers \ {Batch(w)} : batchFiles'[m] = batchFiles[m],
         r.pc # "idle" => r.batch = Batch(w) /\ batchFiles'[Batch(w)].state \in StatesAt(r.pc)
  PROVE  InvHanding'
<1>1. /\ worker'[w] = r /\ \A v \in Workers \ {w} : worker'[v] = worker[v]
      /\ \A v \in Workers : worker[v].batch \in BatchNumbers
  BY DEF TypeOK, WorkerStates
<1>2. /\ Batch(w) \in Batches /\ Batch(w) \notin pendingBatches \cup produced
      /\ \A v \in Workers \ {w} : worker[v].pc # "idle" => Batch(v) # Batch(w)
  BY DEF InvHanding, HoldsAlone
<1>3. /\ Batches' = Batches /\ pendingBatches' = pendingBatches /\ produced' = produced
      /\ producer' = producer /\ mode' = mode
  BY DEF SameSplit, producerVars
<1>4. (pendingBatches \cup produced \subseteq PendingBatches)'
  BY <1>2, <1>3 DEF InvHanding, PendingBatches, InState, Batches
<1>5. ASSUME NEW v \in Workers, worker'[v].pc # "idle"
      PROVE  HoldsAlone(v)'
  <2>1. CASE v = w
    BY <1>1, <1>2, <1>3, <1>5, <2>1 DEF HoldsAlone, Batch
  <2>2. CASE v # w
    <3>1. /\ worker'[v] = worker[v] /\ Batch(v) # Batch(w) /\ Batch(v)' = Batch(v)
          /\ Batch(v) \in Batches \ (pendingBatches \cup produced)
          /\ batchFiles[Batch(v)].state \in StatesAt(worker[v].pc)
          /\ \A u \in Workers \ {v} : worker[u].pc # "idle" => Batch(u) # Batch(v)
      BY <1>1, <1>2, <1>5, <2>2 DEF InvHanding, HoldsAlone, Batch
    <3>2. batchFiles'[Batch(v)] = batchFiles[Batch(v)]
      BY <3>1 DEF Batches
    <3>3. \A u \in Workers \ {v} : worker'[u].pc # "idle" => Batch(u)' # Batch(v)
      BY <1>1, <1>2, <2>2, <3>1 DEF Batch
    <3> QED
      BY <1>3, <3>1, <3>2, <3>3 DEF HoldsAlone
  <2> QED
    BY <2>1, <2>2
<1>6. \A v \in Workers : HoldsAlone(v)'
  BY <1>5 DEF HoldsAlone
<1>7. (mode = "done" => \A v \in Workers : worker[v].pc \in {"idle", "message"})'
  BY <1>1, <1>3 DEF InvHanding
<1> QED
  BY <1>3, <1>4, <1>6, <1>7 DEF InvHanding

\* What is in the table stays there.
LEMMA TableGrows ==
  ASSUME SameSplit, \A l \in GoodLines : rows[l] = 1 => rows'[l] = 1,
         NEW l \in GoodLines, InTable(l)
  PROVE  InTable(l)'
  BY SameTask DEF SameSplit, InTable

\* And so does what a worker that takes no step has achieved.
LEMMA ProgressKept ==
  ASSUME TypeOK, SameSplit, \A l \in GoodLines : rows[l] = 1 => rows'[l] = 1,
         NEW v \in Workers, worker'[v] = worker[v], Progress(v)
  PROVE  Progress(v)'
<1>1. Batch(v)' = Batch(v) /\ Batch(v) \in BatchNumbers
  BY DEF Batch, TypeOK
<1>2. LinesOf(Batch(v))' = LinesOf(Batch(v)) /\ LinesOf(Batch(v)) \subseteq GoodLines
  BY <1>1 DEF SameSplit, LinesOf, TypeOK, StateTypeOK
<1>3. ShouldUseFastPath' = ShouldUseFastPath
  BY SameTask DEF SameSplit
<1>4. \A l \in LinesOf(Batch(v)) : InTable(l) => InTable(l)'
  BY <1>2, TableGrows
<1> QED
  BY <1>1, <1>2, <1>3, <1>4 DEF Progress, BatchInTable

\* A step in which a worker puts records of its batch into the table, records
\* the batch, or moves its file.
LEMMA ImportingKept ==
  ASSUME TypeOK, InvImporting, SameSplit, NEW w \in Workers, NEW r \in WorkerStates,
         Batch(w) \in Batches, worker' = [worker EXCEPT ![w] = r], Progress(w)',
         rows' \in [GoodLines -> {0, 1}], \A l \in GoodLines : rows[l] = 1 => rows'[l] = 1,
         imported \subseteq imported' /\ imported' \subseteq imported \cup {Batch(w)},
         inDoubt' \subseteq inDoubt \cup {Batch(w)}, ShouldUseFastPath => inDoubt' = {},
         ~ShouldUseFastPath => \A l \in GoodLines :
           rows'[l] = 1 => rows[l] = 1 \/ (Batch(w) \in imported' /\ l \in LinesOf(Batch(w))),
         \A m \in BatchNumbers \ {Batch(w)} : batchFiles'[m] = batchFiles[m],
         Batch(w) \in imported' \/ batchFiles'[Batch(w)].state = "D" =>
           \A l \in LinesOf(Batch(w)) : InTable(l)',
         ShouldUseFastPath => batchFiles'[Batch(w)].note # "error"
  PROVE  InvImporting'
<1> DEFINE b == Batch(w)
<1>1. /\ worker'[w] = r /\ \A v \in Workers \ {w} : worker'[v] = worker[v]
  BY DEF TypeOK, WorkerStates
<1>2. ShouldUseFastPath' = ShouldUseFastPath /\ GoodLines' = GoodLines /\ Batches' = Batches
  BY SameTask DEF SameSplit
<1>3. \A n \in Batches : LinesOf(n)' = LinesOf(n) /\ LinesOf(n) \subseteq GoodLines
  BY DEF SameSplit, Batches, LinesOf, TypeOK, StateTypeOK
<1>4. \A v \in Workers : Progress(v)'
  BY <1>1, ProgressKept DEF InvImporting
<1>5. (imported \cup inDoubt \subseteq Batches)'
  BY <1>2 DEF InvImporting
<1>6. (~ShouldUseFastPath => \A l \in GoodLines : rows[l] = 1 => \E n \in imported : l \in LinesOf(n))'
  BY <1>2, <1>3, <1>5 DEF InvImporting
<1>7. ASSUME NEW n \in (imported \cup InState({"D"}))'
      PROVE  \A l \in LinesOf(n)' : InTable(l)'
  <2>1. n \in Batches
    BY <1>2, <1>5 DEF InState
  <2>2. CASE n = b
    BY <1>3, <1>7, <2>1, <2>2 DEF InState
  <2>3. CASE n # b
    <3>1. batchFiles'[n] = batchFiles[n]
      BY <2>1, <2>3 DEF Batches
    <3>2. n \in imported \cup InState({"D"})
      BY <1>2, <1>7, <2>3, <3>1 DEF InState
    <3>3. \A l \in LinesOf(n) : InTable(l)
      BY <3>2 DEF InvImporting, BatchInTable
    <3> QED
      BY <1>3, <2>1, <3>3, TableGrows
  <2> QED
    BY <2>2, <2>3
<1>8. (\A n \in imported \cup InState({"D"}) : BatchInTable(n))'
  BY <1>7 DEF BatchInTable
<1>9. (ShouldUseFastPath => \A n \in Batches : batchFiles[n].note # "error")'
  BY <1>2 DEF InvImporting, Batches
<1> QED
  BY <1>2, <1>4, <1>5, <1>6, <1>8, <1>9 DEF InvImporting

\* A worker keeps the invariant when it keeps to its own batch.
LEMMA WorkerStep ==
  ASSUME IInv, SameSplit, StateTypeOK', UNCHANGED <<producerVars, mode, crashes>>,
         errors' \in 0 .. MaxErrors,
         NEW w \in Workers, NEW r \in WorkerStates,
         worker[w].pc # "idle", worker' = [worker EXCEPT ![w] = r], Progress(w)',
         mode = "up" \/ (mode # "down" /\ r.pc \in {"idle", "message"}),
         \A m \in BatchNumbers \ {Batch(w)} : batchFiles'[m] = batchFiles[m],
         r.pc # "idle" => r.batch = Batch(w) /\ batchFiles'[Batch(w)].state \in StatesAt(r.pc),
         rows' \in [GoodLines -> {0, 1}], \A l \in GoodLines : rows[l] = 1 => rows'[l] = 1,
         imported \subseteq imported' /\ imported' \subseteq imported \cup {Batch(w)},
         inDoubt' \subseteq inDoubt \cup {Batch(w)}, ShouldUseFastPath => inDoubt' = {},
         ~ShouldUseFastPath => \A l \in GoodLines :
           rows'[l] = 1 => rows[l] = 1 \/ (Batch(w) \in imported' /\ l \in LinesOf(Batch(w))),
         Batch(w) \in imported' \/ batchFiles'[Batch(w)].state = "D" =>
           \A l \in LinesOf(Batch(w)) : InTable(l)',
         ShouldUseFastPath => batchFiles'[Batch(w)].note # "error"
  PROVE  IInv'
<1> USE DEF IInv
<1>1. Batch(w) \in Batches
  BY DEF InvHanding, HoldsAlone
<1>2. InvHanding'
  BY HandingKept
<1>3. InvImporting'
  BY <1>1, ImportingKept
<1>4. InvBatches' /\ InvErrorFiles'
  BY SplitKept
<1>5. InvSplitting'
  BY PlaceKept DEF producerVars
<1>6. GoodLines' = GoodLines /\ BatchSizes' = BatchSizes /\ NumLines' = NumLines
  BY SameTask DEF SameSplit
<1>7. worker' \in [Workers -> WorkerStates]'
  BY <1>6 DEF TypeOK, WorkerStates
<1>8. rows' \in [GoodLines -> 0 .. MaxErrors + MaxCrashes + 1]
  BY SnapshotAssumption
<1>9. imported' \subseteq BatchNumbers /\ inDoubt' \subseteq BatchNumbers
  BY <1>1 DEF TypeOK, Batches
<1>10. ProducerTypeOK'
  BY <1>6 DEF TypeOK, ProducerTypeOK, producerVars
<1>11. TypeOK'
  BY <1>6, <1>7, <1>8, <1>9, <1>10 DEF TypeOK, WorkerStates
<1> QED
  BY <1>2, <1>3, <1>4, <1>5, <1>11

\* The common case: the worker only moves.
LEMMA WorkerMoves ==
  ASSUME IInv, UNCHANGED <<task, batchFiles, errorFiles, producerVars, mode, crashes, dbVars>>,
         errors' \in 0 .. MaxErrors, mode = "up",
         NEW w \in Workers, NEW r \in WorkerStates,
         worker[w].pc # "idle", worker' = [worker EXCEPT ![w] = r], Progress(w)',
         r.pc # "idle", r.batch = Batch(w), StatesAt(worker[w].pc) \subseteq StatesAt(r.pc)
  PROVE  IInv'
<1>1. SameSplit /\ StateTypeOK'
  BY UntouchedFiles DEF IInv, TypeOK
<1>2. Batch(w) \in Batches /\ batchFiles[Batch(w)].state \in StatesAt(worker[w].pc)
  BY DEF IInv, InvHanding, HoldsAlone
<1>3. batchFiles[Batch(w)].state # "D"
  BY <1>2 DEF StatesAt
<1>4. Batch(w) \in imported => \A l \in LinesOf(Batch(w)) : InTable(l)'
  <2>1. LinesOf(Batch(w)) \subseteq GoodLines
    BY <1>2 DEF IInv, TypeOK, StateTypeOK, LinesOf, Batches
  <2> QED
    BY <1>1, <2>1, TableGrows DEF IInv, InvImporting, BatchInTable, dbVars
<1> QED
  BY <1>1, <1>2, <1>3, <1>4, WorkerStep DEF IInv, InvImporting, dbVars, TypeOK

-----------------------------------------------------------------------------
(* The actions of a worker.                                                *)

\* What the invariant says of a worker with a batch.
LEMMA AtWork ==
  ASSUME IInv, NEW w \in Workers, worker[w].pc # "idle"
  PROVE  /\ worker[w] \in WorkerStates /\ Batch(w) = worker[w].batch
         /\ Batch(w) \in Batches /\ Batch(w) \in BatchNumbers
         /\ LinesOf(Batch(w)) \subseteq GoodLines
         /\ batchFiles[Batch(w)].state \in StatesAt(worker[w].pc)
         /\ batchFiles[Batch(w)].state # "D"
         /\ Progress(w)
         /\ ShouldUseFastPath => batchFiles[Batch(w)].note # "error"
<1>1. worker[w] \in WorkerStates /\ Batch(w) = worker[w].batch
  BY DEF IInv, TypeOK, WorkerStates, Batch
<1>2. Batch(w) \in Batches /\ batchFiles[Batch(w)].state \in StatesAt(worker[w].pc)
  BY DEF IInv, InvHanding, HoldsAlone
<1>3. Batch(w) \in BatchNumbers /\ LinesOf(Batch(w)) \subseteq GoodLines
  BY <1>2 DEF Batches, LinesOf, IInv, TypeOK, StateTypeOK
<1> QED
  BY <1>1, <1>2, <1>3 DEF StatesAt, IInv, InvImporting

\* A failed attempt: the worker looks again or gives up.
LEMMA RetryMoves ==
  ASSUME IInv, NEW w \in Workers,
         worker[w].pc \in {"check", "copy", "fastCopy", "recover", "record"}, Retry(w)
  PROVE  \E r \in WorkerStates :
           /\ worker' = [worker EXCEPT ![w] = r]
           /\ r.pc \in {"check", "failed"} /\ r.batch = Batch(w)
           /\ r.pc = "check" => r.attempt < COPY_MAX_RETRY_COUNT
           /\ errors' \in 0 .. MaxErrors
<1> DEFINE r == [worker[w] EXCEPT !.pc = AfterError(w), !.attempt = @ + 1, !.todo = {}]
<1>1. worker[w] \in WorkerStates /\ Batch(w) = worker[w].batch /\ Progress(w)
  BY AtWork
<1>2. COPY_MAX_RETRY_COUNT \in Nat \ {0} /\ MaxErrors \in Nat
  BY SnapshotAssumption
<1>3. worker[w].attempt < COPY_MAX_RETRY_COUNT
  BY <1>1 DEF Progress
<1>4. worker[w].attempt \in 0 .. COPY_MAX_RETRY_COUNT
  BY <1>1 DEF WorkerStates
<1>5. AfterError(w) \in {"check", "failed"}
      /\ (AfterError(w) = "check" => worker[w].attempt + 1 < COPY_MAX_RETRY_COUNT)
  BY DEF AfterError
<1>6. worker[w].attempt + 1 \in 0 .. COPY_MAX_RETRY_COUNT
  BY <1>2, <1>3, <1>4
<1>7. r \in WorkerStates
  BY <1>1, <1>5, <1>6 DEF WorkerStates, Pc
<1>8. r.pc = AfterError(w) /\ r.attempt = worker[w].attempt + 1 /\ r.batch = Batch(w)
  BY <1>1 DEF WorkerStates
<1>9. worker' = [worker EXCEPT ![w] = r]
  BY DEF Retry, IInv, TypeOK
<1>10. errors' \in 0 .. MaxErrors
  BY <1>2 DEF Retry, Transient, IInv, TypeOK
<1> QED
  BY <1>5, <1>7, <1>8, <1>9, <1>10

\* MarkInProgress renames the batch file to .P, or finds it so.
LEMMA MarkInProgressKeeps ==
  ASSUME IInv, NEW w \in Workers, MarkInProgress(w)
  PROVE  IInv'
<1> DEFINE b == Batch(w)
           r == [worker[w] EXCEPT !.recovery = IsInterrupted(b),
                                  !.pc = IF LinesOf(b) = {} THEN "markDone" ELSE "check"]
<1>1. worker[w].pc = "start" /\ mode = "up"
  BY DEF MarkInProgress, At
<1>2. /\ worker[w] \in WorkerStates /\ b = worker[w].batch /\ b \in Batches /\ b \in BatchNumbers
      /\ LinesOf(b) \subseteq GoodLines /\ Progress(w)
      /\ ShouldUseFastPath => batchFiles[b].note # "error"
  BY <1>1, AtWork
<1>3. Rename(b, "P") /\ task' = task /\ errorFiles' = errorFiles
  BY DEF MarkInProgress, InMemory
<1>4. /\ SameSplit /\ StateTypeOK'
      /\ batchFiles'[b].state = "P" /\ batchFiles'[b].note = batchFiles[b].note
      /\ \A m \in BatchNumbers \ {b} : batchFiles'[m] = batchFiles[m]
  BY <1>2, <1>3, RenameKeeps DEF IInv, TypeOK
<1>5. r \in WorkerStates /\ r.batch = b /\ r.attempt = worker[w].attempt
      /\ r.pc = IF LinesOf(b) = {} THEN "markDone" ELSE "check"
  BY <1>2 DEF WorkerStates, Pc, IsInterrupted
<1>6. worker' = [worker EXCEPT ![w] = r] /\ worker'[w] = r
  BY DEF MarkInProgress, IInv, TypeOK
<1>7. LinesOf(b)' = LinesOf(b) /\ Batch(w)' = b
  BY <1>2, <1>4, <1>5, <1>6 DEF SameSplit, LinesOf, Batch
<1>8. Progress(w)'
  BY <1>1, <1>2, <1>5, <1>6, <1>7 DEF Progress, BatchInTable
<1>9. /\ UNCHANGED <<producerVars, mode, crashes, rows, imported, inDoubt, errors>>
  BY DEF MarkInProgress, InMemory, dbVars
<1>10. b \in imported => \A l \in LinesOf(b) : InTable(l)'
  BY <1>2, <1>4, <1>9, TableGrows DEF IInv, InvImporting, BatchInTable
<1>11. /\ rows \in [GoodLines -> {0, 1}] /\ errors \in 0 .. MaxErrors
       /\ ShouldUseFastPath => inDoubt = {}
  BY DEF IInv, InvImporting, TypeOK
<1>12. r.pc # "idle" /\ batchFiles'[b].state \in StatesAt(r.pc)
  BY <1>4, <1>5 DEF StatesAt
<1> QED
  BY <1>1, <1>2, <1>4, <1>5, <1>6, <1>8, <1>9, <1>10, <1>11, <1>12, WorkerStep

\* A check, a rejected copy, the end of a recovery: the worker moves on.
LEMMA MovesKeep ==
  ASSUME IInv, NEW w \in Workers,
         \/ CheckAlreadyImported(w) \/ CheckFails(w)
         \/ CopyRejected(w) \/ RecoverEnds(w)
  PROVE  IInv'
<1> DEFINE b == Batch(w)
<1>1. worker[w].pc \in {"check", "copy", "recover"} /\ mode = "up"
  BY DEF CheckAlreadyImported, CheckFails, CopyRejected, RecoverEnds, At
<1>2. UNCHANGED <<task, batchFiles, errorFiles, producerVars, mode, crashes, dbVars>>
  BY DEF CheckAlreadyImported, CheckFails, CopyRejected, RecoverEnds, Retry, InMemory, stateVars
<1>3. /\ worker[w] \in WorkerStates /\ b = worker[w].batch /\ b \in Batches
      /\ LinesOf(b) \subseteq GoodLines /\ Progress(w)
  BY <1>1, AtWork
<1>4. /\ \A l \in LinesOf(b) : InTable(l) => InTable(l)'
      /\ \A n \in Batches : LinesOf(n)' = LinesOf(n)
      /\ ShouldUseFastPath' = ShouldUseFastPath
  BY <1>2, SameTask DEF InTable, dbVars, LinesOf
<1>5. StatesAt(worker[w].pc) = {"P"} /\ errors \in 0 .. MaxErrors
  BY <1>1 DEF StatesAt, IInv, TypeOK
<1>6. ASSUME NEW r \in WorkerStates, worker' = [worker EXCEPT ![w] = r], r.batch = b,
             r.pc \in {"check", "copy", "fastCopy", "recover", "record", "markDone", "failed"},
             errors' \in 0 .. MaxErrors, Progress(w)'
      PROVE  IInv'
  <2>1. r.pc # "idle" /\ StatesAt(worker[w].pc) \subseteq StatesAt(r.pc) /\ worker[w].pc # "idle"
    BY <1>1, <1>5, <1>6 DEF StatesAt
  <2> QED
    BY <1>1, <1>2, <1>6, <2>1, WorkerMoves
<1>7. CASE CheckAlreadyImported(w)
  <2> DEFINE r == [worker[w] EXCEPT !.pc = IF isBatchAlreadyImported(b) THEN "markDone" ELSE CopyPath(w),
                                    !.todo = LinesOf(b)]
  <2>1. worker[w].pc = "check" /\ errors' = errors
    BY <1>7 DEF CheckAlreadyImported, At
  <2>2. CopyPath(w) \in {"copy", "fastCopy", "recover"}
        /\ (CopyPath(w) = "copy" <=> ~ShouldUseFastPath)
    BY DEF CopyPath
  <2>3. /\ r \in WorkerStates /\ r.batch = b /\ r.attempt = worker[w].attempt /\ r.todo = LinesOf(b)
        /\ r.pc = IF b \in imported THEN "markDone" ELSE CopyPath(w)
    BY <1>3, <2>2 DEF WorkerStates, Pc, isBatchAlreadyImported
  <2>4. worker' = [worker EXCEPT ![w] = r] /\ worker'[w] = r /\ Batch(w)' = b
    BY <1>7, <2>3 DEF CheckAlreadyImported, IInv, TypeOK, Batch
  <2>5. b \in imported => \A l \in LinesOf(b) : InTable(l)'
    BY <1>4 DEF IInv, InvImporting, BatchInTable
  <2>6. Progress(w)'
    BY <1>3, <1>4, <2>1, <2>2, <2>3, <2>4, <2>5 DEF Progress, BatchInTable
  <2> QED
    BY <1>5, <1>6, <2>1, <2>2, <2>3, <2>4, <2>6
<1>8. CASE CheckFails(w)
  <2>1. worker[w].pc = "check" /\ Retry(w)
    BY <1>8 DEF CheckFails, At
  <2>2. PICK r \in WorkerStates :
           /\ worker' = [worker EXCEPT ![w] = r]
           /\ r.pc \in {"check", "failed"} /\ r.batch = b
           /\ r.pc = "check" => r.attempt < COPY_MAX_RETRY_COUNT
           /\ errors' \in 0 .. MaxErrors
    BY <2>1, RetryMoves
  <2>3. worker'[w] = r
    BY <2>2 DEF IInv, TypeOK
  <2>4. Progress(w)'
    BY <2>2, <2>3 DEF Progress
  <2> QED
    BY <1>6, <2>2, <2>4
<1>9. CASE CopyRejected(w) \/ RecoverEnds(w)
  <2> DEFINE r == [worker[w] EXCEPT !.pc = IF CopyRejected(w) THEN "failed" ELSE "record"]
  <2>1. /\ r \in WorkerStates /\ r.batch = b /\ r.attempt = worker[w].attempt
        /\ r.pc = IF CopyRejected(w) THEN "failed" ELSE "record"
    BY <1>3 DEF WorkerStates, Pc
  <2>2. worker' = [worker EXCEPT ![w] = r] /\ worker'[w] = r /\ Batch(w)' = b /\ errors' = errors
    BY <1>9, <2>1 DEF CopyRejected, RecoverEnds, Go, At, IInv, TypeOK, Batch
  <2>3. ~CopyRejected(w) => worker[w].pc = "recover" /\ worker[w].todo = {}
    BY <1>9 DEF RecoverEnds, At
  <2>4. Progress(w)'
    BY <1>3, <1>4, <2>1, <2>2, <2>3 DEF Progress, BatchInTable
  <2> QED
    BY <1>5, <1>6, <2>1, <2>2, <2>4
<1> QED
  BY <1>7, <1>8, <1>9

\* A step of a worker that leaves the files alone.
LEMMA WorkerImports ==
  ASSUME IInv, UNCHANGED <<task, batchFiles, errorFiles, producerVars, mode, crashes>>,
         errors' \in 0 .. MaxErrors, mode = "up",
         NEW w \in Workers, NEW r \in WorkerStates,
         worker[w].pc \notin {"idle", "start", "message"},
         worker' = [worker EXCEPT ![w] = r], Progress(w)',
         r.pc \in {"check", "copy", "fastCopy", "recover", "record", "markDone", "failed"},
         r.batch = Batch(w),
         rows' \in [GoodLines -> {0, 1}], \A l \in GoodLines : rows[l] = 1 => rows'[l] = 1,
         imported \subseteq imported' /\ imported' \subseteq imported \cup {Batch(w)},
         inDoubt' \subseteq inDoubt \cup {Batch(w)}, ShouldUseFastPath => inDoubt' = {},
         ~ShouldUseFastPath => \A l \in GoodLines :
           rows'[l] = 1 => rows[l] = 1 \/ (Batch(w) \in imported' /\ l \in LinesOf(Batch(w))),
         Batch(w) \in imported' => \A l \in LinesOf(Batch(w)) : InTable(l)'
  PROVE  IInv'
<1>1. SameSplit /\ StateTypeOK'
  BY UntouchedFiles DEF IInv, TypeOK
<1>2. /\ batchFiles[Batch(w)].state = "P"
      /\ ShouldUseFastPath => batchFiles[Batch(w)].note # "error"
  BY AtWork DEF StatesAt
<1>3. batchFiles'[Batch(w)].state \in StatesAt(r.pc) /\ batchFiles'[Batch(w)].state # "D"
  BY <1>2 DEF StatesAt
<1>4. r.pc # "idle" /\ worker[w].pc # "idle"
  OBVIOUS
<1> QED
  BY <1>1, <1>2, <1>3, <1>4, WorkerStep

\* Records that are not in the table are there once after they are added.
LEMMA AddedOnce ==
  ASSUME rows \in [GoodLines -> {0, 1}], NEW S \in SUBSET GoodLines, \A l \in S : rows[l] = 0
  PROVE  /\ Added(S) \in [GoodLines -> {0, 1}]
         /\ \A l \in GoodLines : rows[l] = 1 => Added(S)[l] = 1
         /\ \A l \in S : Added(S)[l] = 1
         /\ \A l \in GoodLines \ S : Added(S)[l] = rows[l]
  BY DEF Added

\* The primary key of the fast path lets no record in twice.
LEMMA AcceptedAreNew ==
  ASSUME IInv, ShouldUseFastPath, NEW n \in Batches
  PROVE  /\ Accepted(n) \subseteq LinesOf(n) /\ Accepted(n) \in SUBSET GoodLines
         /\ \A l \in Accepted(n) : rows[l] = 0
         /\ \A l \in Conflicting(n) : InTable(l)
<1>1. LinesOf(n) \subseteq GoodLines /\ rows \in [GoodLines -> {0, 1}]
  BY DEF Batches, LinesOf, IInv, TypeOK, StateTypeOK, InvImporting
<1> QED
  BY <1>1 DEF Accepted, Conflicting, ShouldUseFastPath, InTable

\* Without the fast path it is the entry of the batch, written in the same
\* transaction, that keeps its records from being imported again.
LEMMA UnrecordedAreNew ==
  ASSUME IInv, ~ShouldUseFastPath, NEW n \in Batches, n \notin imported
  PROVE  LinesOf(n) \in SUBSET GoodLines /\ \A l \in LinesOf(n) : rows[l] = 0
<1>1. LinesOf(n) \subseteq GoodLines /\ rows \in [GoodLines -> {0, 1}] /\ imported \subseteq Batches
  BY DEF Batches, LinesOf, IInv, TypeOK, StateTypeOK, InvImporting
<1>2. ASSUME NEW l \in LinesOf(n), rows[l] = 1 PROVE FALSE
  <2>1. PICK m \in imported : l \in LinesOf(m)
    BY <1>1, <1>2 DEF IInv, InvImporting
  <2>2. m \in Batches /\ m # n
    BY <1>1, <2>1
  <2> QED
    BY <1>2, <2>1, <2>2 DEF IInv, InvBatches
<1> QED
  BY <1>1, <1>2

\* The COPY and the entry of the batch in one transaction.
LEMMA CopyKeeps ==
  ASSUME IInv, NEW w \in Workers, Copy(w)
  PROVE  IInv'
<1> DEFINE b == Batch(w)
           r == [worker[w] EXCEPT !.pc = "markDone"]
<1>1. worker[w].pc = "copy" /\ mode = "up"
  BY DEF Copy, At
<1>2. /\ worker[w] \in WorkerStates /\ b = worker[w].batch /\ b \in Batches /\ Progress(w)
  BY <1>1, AtWork
<1>3. ~ShouldUseFastPath
  BY <1>1, <1>2 DEF Progress
<1>4. b \notin imported /\ rows' = Added(LinesOf(b)) /\ imported' = imported \cup {b}
  BY DEF Copy, CanCommit, Commit
<1>5. LinesOf(b) \in SUBSET GoodLines /\ \A l \in LinesOf(b) : rows[l] = 0
  BY <1>2, <1>3, <1>4, UnrecordedAreNew
<1>6. rows \in [GoodLines -> {0, 1}] /\ errors \in 0 .. MaxErrors
  BY DEF IInv, InvImporting, TypeOK
<1>7. /\ rows' \in [GoodLines -> {0, 1}]
      /\ \A l \in GoodLines : rows[l] = 1 => rows'[l] = 1
      /\ \A l \in LinesOf(b) : rows'[l] = 1
      /\ \A l \in GoodLines \ LinesOf(b) : rows'[l] = rows[l]
  BY <1>4, <1>5, <1>6, AddedOnce
<1>8. UNCHANGED <<task, batchFiles, errorFiles, producerVars, mode, crashes, errors, inDoubt>>
  BY DEF Copy, InMemory, stateVars
<1>9. r \in WorkerStates /\ r.batch = b /\ r.pc = "markDone"
  BY <1>2 DEF WorkerStates, Pc
<1>10. worker' = [worker EXCEPT ![w] = r] /\ worker'[w] = r /\ Batch(w)' = b
  BY <1>9 DEF Copy, Go, IInv, TypeOK, Batch
<1>11. \A l \in LinesOf(b) : InTable(l)'
  BY <1>7 DEF InTable
<1>12. LinesOf(Batch(w))' = LinesOf(b)
  BY <1>8, <1>10 DEF LinesOf
<1>13. Progress(w)'
  BY <1>9, <1>10, <1>11, <1>12 DEF Progress, BatchInTable
<1> QED
  BY <1>1, <1>3, <1>4, <1>6, <1>7, <1>8, <1>9, <1>10, <1>11, <1>13, WorkerImports

\* The answer of the COPY is an error, and its commit may be in doubt.
LEMMA CopyErrorKeeps ==
  ASSUME IInv, NEW w \in Workers, CopyError(w)
  PROVE  IInv'
<1> DEFINE b == Batch(w)
<1>1. worker[w].pc = "copy" /\ mode = "up" /\ Retry(w)
  BY DEF CopyError, At
<1>2. b \in Batches /\ LinesOf(b) \subseteq GoodLines /\ Progress(w)
  BY <1>1, AtWork
<1>3. ~ShouldUseFastPath
  BY <1>1, <1>2 DEF Progress
<1>4. PICK r \in WorkerStates :
         /\ worker' = [worker EXCEPT ![w] = r]
         /\ r.pc \in {"check", "failed"} /\ r.batch = b
         /\ r.pc = "check" => r.attempt < COPY_MAX_RETRY_COUNT
         /\ errors' \in 0 .. MaxErrors
  BY <1>1, RetryMoves
<1>5. /\ UNCHANGED <<task, batchFiles, errorFiles, producerVars, mode, crashes, rows, imported>>
      /\ inDoubt' \subseteq inDoubt \cup {b}
  BY <1>1 DEF CopyError, Retry, InMemory, stateVars
<1>6. worker'[w] = r
  BY <1>4 DEF IInv, TypeOK
<1>7. Progress(w)'
  BY <1>4, <1>6 DEF Progress
<1>8. b \in imported' => \A l \in LinesOf(b) : InTable(l)'
  BY <1>5, SameTask DEF IInv, InvImporting, BatchInTable, InTable
<1>9. rows' \in [GoodLines -> {0, 1}]
  BY <1>5 DEF IInv, InvImporting
<1> QED
  BY <1>1, <1>3, <1>4, <1>5, <1>7, <1>8, <1>9, WorkerImports

\* A step of the fast path: some of the accepted records get into the table.
LEMMA FastStep ==
  ASSUME IInv, UNCHANGED <<task, batchFiles, errorFiles, producerVars, mode, crashes, inDoubt>>,
         errors' \in 0 .. MaxErrors, mode = "up",
         NEW w \in Workers, NEW r \in WorkerStates, NEW S \in SUBSET Accepted(Batch(w)),
         worker[w].pc \in {"fastCopy", "recover", "record"},
         worker' = [worker EXCEPT ![w] = r], r.batch = Batch(w),
         r.pc \in {"check", "recover", "record", "markDone", "failed"},
         rows' = Added(S),
         imported \subseteq imported' /\ imported' \subseteq imported \cup {Batch(w)},
         Batch(w) \in imported' \/ r.pc \in {"record", "markDone"} =>
           \A l \in LinesOf(Batch(w)) : l \in S \/ InTable(l),
         r.pc = "recover" =>
           /\ r.todo \subseteq LinesOf(Batch(w))
           /\ \A l \in LinesOf(Batch(w)) \ r.todo : l \in S \/ InTable(l),
         r.pc \in {"check", "recover", "record"} => r.attempt < COPY_MAX_RETRY_COUNT
  PROVE  IInv'
<1> DEFINE b == Batch(w)
<1>1. b \in Batches /\ LinesOf(b) \subseteq GoodLines /\ Progress(w)
  BY AtWork
<1>2. ShouldUseFastPath
  BY <1>1 DEF Progress
<1>3. S \in SUBSET GoodLines /\ \A l \in S : rows[l] = 0
  BY <1>1, <1>2, AcceptedAreNew
<1>4. rows \in [GoodLines -> {0, 1}] /\ inDoubt = {}
  BY <1>2 DEF IInv, InvImporting
<1>5. /\ rows' \in [GoodLines -> {0, 1}]
      /\ \A l \in GoodLines : rows[l] = 1 => rows'[l] = 1
      /\ \A l \in S : rows'[l] = 1
  BY <1>3, <1>4, AddedOnce
<1>6. SameSplit
  BY UntouchedFiles
<1>7. \A l \in LinesOf(b) : l \in S \/ InTable(l) => InTable(l)'
  BY <1>1, <1>5, <1>6, TableGrows DEF InTable
<1>8. worker'[w] = r /\ Batch(w)' = b /\ ShouldUseFastPath' /\ LinesOf(Batch(w))' = LinesOf(b)
  BY <1>2, SameTask DEF IInv, TypeOK, Batch, LinesOf
<1>9. r.pc \in {"record", "markDone"} => \A l \in LinesOf(b) : InTable(l)'
  BY <1>7
<1>10. r.pc = "recover" => \A l \in LinesOf(b) \ r.todo : InTable(l)'
  BY <1>7
<1>11. Progress(w)'
  BY <1>8, <1>9, <1>10 DEF Progress, BatchInTable
<1> QED
  BY <1>2, <1>4, <1>5, <1>7, <1>11, WorkerImports

\* Nothing is added.
LEMMA AddedNone ==
  ASSUME rows \in [GoodLines -> {0, 1}]
  PROVE  Added({}) = rows
  BY DEF Added

\* The COPY of the fast path, whole or stopped half way.
LEMMA FastCopyKeeps ==
  ASSUME IInv, NEW w \in Workers, FastCopy(w) \/ FastCopyStops(w)
  PROVE  IInv'
<1> DEFINE b == Batch(w)
<1>1. worker[w].pc = "fastCopy" /\ mode = "up"
  BY DEF FastCopy, FastCopyStops, At
<1>2. /\ worker[w] \in WorkerStates /\ b = worker[w].batch /\ b \in Batches /\ Progress(w)
      /\ worker[w].attempt < COPY_MAX_RETRY_COUNT
  BY <1>1, AtWork DEF Progress
<1>3. UNCHANGED <<task, batchFiles, errorFiles, producerVars, mode, crashes, inDoubt, imported>>
  BY DEF FastCopy, FastCopyStops, Retry, InMemory, stateVars
<1>4. errors \in 0 .. MaxErrors /\ (b \in imported => \A l \in LinesOf(b) : InTable(l))
  BY DEF IInv, TypeOK, InvImporting, BatchInTable
<1>5. CASE FastCopy(w)
  <2> DEFINE r == [worker[w] EXCEPT !.pc = "record"]
  <2>1. r \in WorkerStates /\ r.batch = b /\ r.pc = "record" /\ r.attempt = worker[w].attempt
    BY <1>2 DEF WorkerStates, Pc
  <2>2. worker' = [worker EXCEPT ![w] = r]
    BY <1>5 DEF FastCopy, Go, IInv, TypeOK
  <2>3. /\ LinesOf(b) \in SUBSET Accepted(b) /\ rows' = Added(LinesOf(b)) /\ errors' = errors
    BY <1>5 DEF FastCopy
  <2> QED
    BY <1>1, <1>2, <1>3, <1>4, <2>1, <2>2, <2>3, FastStep
<1>6. CASE FastCopyStops(w)
  <2>1. PICK S \in SUBSET Accepted(b) : rows' = Added(S)
    BY <1>6 DEF FastCopyStops
  <2>2. CASE Retry(w)
    <3>1. PICK r \in WorkerStates :
             /\ worker' = [worker EXCEPT ![w] = r]
             /\ r.pc \in {"check", "failed"} /\ r.batch = b
             /\ r.pc = "check" => r.attempt < COPY_MAX_RETRY_COUNT
             /\ errors' \in 0 .. MaxErrors
      BY <1>1, <2>2, RetryMoves
    <3> QED
      BY <1>1, <1>3, <1>4, <2>1, <3>1, FastStep
  <2>3. CASE ~Retry(w)
    <3>1. PICK pc \in {"markDone", "recover", "failed"} :
             Go(w, pc) /\ errors' = errors /\ (pc = "markDone" => b \in imported)
      BY <1>6, <2>3 DEF FastCopyStops, isBatchAlreadyImported
    <3> DEFINE r == [worker[w] EXCEPT !.pc = pc]
    <3>2. /\ r \in WorkerStates /\ r.batch = b /\ r.pc = pc /\ r.attempt = worker[w].attempt
          /\ r.todo = worker[w].todo
      BY <1>2 DEF WorkerStates, Pc
    <3>3. worker' = [worker EXCEPT ![w] = r]
      BY <3>1 DEF Go, IInv, TypeOK
    <3>4. /\ worker[w].todo \subseteq LinesOf(b)
          /\ \A l \in LinesOf(b) \ worker[w].todo : InTable(l)
      BY <1>1, <1>2 DEF Progress
    <3> QED
      BY <1>1, <1>2, <1>3, <1>4, <2>1, <3>1, <3>2, <3>3, <3>4, FastStep
  <2> QED
    BY <2>2, <2>3
<1> QED
  BY <1>5, <1>6

\* The recovery, row by row.
LEMMA RecoverKeeps ==
  ASSUME IInv, NEW w \in Workers, RecoverRow(w) \/ RecoverRowError(w)
  PROVE  IInv'
<1> DEFINE b == Batch(w)
           l == NextLine(w)
<1>1. worker[w].pc = "recover" /\ mode = "up" /\ worker[w].todo # {}
  BY DEF RecoverRow, RecoverRowError, At
<1>2. /\ worker[w] \in WorkerStates /\ b = worker[w].batch /\ b \in Batches /\ Progress(w)
      /\ LinesOf(b) \subseteq GoodLines
  BY <1>1, AtWork
<1>3. /\ worker[w].attempt < COPY_MAX_RETRY_COUNT /\ ShouldUseFastPath
      /\ worker[w].todo \subseteq LinesOf(b)
      /\ \A k \in LinesOf(b) \ worker[w].todo : InTable(k)
  BY <1>1, <1>2 DEF Progress
<1>4. UNCHANGED <<task, batchFiles, errorFiles, producerVars, mode, crashes, inDoubt, imported>>
  BY DEF RecoverRow, RecoverRowError, Retry, InMemory, stateVars
<1>5. /\ errors \in 0 .. MaxErrors /\ (b \in imported => \A k \in LinesOf(b) : InTable(k))
      /\ rows \in [GoodLines -> {0, 1}] /\ task \in Tasks
  BY DEF IInv, TypeOK, StateTypeOK, InvImporting, BatchInTable
<1>6. l \in worker[w].todo
  <2>1. worker[w].todo \in SUBSET Nat
    BY <1>2, <1>3, <1>5, TaskFacts
  <2> QED
    BY <1>1, <2>1, MinOfNats DEF NextLine
<1>7. Added({}) = rows /\ {} \in SUBSET Accepted(b)
  BY <1>5, AddedNone
<1>8. CASE RecoverRow(w)
  <2>1. errors' = errors
    BY <1>8 DEF RecoverRow
  <2>2. CASE IgnoredRow(b, l) \/ l \in Accepted(b)
    <3> DEFINE r == [worker[w] EXCEPT !.todo = @ \ {l}]
               S == IF l \in Accepted(b) THEN {l} ELSE {}
    <3>1. worker' = [worker EXCEPT ![w] = r] /\ rows' = Added(S) /\ S \in SUBSET Accepted(b)
      BY <1>7, <1>8, <2>2 DEF RecoverRow, IInv, TypeOK
    <3>2. /\ r \in WorkerStates /\ r.batch = b /\ r.pc = "recover" /\ r.attempt = worker[w].attempt
          /\ r.todo = worker[w].todo \ {l}
      BY <1>1, <1>2 DEF WorkerStates, Pc
    <3>3. l \in S \/ InTable(l)
      BY <1>2, <1>3, <2>2, AcceptedAreNew DEF IgnoredRow
    <3> HIDE DEF S, l
    <3>4. r.todo \subseteq LinesOf(b) /\ \A k \in LinesOf(b) \ r.todo : k \in S \/ InTable(k)
      BY <1>3, <3>2, <3>3
    <3> QED
      BY <1>1, <1>3, <1>4, <1>5, <2>1, <3>1, <3>2, <3>4, FastStep
  <2>3. CASE ~(IgnoredRow(b, l) \/ l \in Accepted(b))
    <3> DEFINE r == [worker[w] EXCEPT !.pc = "failed"]
    <3>1. worker' = [worker EXCEPT ![w] = r] /\ rows' = Added({})
      BY <1>7, <1>8, <2>3 DEF RecoverRow, Go, IInv, TypeOK
    <3>2. r \in WorkerStates /\ r.batch = b /\ r.pc = "failed"
      BY <1>2 DEF WorkerStates, Pc
    <3> QED
      BY <1>1, <1>4, <1>5, <1>7, <2>1, <3>1, <3>2, FastStep
  <2> QED
    BY <2>2, <2>3
<1>9. CASE RecoverRowError(w)
  <2>1. PICK S \in SUBSET Accepted(b) : rows' = Added(S)
    BY <1>7, <1>9 DEF RecoverRowError
  <2>2. PICK r \in WorkerStates :
           /\ worker' = [worker EXCEPT ![w] = r]
           /\ r.pc \in {"check", "failed"} /\ r.batch = b
           /\ r.pc = "check" => r.attempt < COPY_MAX_RETRY_COUNT
           /\ errors' \in 0 .. MaxErrors
    BY <1>1, <1>9, RetryMoves DEF RecoverRowError
  <2> QED
    BY <1>1, <1>4, <1>5, <2>1, <2>2, FastStep
<1> QED
  BY <1>8, <1>9

\* The entry of a batch on the fast path, and its error.
LEMMA RecordKeeps ==
  ASSUME IInv, NEW w \in Workers, recordEntryInDB(w) \/ RecordError(w)
  PROVE  IInv'
<1> DEFINE b == Batch(w)
<1>1. worker[w].pc = "record" /\ mode = "up"
  BY DEF recordEntryInDB, RecordError, At
<1>2. /\ worker[w] \in WorkerStates /\ b = worker[w].batch /\ Progress(w)
      /\ \A l \in LinesOf(b) : InTable(l)
  BY <1>1, AtWork DEF Progress, BatchInTable
<1>3. rows \in [GoodLines -> {0, 1}] /\ errors \in 0 .. MaxErrors
  BY DEF IInv, InvImporting, TypeOK
<1>4. /\ UNCHANGED <<task, batchFiles, errorFiles, producerVars, mode, crashes, inDoubt, rows>>
      /\ imported \subseteq imported' /\ imported' \subseteq imported \cup {b}
  BY DEF recordEntryInDB, RecordError, Retry, InMemory, stateVars
<1>5. rows' = Added({}) /\ {} \in SUBSET Accepted(b)
  BY <1>3, <1>4, AddedNone
<1>6. CASE recordEntryInDB(w)
  <2> DEFINE r == [worker[w] EXCEPT !.pc = "markDone"]
  <2>1. worker' = [worker EXCEPT ![w] = r] /\ errors' = errors
    BY <1>6 DEF recordEntryInDB, Go, IInv, TypeOK
  <2>2. r \in WorkerStates /\ r.batch = b /\ r.pc = "markDone"
    BY <1>2 DEF WorkerStates, Pc
  <2> QED
    BY <1>1, <1>2, <1>3, <1>4, <1>5, <2>1, <2>2, FastStep
<1>7. CASE RecordError(w)
  <2>1. PICK r \in WorkerStates :
           /\ worker' = [worker EXCEPT ![w] = r]
           /\ r.pc \in {"check", "failed"} /\ r.batch = b
           /\ r.pc = "check" => r.attempt < COPY_MAX_RETRY_COUNT
           /\ errors' \in 0 .. MaxErrors
    BY <1>1, <1>7, RetryMoves DEF RecordError
  <2> QED
    BY <1>1, <1>2, <1>4, <1>5, <2>1, FastStep
<1> QED
  BY <1>6, <1>7

\* A goroutine at rest, as a state of a worker.
LEMMA IdleType ==
  Idle \in WorkerStates /\ Idle.pc = "idle"
<1>1. COPY_MAX_RETRY_COUNT \in Nat /\ MaxBatchNumber \in Nat
  BY SnapshotAssumption, FileAssumption
<1> QED
  BY <1>1 DEF Idle, WorkerStates, Pc, BatchNumbers

\* The batch is done, or fails for good and is kept as .E.
LEMMA RenamesKeep ==
  ASSUME IInv, NEW w \in Workers, MarkDone(w) \/ HandleBatchIngestionError(w)
  PROVE  IInv'
<1> DEFINE b == Batch(w)
           s == IF MarkDone(w) THEN "D" ELSE "E"
           r == IF MarkDone(w) THEN Idle ELSE [worker[w] EXCEPT !.pc = "message"]
<1>1. /\ worker[w].pc \in {"markDone", "failed"} /\ mode = "up"
      /\ MarkDone(w) => worker[w].pc = "markDone"
  BY DEF MarkDone, HandleBatchIngestionError, At
<1>2. /\ worker[w] \in WorkerStates /\ b = worker[w].batch /\ b \in Batches /\ b \in BatchNumbers
      /\ LinesOf(b) \subseteq GoodLines /\ Progress(w)
      /\ ShouldUseFastPath => batchFiles[b].note # "error"
  BY <1>1, AtWork
<1>3. Rename(b, s) /\ task' = task /\ errorFiles' = errorFiles
  BY DEF MarkDone, HandleBatchIngestionError, InMemory
<1>4. /\ SameSplit /\ StateTypeOK'
      /\ batchFiles'[b].state = s /\ batchFiles'[b].note = batchFiles[b].note
      /\ \A m \in BatchNumbers \ {b} : batchFiles'[m] = batchFiles[m]
  BY <1>2, <1>3, RenameKeeps DEF IInv, TypeOK
<1>5. r \in WorkerStates /\ (r.pc = "idle" \/ (r.pc = "message" /\ r.batch = b /\ s = "E"))
  BY <1>2, IdleType DEF WorkerStates, Pc
<1>6. worker' = [worker EXCEPT ![w] = r] /\ worker'[w] = r
  BY DEF MarkDone, HandleBatchIngestionError, Go, IInv, TypeOK
<1>7. Progress(w)'
  BY <1>5, <1>6 DEF Progress
<1>8. UNCHANGED <<producerVars, mode, crashes, rows, imported, inDoubt, errors>>
  BY DEF MarkDone, HandleBatchIngestionError, InMemory, dbVars
<1>9. b \in imported \/ s = "D" => \A l \in LinesOf(b) : InTable(l)
  BY <1>1, <1>2 DEF Progress, IInv, InvImporting, BatchInTable
<1>10. b \in imported \/ s = "D" => \A l \in LinesOf(b) : InTable(l)'
  BY <1>2, <1>4, <1>8, <1>9, TableGrows
<1>11. /\ rows \in [GoodLines -> {0, 1}] /\ errors \in 0 .. MaxErrors
       /\ ShouldUseFastPath => inDoubt = {}
  BY DEF IInv, InvImporting, TypeOK
<1>12. r.pc # "idle" => r.batch = b /\ batchFiles'[b].state \in StatesAt(r.pc)
  BY <1>4, <1>5 DEF StatesAt
<1> QED
  BY <1>1, <1>2, <1>4, <1>5, <1>6, <1>7, <1>8, <1>10, <1>11, <1>12, WorkerStep

\* The message of a batch that failed.
LEMMA AppendErrorMessageKeeps ==
  ASSUME IInv, NEW w \in Workers, AppendErrorMessage(w)
  PROVE  IInv'
<1> DEFINE b == Batch(w)
<1>1. worker[w].pc = "message" /\ mode # "down"
  BY DEF AppendErrorMessage
<1>2. b \in Batches /\ LinesOf(b) \subseteq GoodLines /\ batchFiles[b].state # "D"
  BY <1>1, AtWork
<1>3. AppendMessage(b, ShouldUseFastPath) /\ task' = task /\ errorFiles' = errorFiles
  BY DEF AppendErrorMessage, InMemory
<1>4. ShouldUseFastPath \in BOOLEAN
  BY DEF ShouldUseFastPath
<1>5. /\ SameSplit /\ StateTypeOK'
      /\ batchFiles'[b].state = batchFiles[b].state
      /\ batchFiles'[b].note = ErrorMessage(ShouldUseFastPath)
      /\ \A m \in BatchNumbers \ {b} : batchFiles'[m] = batchFiles[m]
  BY <1>2, <1>3, <1>4, MessageKeeps DEF IInv, TypeOK
<1>6. worker' = [worker EXCEPT ![w] = Idle] /\ worker'[w] = Idle
  BY DEF AppendErrorMessage, IInv, TypeOK
<1>7. Progress(w)'
  BY <1>6, IdleType DEF Progress
<1>8. UNCHANGED <<producerVars, mode, crashes, rows, imported, inDoubt, errors>>
  BY DEF AppendErrorMessage, InMemory, dbVars
<1>9. b \in imported => \A l \in LinesOf(b) : InTable(l)'
  BY <1>2, <1>5, <1>8, TableGrows DEF IInv, InvImporting, BatchInTable
<1>10. /\ rows \in [GoodLines -> {0, 1}] /\ errors \in 0 .. MaxErrors
       /\ ShouldUseFastPath => inDoubt = {}
  BY DEF IInv, InvImporting, TypeOK
<1>11. ShouldUseFastPath => batchFiles'[b].note # "error"
  BY <1>5 DEF ErrorMessage
<1> QED
  BY <1>1, <1>2, <1>5, <1>6, <1>7, <1>8, <1>9, <1>10, <1>11, IdleType, WorkerStep

-----------------------------------------------------------------------------
(* The commits in doubt.                                                   *)

\* The target settles a commit: the batch of it, recorded or not, is nobody's but
\* that of the worker that looks it up again.
LEMMA InDoubtKeeps ==
  ASSUME IInv, NEW n \in BatchNumbers, CommitLands(n) \/ CommitAborts(n)
  PROVE  IInv'
<1>1. UNCHANGED <<task, batchFiles, errorFiles, producerVars, mode, worker, errors, crashes>>
  BY DEF CommitLands, CommitAborts, stateVars
<1>2. n \in Batches /\ ~ShouldUseFastPath /\ inDoubt' = inDoubt \ {n}
  BY DEF CommitLands, CommitAborts, IInv, InvImporting
<1>3. SameSplit /\ StateTypeOK'
  BY <1>1, UntouchedFiles DEF IInv, TypeOK
<1>4. rows \in [GoodLines -> {0, 1}]
  BY DEF IInv, InvImporting
<1>5. /\ rows' \in [GoodLines -> {0, 1}]
      /\ \A l \in GoodLines : rows[l] = 1 => rows'[l] = 1
      /\ \A l \in GoodLines : rows'[l] = 1 => rows[l] = 1 \/ (n \in imported' /\ l \in LinesOf(n))
      /\ n \in imported' \ imported => \A l \in LinesOf(n) : rows'[l] = 1
      /\ imported \subseteq imported' /\ imported' \subseteq imported \cup {n}
  <2>1. CASE CommitLands(n)
    <3>1. n \notin imported /\ rows' = Added(LinesOf(n)) /\ imported' = imported \cup {n}
      BY <2>1 DEF CommitLands, CanCommit, Commit
    <3>2. LinesOf(n) \in SUBSET GoodLines /\ \A l \in LinesOf(n) : rows[l] = 0
      BY <1>2, <3>1, UnrecordedAreNew
    <3>3. /\ rows' \in [GoodLines -> {0, 1}]
          /\ \A l \in GoodLines : rows[l] = 1 => rows'[l] = 1
          /\ \A l \in LinesOf(n) : rows'[l] = 1
          /\ \A l \in GoodLines \ LinesOf(n) : rows'[l] = rows[l]
      BY <1>4, <3>1, <3>2, AddedOnce
    <3> QED
      BY <3>1, <3>3
  <2>2. CASE CommitAborts(n)
    BY <1>4, <2>2 DEF CommitAborts
  <2> QED
    BY <2>1, <2>2
<1>6. /\ GoodLines' = GoodLines /\ ShouldUseFastPath' = ShouldUseFastPath
      /\ NumLines' = NumLines /\ BatchSizes' = BatchSizes
  BY <1>1, SameTask
<1>7. \A m \in Batches : LinesOf(m)' = LinesOf(m) /\ LinesOf(m) \subseteq GoodLines
  BY <1>1 DEF LinesOf, Batches, IInv, TypeOK, StateTypeOK
<1>8. Batches' = Batches /\ InState({"D"})' = InState({"D"}) /\ InState({"D"}) \subseteq Batches
  BY <1>1 DEF InState, Batches
<1>9. \A w \in Workers : Progress(w)'
  BY <1>1, <1>3, <1>5, ProgressKept DEF IInv, InvImporting
<1>10. (imported \cup inDoubt \subseteq Batches)'
  BY <1>2, <1>5, <1>8 DEF IInv, InvImporting
<1>11. ASSUME NEW m \in imported' \cup InState({"D"}) PROVE \A l \in LinesOf(m) : InTable(l)'
  <2>1. m \in Batches
    BY <1>8, <1>10
  <2>2. CASE m \in imported \cup InState({"D"})
    BY <1>3, <1>5, <1>7, <2>1, <2>2, TableGrows DEF IInv, InvImporting, BatchInTable
  <2>3. CASE m \notin imported \cup InState({"D"})
    BY <1>5, <1>11, <2>3 DEF InTable
  <2> QED
    BY <2>2, <2>3
<1>12. InvImporting'
  <2>1. (\A m \in imported \cup InState({"D"}) : BatchInTable(m))'
    BY <1>7, <1>8, <1>10, <1>11 DEF BatchInTable
  <2>2. (\A l \in GoodLines : rows[l] = 1 => \E m \in imported : l \in LinesOf(m))'
    BY <1>2, <1>5, <1>6, <1>7, <1>10, <1>8 DEF IInv, InvImporting
  <2> QED
    BY <1>2, <1>5, <1>6, <1>9, <1>10, <2>1, <2>2 DEF InvImporting
<1>13. InvHanding'
  BY <1>1, <1>8 DEF IInv, InvHanding, HoldsAlone, PendingBatches, InState, Batch, producerVars
<1>14. InvBatches' /\ InvErrorFiles' /\ InvSplitting'
  BY <1>1, <1>3, SplitKept, PlaceKept DEF IInv, producerVars
<1>15. TypeOK'
  <2>1. imported' \subseteq BatchNumbers /\ inDoubt' \subseteq BatchNumbers
    BY <1>8, <1>10 DEF Batches
  <2>2. rows' \in [GoodLines -> 0 .. MaxErrors + MaxCrashes + 1]
    BY <1>5, SnapshotAssumption
  <2>3. ProducerTypeOK'
    BY <1>1, <1>6 DEF IInv, TypeOK, ProducerTypeOK, producerVars
  <2> QED
    BY <1>1, <1>3, <1>6, <2>1, <2>2, <2>3 DEF IInv, TypeOK
<1> QED
  BY <1>12, <1>13, <1>14, <1>15 DEF IInv

-----------------------------------------------------------------------------
(* The command and the pool.                                               *)

\* A step that leaves the files and the target alone.
LEMMA Resting ==
  ASSUME IInv, UNCHANGED <<task, batchFiles, errorFiles, rows, imported, inDoubt>>,
         \A w \in Workers : Progress(w)'
  PROVE  /\ SameSplit /\ StateTypeOK' /\ InvBatches' /\ InvErrorFiles' /\ InvImporting'
         /\ Batches' = Batches /\ PendingBatches' = PendingBatches
         /\ \A n \in Batches : LinesOf(n)' = LinesOf(n)
         /\ LastOffset' = LastOffset /\ LastBatchNumber' = LastBatchNumber
         /\ batchGenerationCompleted' = batchGenerationCompleted
         /\ GoodLines' = GoodLines /\ NumLines' = NumLines /\ BatchSizes' = BatchSizes
<1>1. SameSplit /\ StateTypeOK'
  BY UntouchedFiles DEF IInv, TypeOK
<1>2. /\ InvBatches' /\ InvErrorFiles' /\ LastOffset' = LastOffset /\ LastBatchNumber' = LastBatchNumber
      /\ \A n \in Batches : LinesOf(n)' = LinesOf(n)
      /\ batchGenerationCompleted' = batchGenerationCompleted
  BY <1>1, SplitKept DEF IInv
<1>3. Batches' = Batches /\ \A s : InState(s)' = InState(s)
  BY DEF Batches, InState
<1>4. PendingBatches' = PendingBatches /\ InState({"D"}) \subseteq Batches
  BY <1>3 DEF PendingBatches, InState
<1>5. /\ GoodLines' = GoodLines /\ NumLines' = NumLines /\ BatchSizes' = BatchSizes
      /\ ShouldUseFastPath' = ShouldUseFastPath /\ IgnoreConflicts' = IgnoreConflicts
      /\ ExistingLines' = ExistingLines
  BY SameTask
<1>6. (\A n \in imported \cup InState({"D"}) : BatchInTable(n))'
  BY <1>2, <1>3, <1>4, <1>5 DEF IInv, InvImporting, BatchInTable, InTable
<1>7. InvImporting'
  BY <1>2, <1>3, <1>5, <1>6 DEF IInv, InvImporting
<1> QED
  BY <1>1, <1>2, <1>3, <1>4, <1>5, <1>7

\* An idle worker has nothing to show.
LEMMA IdleProgress ==
  ASSUME NEW w \in Workers, worker'[w] = Idle
  PROVE  Progress(w)'
  BY IdleType DEF Progress

\* The process ends: by a kill, by an error of the producer, or by the abort policy.
LEMMA ProcessGoneKeeps ==
  ASSUME IInv, ProcessGone, errors' \in 0 .. MaxErrors, crashes' \in 0 .. MaxCrashes
  PROVE  IInv'
<1>1. /\ UNCHANGED <<task, batchFiles, errorFiles, rows, imported, inDoubt>>
      /\ worker' = [w \in Workers |-> Idle] /\ mode' = "down" /\ producer' = "off"
      /\ pendingBatches' = {} /\ produced' = {} /\ lastBatchNumber' = 0 /\ numLinesTaken' = 0
      /\ lineFromPreviousBatch' = 0 /\ batchSize' = CHOOSE b \in BatchSizes' : TRUE
  BY SameTask DEF ProcessGone, ProducerGone, stateVars, dbVars
<1>2. \A w \in Workers : worker'[w] = Idle /\ Progress(w)'
  BY <1>1, IdleProgress
<1>3. /\ StateTypeOK' /\ InvBatches' /\ InvErrorFiles' /\ InvImporting'
      /\ GoodLines' = GoodLines /\ NumLines' = NumLines /\ BatchSizes' = BatchSizes
  BY <1>1, <1>2, Resting
<1>4. InvHanding'
  BY <1>1, <1>2, IdleType DEF InvHanding, HoldsAlone
<1>5. InvSplitting'
  BY <1>1 DEF InvSplitting
<1>6. ProducerTypeOK'
  <2>1. task \in Tasks
    BY DEF IInv, TypeOK, StateTypeOK
  <2>2. 0 \in BatchNumbers /\ 0 \in 0 .. NumLines /\ batchSize' \in BatchSizes
    BY <1>1, <1>3, <2>1, TaskFacts DEF BatchNumbers
  <2> QED
    BY <1>1, <1>3, <2>2 DEF ProducerTypeOK
<1>7. TypeOK'
  BY <1>1, <1>3, <1>6, IdleType DEF IInv, TypeOK, WorkerStates
<1> QED
  BY <1>3, <1>4, <1>5, <1>7 DEF IInv

\* The command starts: it reads the names of the batch files, or finds it is done.
LEMMA StartImportKeeps ==
  ASSUME IInv, StartImport
  PROVE  IInv'
<1>1. /\ UNCHANGED <<task, batchFiles, errorFiles, rows, imported, inDoubt, worker, errors, crashes>>
      /\ mode = "down" /\ producer = "off" /\ \A w \in Workers : worker[w] = Idle /\ worker'[w] = Idle
      /\ pendingBatches = {} /\ produced = {}
  BY DEF StartImport, stateVars, dbVars, IInv, InvHanding
<1>2. \A w \in Workers : Progress(w)'
  BY <1>1, IdleProgress
<1>3. /\ StateTypeOK' /\ InvBatches' /\ InvErrorFiles' /\ InvImporting'
      /\ Batches' = Batches /\ PendingBatches' = PendingBatches
      /\ LastOffset' = LastOffset /\ LastBatchNumber' = LastBatchNumber
      /\ batchGenerationCompleted' = batchGenerationCompleted
      /\ GoodLines' = GoodLines /\ NumLines' = NumLines /\ BatchSizes' = BatchSizes
  BY <1>1, <1>2, Resting
<1>4. \A w \in Workers : HoldsAlone(w)' /\ worker'[w].pc = "idle"
  BY <1>1, IdleType DEF HoldsAlone
<1>5. CASE AllBatchesImported
  <2>1. mode' = "done" /\ UNCHANGED producerVars
    BY <1>5 DEF StartImport
  <2>2. InvHanding' /\ InvSplitting'
    BY <1>1, <1>3, <1>4, <2>1 DEF InvHanding, InvSplitting, producerVars
  <2>3. TypeOK'
    BY <1>1, <1>3, <2>1 DEF IInv, TypeOK, ProducerTypeOK, producerVars
  <2> QED
    BY <1>3, <2>2, <2>3 DEF IInv
<1>6. CASE ~AllBatchesImported
  <2>1. mode' = "up" /\ NewFileBatchProducer
    BY <1>6 DEF StartImport
  <2>2. PendingBatches \subseteq Batches
    BY DEF PendingBatches, InState
  <2>3. InvHanding'
    BY <1>3, <1>4, <2>1 DEF InvHanding, NewFileBatchProducer
  <2>4. batchGenerationCompleted => PendingBatches # {}
    <3>1. SUFFICES ASSUME batchGenerationCompleted, PendingBatches = {} PROVE FALSE
      OBVIOUS
    <3>2. \A n \in Batches : batchFiles[n].state \in {"D", "E"}
      BY <3>1 DEF PendingBatches, InState, Batches, IInv, TypeOK, StateTypeOK
    <3>3. InState({"D", "E"}) = Batches
      BY <3>2 DEF InState
    <3> QED
      BY <1>6, <3>1, <3>3 DEF AllBatchesImported, GetFileImportState
  <2>5. InvSplitting'
    BY <1>3, <2>1, <2>4 DEF InvSplitting, NewFileBatchProducer
  <2>6. LastBatchNumber \in BatchNumbers /\ LastOffset \in 0 .. NumLines
    BY Largest DEF IInv, TypeOK
  <2>7. ProducerTypeOK'
    BY <1>3, <2>1, <2>2, <2>6 DEF ProducerTypeOK, NewFileBatchProducer, Batches
  <2>8. TypeOK'
    BY <1>1, <1>3, <2>1, <2>7 DEF IInv, TypeOK
  <2> QED
    BY <1>3, <2>3, <2>5, <2>8 DEF IInv
<1> QED
  BY <1>5, <1>6

\* The file is reported completed; only messages are left to be written.
LEMMA FinishTaskKeeps ==
  ASSUME IInv, FinishTask
  PROVE  IInv'
<1>1. /\ UNCHANGED <<task, batchFiles, errorFiles, rows, imported, inDoubt, worker, errors, crashes>>
      /\ mode' = "done" /\ producer' = "off"
      /\ pendingBatches' = {} /\ produced' = {} /\ lastBatchNumber' = 0 /\ numLinesTaken' = 0
      /\ lineFromPreviousBatch' = 0 /\ batchSize' = CHOOSE b \in BatchSizes' : TRUE
  BY SameTask DEF FinishTask, ProducerGone, stateVars, dbVars
<1>2. SameSplit
  BY <1>1, UntouchedFiles
<1>3. \A w \in Workers : Progress(w)'
  BY <1>1, <1>2, ProgressKept DEF IInv, InvImporting
<1>4. /\ StateTypeOK' /\ InvBatches' /\ InvErrorFiles' /\ InvImporting' /\ Batches' = Batches
      /\ GoodLines' = GoodLines /\ NumLines' = NumLines /\ BatchSizes' = BatchSizes
  BY <1>1, <1>3, Resting
<1>5. \A n \in Batches : batchFiles[n].state \in {"D", "E"}
  BY DEF FinishTask, AllBatchesImported, GetFileImportState, InState
<1>6. ASSUME NEW w \in Workers PROVE worker[w].pc \in {"idle", "message"}
  <2>1. worker[w].pc # "idle" => batchFiles[Batch(w)].state \in StatesAt(worker[w].pc) /\ Batch(w) \in Batches
    BY DEF IInv, InvHanding, HoldsAlone
  <2> QED
    BY <1>5, <2>1 DEF StatesAt
<1>7. \A w \in Workers : HoldsAlone(w)'
  BY <1>1, <1>4 DEF IInv, InvHanding, HoldsAlone, Batch
<1>8. InvHanding'
  BY <1>1, <1>6, <1>7 DEF InvHanding
<1>9. InvSplitting'
  BY <1>1 DEF InvSplitting
<1>10. ProducerTypeOK'
  <2>1. task \in Tasks
    BY DEF IInv, TypeOK, StateTypeOK
  <2>2. 0 \in BatchNumbers /\ 0 \in 0 .. NumLines /\ batchSize' \in BatchSizes
    BY <1>1, <1>4, <2>1, TaskFacts DEF BatchNumbers
  <2> QED
    BY <1>1, <1>4, <2>2 DEF ProducerTypeOK
<1>11. TypeOK'
  BY <1>1, <1>4, <1>10 DEF IInv, TypeOK
<1> QED
  BY <1>4, <1>8, <1>9, <1>11 DEF IInv

\* The command ends without waiting for the pool.
LEMMA ExitEarlyKeeps ==
  ASSUME IInv, ExitEarly
  PROVE  IInv'
<1>1. /\ UNCHANGED <<task, batchFiles, errorFiles, rows, imported, inDoubt, errors, crashes, mode, producerVars>>
      /\ worker' = [w \in Workers |-> Idle] /\ mode = "done"
  BY DEF ExitEarly, InMemory, stateVars, dbVars
<1>2. \A w \in Workers : worker'[w] = Idle /\ Progress(w)'
  BY <1>1, IdleProgress
<1>3. /\ SameSplit /\ StateTypeOK' /\ InvBatches' /\ InvErrorFiles' /\ InvImporting'
      /\ PendingBatches' = PendingBatches
      /\ GoodLines' = GoodLines /\ NumLines' = NumLines /\ BatchSizes' = BatchSizes
  BY <1>1, <1>2, Resting
<1>4. InvHanding'
  BY <1>1, <1>2, <1>3, IdleType DEF IInv, InvHanding, HoldsAlone, producerVars
<1>5. InvSplitting'
  BY <1>1, <1>3, PlaceKept DEF IInv, producerVars
<1>6. TypeOK'
  BY <1>1, <1>3, IdleType DEF IInv, TypeOK, ProducerTypeOK, producerVars, WorkerStates
<1> QED
  BY <1>3, <1>4, <1>5, <1>6 DEF IInv

\* A batch goes from the buffer to a worker.
LEMMA SubmitBatchKeeps ==
  ASSUME IInv, NEW w \in Workers, SubmitBatch(w)
  PROVE  IInv'
<1>1. PICK n \in produced :
         /\ produced' = produced \ {n}
         /\ worker' = [worker EXCEPT ![w] = [Idle EXCEPT !.pc = "start", !.batch = n]]
  BY DEF SubmitBatch
<1>2. /\ UNCHANGED <<task, batchFiles, errorFiles, rows, imported, inDoubt, errors, crashes, mode,
                     producer, pendingBatches, lastBatchNumber, numLinesTaken, lineFromPreviousBatch, batchSize>>
      /\ mode = "up" /\ worker[w].pc = "idle"
  BY DEF SubmitBatch, stateVars, dbVars
<1> DEFINE r == [Idle EXCEPT !.pc = "start", !.batch = n]
<1>3. n \in BatchNumbers /\ n \in PendingBatches /\ n \in Batches /\ n \notin pendingBatches
  BY <1>1 DEF IInv, InvHanding, PendingBatches, InState, Batches
<1>4. r \in WorkerStates /\ r.pc = "start" /\ r.batch = n /\ r.attempt = 0
  BY <1>3, IdleType DEF Idle, WorkerStates, Pc
<1>5. worker'[w] = r /\ \A v \in Workers \ {w} : worker'[v] = worker[v]
  BY <1>1 DEF IInv, TypeOK
<1>6. SameSplit
  BY <1>2, UntouchedFiles
<1>7. \A v \in Workers : Progress(v)'
  <2>1. Progress(w)'
    BY <1>4, <1>5, SnapshotAssumption DEF Progress
  <2> QED
    BY <1>5, <1>6, <1>2, <2>1, ProgressKept DEF IInv, InvImporting
<1>8. /\ StateTypeOK' /\ InvBatches' /\ InvErrorFiles' /\ InvImporting' /\ Batches' = Batches
      /\ PendingBatches' = PendingBatches
      /\ GoodLines' = GoodLines /\ NumLines' = NumLines /\ BatchSizes' = BatchSizes
  BY <1>2, <1>7, Resting
<1>9. \A v \in Workers : HoldsAlone(v)'
  <2>1. \A v \in Workers \ {w} : worker[v].pc # "idle" => Batch(v) # n
    BY <1>1 DEF IInv, InvHanding, HoldsAlone
  <2>2. HoldsAlone(w)'
    <3>1. batchFiles[n].state \in StatesAt("start")
      BY <1>3 DEF PendingBatches, InState, StatesAt
    <3> QED
      BY <1>1, <1>2, <1>3, <1>4, <1>5, <1>8, <2>1, <3>1 DEF HoldsAlone, Batch
  <2>3. ASSUME NEW v \in Workers \ {w} PROVE HoldsAlone(v)'
    BY <1>1, <1>2, <1>4, <1>5, <1>8, <2>1, <2>3 DEF IInv, InvHanding, HoldsAlone, Batch
  <2> QED
    BY <2>2, <2>3
<1>10. InvHanding'
  BY <1>1, <1>2, <1>8, <1>9 DEF IInv, InvHanding
<1>11. InvSplitting'
  BY <1>2, <1>6, PlaceKept DEF IInv
<1>12. TypeOK'
  <2>1. worker' \in [Workers -> WorkerStates]
    BY <1>1, <1>4 DEF IInv, TypeOK, WorkerStates
  <2> QED
    BY <1>1, <1>2, <1>8, <2>1 DEF IInv, TypeOK, ProducerTypeOK, WorkerStates
<1> QED
  BY <1>8, <1>10, <1>11, <1>12 DEF IInv

-----------------------------------------------------------------------------
(* The producer.                                                           *)

\* What a step of the producer leaves alone.
LEMMA ProduceFrame ==
  ASSUME IInv, Produce
  PROVE  UNCHANGED <<task, rows, imported, inDoubt, mode, worker, errors, crashes>> /\ mode = "up"
  BY DEF Produce, dbVars

\* A batch of the previous run goes to the buffer.
LEMMA NextPendingBatchKeeps ==
  ASSUME IInv, Produce, NextPendingBatch
  PROVE  IInv'
<1>1. /\ UNCHANGED <<task, batchFiles, errorFiles, rows, imported, inDoubt, mode, worker, errors, crashes,
                     lastBatchNumber, numLinesTaken, lineFromPreviousBatch, batchSize>>
      /\ mode = "up" /\ producer = "next"
  BY ProduceFrame DEF NextPendingBatch, stateVars
<1>2. PICK n \in pendingBatches :
         /\ pendingBatches' = pendingBatches \ {n}
         /\ produced' = produced \cup {n}
         /\ producer' = IF ProducerDone(pendingBatches \ {n}) THEN "finished" ELSE "next"
  BY DEF NextPendingBatch
<1>3. \A w \in Workers : Progress(w)'
  BY <1>1, UntouchedFiles, ProgressKept DEF IInv, InvImporting
<1>4. /\ StateTypeOK' /\ InvBatches' /\ InvErrorFiles' /\ InvImporting'
      /\ Batches' = Batches /\ PendingBatches' = PendingBatches
      /\ LastOffset' = LastOffset /\ LastBatchNumber' = LastBatchNumber
      /\ batchGenerationCompleted' = batchGenerationCompleted
      /\ GoodLines' = GoodLines /\ NumLines' = NumLines /\ BatchSizes' = BatchSizes
  BY <1>1, <1>3, Resting
<1>5. pendingBatches' \cup produced' = pendingBatches \cup produced
  BY <1>2
<1>6. \A w \in Workers : HoldsAlone(w)'
  BY <1>1, <1>4, <1>5 DEF IInv, InvHanding, HoldsAlone, Batch
<1>7. InvHanding'
  BY <1>1, <1>2, <1>4, <1>5, <1>6 DEF IInv, InvHanding
<1>8. InvSplitting'
  BY <1>1, <1>2, <1>4 DEF IInv, InvSplitting, ProducerDone
<1>9. TypeOK'
  BY <1>1, <1>2, <1>4 DEF IInv, TypeOK, ProducerTypeOK
<1> QED
  BY <1>4, <1>7, <1>8, <1>9 DEF IInv

\* The lines in error of the next batch are stored: the files they replace are
\* of no earlier batch.
LEMMA FinalizeErrorsKeeps ==
  ASSUME IInv, Produce, FinalizeErrors
  PROVE  IInv'
<1>1. /\ UNCHANGED <<task, batchFiles, rows, imported, inDoubt, mode, worker, errors, crashes, pendingBatches,
                     lastBatchNumber, numLinesTaken, lineFromPreviousBatch, batchSize, produced>>
      /\ mode = "up" /\ producer = "next" /\ producer' = "finalize" /\ pendingBatches = {}
      /\ isLastBatch \/ lastBatchNumber < MaxBatchNumber
      /\ FinalizeRowProcessingErrorsForBatch(lastBatchNumber + 1, isLastBatch, BadLinesRead)
  BY ProduceFrame DEF FinalizeErrors
<1> DEFINE nn == IF isLastBatch THEN LAST_SPLIT_NUM ELSE lastBatchNumber + 1
           f == [number |-> nn, lines |-> BadLinesRead]
<1>2. /\ ~batchGenerationCompleted /\ lastBatchNumber = LastBatchNumber
      /\ lastBatchNumber \in BatchNumbers /\ task \in Tasks
  BY <1>1 DEF IInv, InvSplitting, TypeOK, StateTypeOK, ProducerTypeOK
<1>3. nn \in BatchNumbers /\ lastBatchNumber \in Nat /\ nn \notin 1 .. LastBatchNumber
  BY <1>1, <1>2, TaskFacts DEF BatchNumbers, LAST_SPLIT_NUM
<1>4. /\ \A g \in errorFiles : g.number \in 1 .. LastBatchNumber => g \in errorFiles'
      /\ BadLinesRead # {} => f \in errorFiles'
      /\ errorFiles' \subseteq errorFiles \cup {f}
  BY <1>1, <1>2, <1>3 DEF FinalizeRowProcessingErrorsForBatch, OldErrorFiles, SameName
<1>5. /\ NumLines' = NumLines /\ BadLines' = BadLines /\ BigLines' = BigLines
      /\ GoodLines' = GoodLines /\ BatchSizes' = BatchSizes
  BY <1>1, SameTask
<1>6. /\ Batches' = Batches /\ LastOffset' = LastOffset /\ LastBatchNumber' = LastBatchNumber
      /\ batchGenerationCompleted' = batchGenerationCompleted /\ PendingBatches' = PendingBatches
  BY <1>1 DEF Batches, LastOffset, LastBatchNumber, batchGenerationCompleted, PendingBatches, InState
<1>7. isLastBatch' = isLastBatch /\ BadLinesRead' = BadLinesRead
  BY <1>1, <1>5 DEF isLastBatch, StopLines, Overflows, WrittenBefore, Carried, BadLinesRead
<1>8. StateTypeOK'
  <2>1. f \in [number : BatchNumbers, lines : SUBSET BadLines]
    BY <1>3 DEF BadLinesRead
  <2> QED
    BY <1>1, <1>4, <1>5, <2>1 DEF IInv, TypeOK, StateTypeOK
<1>9. InvBatches'
  BY <1>1, <1>5, <1>6 DEF IInv, InvBatches, LinesOf
<1>10. InvErrorFiles'
  BY <1>2, <1>4, <1>5, <1>6 DEF IInv, InvErrorFiles
<1>11. InvSplitting'
  BY <1>1, <1>2, <1>4, <1>6, <1>7 DEF IInv, InvSplitting
<1>12. InvHanding'
  <2>1. \A w \in Workers : HoldsAlone(w)'
    BY <1>1, <1>6 DEF IInv, InvHanding, HoldsAlone, Batch
  <2> QED
    BY <1>1, <1>6, <2>1 DEF IInv, InvHanding
<1>13. InvImporting'
  <2>1. \A l : InTable(l)' = InTable(l)
    BY <1>1 DEF InTable, IgnoreConflicts, ExistingLines
  <2>2. \A n : LinesOf(n)' = LinesOf(n) /\ BatchInTable(n)' = BatchInTable(n)
    BY <1>1, <2>1 DEF BatchInTable, LinesOf
  <2>3. ShouldUseFastPath' = ShouldUseFastPath
    BY <1>1, SameTask
  <2>4. \A w \in Workers : Progress(w)'
    BY <1>1, <2>1, <2>2, <2>3 DEF IInv, InvImporting, Progress, Batch
  <2>5. InState({"D"})' = InState({"D"})
    BY <1>1, <1>6 DEF InState
  <2> QED
    BY <1>1, <1>5, <1>6, <2>2, <2>3, <2>4, <2>5 DEF IInv, InvImporting
<1>14. TypeOK'
  BY <1>1, <1>5, <1>8 DEF IInv, TypeOK, ProducerTypeOK
<1> QED
  BY <1>9, <1>10, <1>11, <1>12, <1>13, <1>14 DEF IInv

\* LastOffset and LastBatchNumber are the largest in the names of the files.
NamesRead ==
  /\ LastOffset \in 0 .. NumLines
  /\ \A n \in Batches : batchFiles[n].offsetEnd <= LastOffset
  /\ LastOffset = 0 \/ \E n \in Batches : batchFiles[n].offsetEnd = LastOffset
  /\ LastBatchNumber \in BatchNumbers
  /\ \A n \in Batches : n <= LastBatchNumber
  /\ LastBatchNumber = 0 \/ LastBatchNumber \in Batches

\* Largest, as a formula that is always true.
LEMMA LargestAlways == StateTypeOK => NamesRead
  BY Largest DEF NamesRead

\* The line of the file at which the batch being made ends.
StopLine == IF isLastBatch THEN NumLines + 1 ELSE Min(StopLines)

\* The batch being made holds what is between the last offset and its end.
LEMMA NextBatch ==
  ASSUME IInv, producer = "finalize"
  PROVE  /\ StopLine \in Nat /\ LastOffset < StopLine /\ StopLine <= NumLines + 1
         /\ OffsetEnd = StopLine - 1
         /\ BatchLines = {l \in GoodLines : LastOffset < l /\ l < StopLine}
         /\ ~isLastBatch => Min(StopLines) = StopLine /\ StopLine \in GoodLines
         /\ \A l \in BadLines : LastOffset < l /\ l < StopLine => l \in BadLinesRead
<1>1. /\ task \in Tasks /\ StateTypeOK /\ numLinesTaken \in 0 .. NumLines
      /\ lineFromPreviousBatch \in {0} \cup GoodLines
      /\ \/ lineFromPreviousBatch = 0 /\ numLinesTaken = LastOffset
         \/ lineFromPreviousBatch = numLinesTaken /\ numLinesTaken = LastOffset + 1
  BY DEF IInv, TypeOK, StateTypeOK, ProducerTypeOK, InvSplitting
<1>2. NumLines \in Nat \ {0} /\ GoodLines \subseteq Nat /\ BadLines \subseteq Nat /\ LastOffset \in Nat
      /\ BadLines \cap GoodLines = {} /\ GoodLines \subseteq 1 .. NumLines
  BY <1>1, TaskFacts, Largest DEF GoodLines, Lines
<1>3. ASSUME ~isLastBatch
      PROVE  /\ Min(StopLines) = StopLine /\ StopLine \in GoodLines /\ numLinesTaken < StopLine
  <2>1. StopLines \in SUBSET Nat /\ StopLines # {}
    BY <1>2, <1>3 DEF isLastBatch, StopLines
  <2>2. Min(StopLines) \in StopLines
    BY <2>1, MinOfNats
  <2> QED
    BY <1>2, <1>3, <2>2 DEF StopLine, StopLines, Overflows
<1>4. StopLine \in Nat /\ numLinesTaken < StopLine /\ StopLine <= NumLines + 1
  <2>1. CASE isLastBatch
    BY <1>1, <1>2, <2>1 DEF StopLine
  <2>2. CASE ~isLastBatch
    <3>1. StopLine \in GoodLines /\ numLinesTaken < StopLine
      BY <1>3, <2>2
    <3>2. StopLine \in 1 .. NumLines
      BY <1>2, <3>1
    <3> QED
      BY <1>2, <3>1, <3>2
  <2> QED
    BY <2>1, <2>2
<1>5. OffsetEnd = StopLine - 1
  BY <1>2, <1>3 DEF OffsetEnd, StopLine
<1>6. BatchLines = WrittenBefore(StopLine)
  BY DEF BatchLines, StopLine
<1>7. BatchLines = {l \in GoodLines : LastOffset < l /\ l < StopLine}
  <2>1. CASE lineFromPreviousBatch = 0 /\ numLinesTaken = LastOffset
    BY <1>6, <2>1 DEF WrittenBefore, Carried
  <2>2. CASE lineFromPreviousBatch = numLinesTaken /\ numLinesTaken = LastOffset + 1
    <3>1. Carried = {LastOffset + 1} /\ LastOffset + 1 \in GoodLines /\ LastOffset + 1 < StopLine
      BY <1>1, <1>2, <1>4, <2>2 DEF Carried
    <3>2. BatchLines = {LastOffset + 1} \cup {l \in GoodLines : LastOffset + 1 < l /\ l < StopLine}
      BY <1>6, <2>2, <3>1 DEF WrittenBefore
    <3>3. \A l \in GoodLines : LastOffset < l <=> l = LastOffset + 1 \/ LastOffset + 1 < l
      BY <1>2
    <3> QED
      BY <3>1, <3>2, <3>3
  <2> QED
    BY <1>1, <2>1, <2>2
<1>8. ASSUME NEW l \in BadLines, LastOffset < l, l < StopLine PROVE l \in BadLinesRead
  <2>1. numLinesTaken < l
    <3>1. CASE numLinesTaken = LastOffset
      BY <1>8, <3>1
    <3>2. CASE lineFromPreviousBatch = numLinesTaken /\ numLinesTaken = LastOffset + 1
      <4>1. LastOffset + 1 \in GoodLines
        BY <1>1, <1>2, <3>2
      <4>2. l # LastOffset + 1
        BY <1>2, <4>1
      <4> QED
        BY <1>2, <1>8, <3>2, <4>2
    <3> QED
      BY <1>1, <3>1, <3>2
  <2> QED
    BY <1>3, <1>8, <2>1 DEF BadLinesRead
<1> QED
  BY <1>1, <1>2, <1>3, <1>4, <1>5, <1>7, <1>8

\* The new batch file.
LEMMA FinalizeBatchKeeps ==
  ASSUME IInv, Produce, FinalizeBatch
  PROVE  IInv'
<1>0. PICK n, c, new, old, last :
         /\ n = IF isLastBatch THEN LAST_SPLIT_NUM ELSE lastBatchNumber + 1
         /\ c = StopLine /\ new = BatchLines /\ old = LastOffset /\ last = LastBatchNumber
  OBVIOUS
<1> DEFINE r == [state |-> "C", lines |-> new, offsetEnd |-> c - 1, note |-> "none"]
<1>1. /\ UNCHANGED <<task, errorFiles, rows, imported, inDoubt, mode, worker, errors, crashes,
                     pendingBatches, batchSize>>
      /\ mode = "up" /\ producer = "finalize" /\ pendingBatches = {}
      /\ produced' = produced \cup {n}
      /\ producer' = IF isLastBatch THEN "finished" ELSE "next"
  BY <1>0, ProduceFrame DEF FinalizeBatch, IInv, InvSplitting
<1>2. /\ ~batchGenerationCompleted /\ lastBatchNumber = last
      /\ lastBatchNumber \in BatchNumbers /\ task \in Tasks /\ StateTypeOK
      /\ isLastBatch \/ lastBatchNumber < MaxBatchNumber
  BY <1>0, <1>1 DEF IInv, InvSplitting, TypeOK, StateTypeOK, ProducerTypeOK
<1>3. /\ c \in Nat /\ old < c /\ c <= NumLines + 1 /\ OffsetEnd = c - 1
      /\ new = {l \in GoodLines : old < l /\ l < c}
      /\ ~isLastBatch => Min(StopLines) = c /\ c \in GoodLines
      /\ isLastBatch => c = NumLines + 1
      /\ \A l \in BadLines : old < l /\ l < c => l \in BadLinesRead
  BY <1>0, <1>1, NextBatch DEF StopLine
<1>4. /\ NumLines' = NumLines /\ BadLines' = BadLines
      /\ GoodLines' = GoodLines /\ BatchSizes' = BatchSizes
      /\ NumLines \in Nat /\ GoodLines \subseteq Nat /\ BadLines \subseteq Nat
      /\ old \in Nat /\ last \in Nat /\ Batches \subseteq Nat
  <2>1. NumLines \in Nat /\ GoodLines \subseteq Nat /\ BadLines \subseteq Nat /\ BatchNumbers \subseteq Nat
    BY <1>2, TaskFacts DEF Lines
  <2>2. LastOffset \in Nat /\ LastBatchNumber \in Nat /\ Batches \subseteq Nat
    <3>1. LastOffset \in 0 .. NumLines /\ LastBatchNumber \in BatchNumbers
      BY <1>2, LargestAlways, Zenon DEF NamesRead
    <3>2. Batches \subseteq BatchNumbers
      BY DEF Batches
    <3> QED
      BY <2>1, <3>1, <3>2
  <2> QED
    BY <1>0, <1>1, <2>1, <2>2, SameTask
<1>5. /\ n \in BatchNumbers /\ n \notin Batches
      /\ isLastBatch => n = 0
      /\ ~isLastBatch => n = last + 1
  <2>1. \A m \in Batches : m <= last
    BY <1>0, <1>2, Largest
  <2>2. MaxBatchNumber \in Nat
    BY <1>2, TaskFacts
  <2>3. CASE isLastBatch
    BY <1>0, <1>2, <2>2, <2>3 DEF BatchNumbers, LAST_SPLIT_NUM, batchGenerationCompleted
  <2>4. CASE ~isLastBatch
    BY <1>0, <1>2, <1>4, <2>1, <2>2, <2>4 DEF BatchNumbers
  <2> QED
    BY <2>3, <2>4
<1>6. /\ batchFiles' = [batchFiles EXCEPT ![n] = r]
      /\ lastBatchNumber' = IF isLastBatch THEN last ELSE last + 1
      /\ numLinesTaken' = IF isLastBatch THEN NumLines ELSE c
      /\ lineFromPreviousBatch' = IF isLastBatch THEN 0 ELSE c
  BY <1>0, <1>2, <1>3 DEF FinalizeBatch
<1>7. /\ batchFiles'[n] = r /\ \A m \in BatchNumbers \ {n} : batchFiles'[m] = batchFiles[m]
  BY <1>2, <1>5, <1>6 DEF StateTypeOK
<1>8. r.state = "C" /\ r.lines = new /\ r.offsetEnd = c - 1 /\ r.note = "none"
  OBVIOUS
<1>9. StateTypeOK'
  <2>1. r \in [state : {"none", "C", "P", "D", "E"}, lines : SUBSET GoodLines,
               offsetEnd : 0 .. NumLines, note : {"none", "error", "partial"}]
    BY <1>3, <1>4
  <2> HIDE DEF r
  <2> QED
    BY <1>1, <1>2, <1>4, <1>5, <1>6, <2>1 DEF StateTypeOK
<1> HIDE DEF r
<1>10. Batches' = Batches \cup {n}
  BY <1>5, <1>7, <1>8 DEF Batches
<1>11. \A m \in Batches : /\ m \in BatchNumbers \ {n} /\ batchFiles'[m] = batchFiles[m]
                          /\ LinesOf(m)' = LinesOf(m)
  BY <1>5, <1>7 DEF Batches, LinesOf
<1>12. LinesOf(n)' = new
  BY <1>7, <1>8 DEF LinesOf
<1>13. LastOffset' = c - 1 /\ LastBatchNumber' = IF isLastBatch THEN last ELSE last + 1
  <2>1. NamesRead'
    BY <1>9, LargestAlways, PTL
  <2>2. /\ LastOffset' \in Nat
        /\ \A m \in Batches' : batchFiles'[m].offsetEnd <= LastOffset'
        /\ LastOffset' = 0 \/ \E m \in Batches' : batchFiles'[m].offsetEnd = LastOffset'
        /\ \A m \in Batches' : m <= LastBatchNumber'
        /\ LastBatchNumber' = 0 \/ LastBatchNumber' \in Batches'
        /\ LastBatchNumber' \in BatchNumbers'
    BY <1>4, <2>1 DEF NamesRead
  <2>3. \A m \in Batches : batchFiles'[m].offsetEnd <= old /\ m <= last
    BY <1>0, <1>2, <1>11, Largest
  <2>4. LastOffset' = c - 1
    <3>1. \A m \in Batches' : batchFiles'[m].offsetEnd \in Nat
      BY <1>4, <1>9 DEF StateTypeOK, Batches
    <3>2. c - 1 <= LastOffset'
      BY <1>7, <1>8, <1>10, <2>2
    <3>3. old <= c - 1 /\ 0 <= c - 1
      BY <1>3, <1>4
    <3>4. \A m \in Batches' : batchFiles'[m].offsetEnd <= c - 1
      BY <1>3, <1>4, <1>7, <1>8, <1>10, <2>3, <3>1, <3>3
    <3>5. LastOffset' <= c - 1
      BY <2>2, <3>3, <3>4
    <3> QED
      BY <1>3, <2>2, <3>2, <3>5
  <2>5. LastBatchNumber' \in Nat /\ (last = 0 \/ last \in Batches)
    BY <1>0, <1>2, <2>2, Largest, TaskFacts DEF BatchNumbers
  <2>6. LastBatchNumber' = IF isLastBatch THEN last ELSE last + 1
    BY <1>4, <1>5, <1>10, <2>2, <2>3, <2>5
  <2> QED
    BY <2>4, <2>6
<1>14. batchGenerationCompleted' => isLastBatch
  BY <1>2, <1>4, <1>5, <1>10 DEF batchGenerationCompleted, LAST_SPLIT_NUM

<1>15. InvBatches'
  <2>1. \A m \in Batches : \A l \in LinesOf(m) : l \in GoodLines /\ l <= old
    BY <1>0, <1>2 DEF IInv, InvBatches, LinesOf, StateTypeOK, Batches
  <2>2. \A m \in Batches' : \A l \in LinesOf(m)' : l <= c - 1
    BY <1>3, <1>4, <1>10, <1>11, <1>12, <2>1
  <2>3. ASSUME NEW m \in Batches PROVE LinesOf(m) \cap new = {}
    <3>1. \A l \in new : l \in Nat /\ ~(l <= old)
      BY <1>3, <1>4
    <3> QED
      BY <2>1, <3>1
  <2>4. \A k, m \in Batches' : k # m => LinesOf(k)' \cap LinesOf(m)' = {}
    BY <1>10, <1>11, <1>12, <2>3 DEF IInv, InvBatches
  <2>5. ASSUME NEW l \in GoodLines, l <= c - 1 PROVE \E m \in Batches' : l \in LinesOf(m)'
    <3>1. CASE l <= old
      BY <1>0, <1>10, <1>11, <2>5, <3>1 DEF IInv, InvBatches
    <3>2. CASE ~(l <= old)
      <4>1. l \in new
        BY <1>3, <1>4, <2>5, <3>2
      <4> QED
        BY <1>10, <1>12, <4>1
    <3> QED
      BY <3>1, <3>2
  <2>6. batchGenerationCompleted' => c - 1 = NumLines
    BY <1>3, <1>4, <1>14
  <2> QED
    BY <1>4, <1>13, <2>2, <2>4, <2>5, <2>6 DEF InvBatches
<1>16. InvErrorFiles'
  <2>1. ASSUME NEW l \in BadLines, l <= c - 1
        PROVE  \E f \in errorFiles : /\ l \in f.lines
                                     /\ batchGenerationCompleted' \/ f.number \in 1 .. LastBatchNumber'
    <3>1. CASE l <= old
      <4>1. PICK f \in errorFiles : l \in f.lines /\ f.number \in 1 .. last
        BY <1>0, <1>2, <2>1, <3>1 DEF IInv, InvErrorFiles
      <4> QED
        BY <1>4, <1>13, <4>1
    <3>2. CASE ~(l <= old)
      <4>1. l \in BadLinesRead
        BY <1>3, <1>4, <2>1, <3>2
      <4>2. PICK f \in errorFiles : l \in f.lines /\ (isLastBatch \/ f.number = last + 1)
        BY <1>1, <1>2, <4>1 DEF IInv, InvSplitting
      <4>3. isLastBatch => batchGenerationCompleted'
        BY <1>5, <1>10 DEF batchGenerationCompleted, LAST_SPLIT_NUM
      <4> QED
        BY <1>4, <1>13, <4>2, <4>3
    <3> QED
      BY <3>1, <3>2
  <2> QED
    BY <1>1, <1>4, <1>13, <2>1 DEF InvErrorFiles
<1>17. InvSplitting'
  BY <1>1, <1>3, <1>4, <1>6, <1>13, <1>14 DEF InvSplitting
<1>18. InvHanding'
  <2>1. n \in PendingBatches' /\ PendingBatches \subseteq PendingBatches'
    BY <1>7, <1>8, <1>10, <1>11 DEF PendingBatches, InState
  <2>2. \A w \in Workers : HoldsAlone(w)'
    BY <1>1, <1>5, <1>10, <1>11 DEF IInv, InvHanding, HoldsAlone, Batch
  <2> QED
    BY <1>1, <2>1, <2>2 DEF IInv, InvHanding
<1>19. InvImporting'
  <2>1. \A l : InTable(l)' = InTable(l)
    BY <1>1 DEF InTable, IgnoreConflicts, ExistingLines
  <2>2. \A m \in Batches : BatchInTable(m)' = BatchInTable(m)
    BY <1>11, <2>1 DEF BatchInTable
  <2>3. ShouldUseFastPath' = ShouldUseFastPath
    BY <1>1, SameTask
  <2>4. ASSUME NEW w \in Workers PROVE Progress(w)'
    <3>1. CASE worker[w].pc = "idle"
      BY <1>1, <3>1 DEF Progress
    <3>2. CASE worker[w].pc # "idle"
      <4>1. Batch(w) \in Batches /\ Batch(w)' = Batch(w)
        BY <1>1, <3>2 DEF IInv, InvHanding, HoldsAlone, Batch
      <4>2. PICK b \in Batches : b = Batch(w) /\ b = Batch(w)'
        BY <4>1
      <4>3. LinesOf(b)' = LinesOf(b) /\ BatchInTable(b)' = BatchInTable(b)
        BY <1>11, <2>2
      <4> QED
        BY <1>1, <2>1, <2>3, <4>2, <4>3 DEF IInv, InvImporting, Progress
    <3> QED
      BY <3>1, <3>2
  <2>5. InState({"D"})' = InState({"D"}) /\ InState({"D"}) \subseteq Batches
    BY <1>7, <1>8, <1>10, <1>11 DEF InState
  <2>6. imported \subseteq Batches /\ inDoubt \subseteq Batches
    BY DEF IInv, InvImporting
  <2>7. ShouldUseFastPath => \A m \in Batches' : batchFiles'[m].note # "error"
    BY <1>7, <1>8, <1>10, <1>11 DEF IInv, InvImporting
  <2>8. ~ShouldUseFastPath => \A l \in GoodLines :
          rows[l] = 1 => \E m \in imported : l \in LinesOf(m)'
    BY <1>11, <2>6 DEF IInv, InvImporting
  <2>9. \A m \in imported \cup InState({"D"}) : BatchInTable(m)'
    BY <2>2, <2>5, <2>6 DEF IInv, InvImporting
  <2> QED
    BY <1>1, <1>4, <1>10, <2>3, <2>4, <2>5, <2>6, <2>7, <2>8, <2>9 DEF IInv, InvImporting
<1>20. TypeOK'
  <2>1. produced' \subseteq BatchNumbers /\ pendingBatches' \subseteq BatchNumbers /\ batchSize' \in BatchSizes
    BY <1>1, <1>5 DEF IInv, TypeOK, ProducerTypeOK
  <2>2. lastBatchNumber' \in BatchNumbers
    BY <1>2, <1>5, <1>6
  <2>3. numLinesTaken' \in 0 .. NumLines /\ lineFromPreviousBatch' \in {0} \cup GoodLines
    BY <1>3, <1>4, <1>6 DEF GoodLines, Lines
  <2>4. ProducerTypeOK'
    BY <1>1, <1>4, <2>1, <2>2, <2>3 DEF ProducerTypeOK
  <2> QED
    BY <1>1, <1>4, <1>9, <2>4 DEF IInv, TypeOK
<1> QED
  BY <1>15, <1>16, <1>17, <1>18, <1>19, <1>20 DEF IInv

-----------------------------------------------------------------------------
(* The theorems.                                                           *)

\* The first start finds nothing on disk.
LEMMA InitKeeps ==
  ASSUME Init
  PROVE  IInv
<1>1. /\ task \in Tasks /\ batchFiles = [n \in BatchNumbers |-> NoBatch] /\ errorFiles = {}
      /\ rows = [l \in GoodLines |-> 0] /\ imported = {} /\ inDoubt = {} /\ mode = "down"
      /\ worker = [w \in Workers |-> Idle] /\ errors = 0 /\ crashes = 0
      /\ producer = "off" /\ pendingBatches = {} /\ produced = {}
      /\ lastBatchNumber = 0 /\ numLinesTaken = 0 /\ lineFromPreviousBatch = 0
      /\ batchSize = CHOOSE b \in BatchSizes : TRUE
  BY DEF Init, StateInit, ProducerInit, ProducerOff
<1>2. /\ NumLines \in Nat \ {0} /\ MaxBatchNumber \in Nat \ {0} /\ GoodLines \subseteq Nat
      /\ batchSize \in BatchSizes
  BY <1>1, TaskFacts
<1>3. Batches = {}
  BY <1>1 DEF Batches, NoBatch
<1>4. StateTypeOK
  BY <1>1, <1>2 DEF StateTypeOK, NoBatch
<1>5. LastOffset = 0 /\ LastBatchNumber = 0
  BY <1>3, <1>4, LargestAlways, Zenon DEF NamesRead
<1>6. ~batchGenerationCompleted
  BY <1>3 DEF batchGenerationCompleted
<1>7. InvBatches
  BY <1>2, <1>3, <1>5, <1>6 DEF InvBatches, GoodLines, Lines
<1>8. InvErrorFiles
  <2>1. BadLines \subseteq 1 .. NumLines
    BY <1>1, TaskFacts DEF Lines
  <2> QED
    BY <1>2, <1>5, <2>1 DEF InvErrorFiles
<1>9. InvSplitting
  BY <1>1 DEF InvSplitting
<1>10. \A w \in Workers : worker[w] = Idle /\ worker[w].pc = "idle"
  BY <1>1, IdleType
<1>11. InvHanding
  BY <1>1, <1>10 DEF InvHanding, HoldsAlone
<1>12. InvImporting
  BY <1>1, <1>3, <1>10 DEF InvImporting, Progress, InState
<1>13. TypeOK
  <2>1. 0 \in BatchNumbers /\ 0 \in 0 .. NumLines /\ 0 \in 0 .. MaxErrors /\ 0 \in 0 .. MaxCrashes
        /\ 0 \in 0 .. MaxErrors + MaxCrashes + 1
    BY <1>2, SnapshotAssumption DEF BatchNumbers
  <2>2. ProducerTypeOK
    BY <1>1, <1>2, <2>1 DEF ProducerTypeOK
  <2>3. worker \in [Workers -> WorkerStates]
    BY <1>1, IdleType
  <2> QED
    BY <1>1, <1>4, <2>1, <2>2, <2>3 DEF TypeOK, WorkerStates
<1> QED
  BY <1>7, <1>8, <1>9, <1>11, <1>12, <1>13 DEF IInv

\* Every step of a worker with its batch.
LEMMA ImportBatchKeeps ==
  ASSUME IInv, NEW w \in Workers, ImportBatch(w)
  PROVE  IInv'
<1>1. CASE AbortOnError(w)
  BY <1>1, ProcessGoneKeeps DEF AbortOnError, IInv, TypeOK
<1> QED
  BY <1>1, MarkInProgressKeeps, MovesKeep, CopyKeeps, CopyErrorKeeps, FastCopyKeeps, RecoverKeeps,
     RecordKeeps, RenamesKeep, AppendErrorMessageKeeps DEF ImportBatch

\* IInv is an invariant: whatever the commands, the producer, the workers and the
\* target do, and wherever the process is killed.
THEOREM Invariance == Spec => []IInv
<1>1. Init => IInv
  BY InitKeeps
<1>2. IInv /\ [Next]_vars => IInv'
  <2> SUFFICES ASSUME IInv, [Next]_vars PROVE IInv'
    OBVIOUS
  <2>1. CASE StartImport
    BY <2>1, StartImportKeeps
  <2>2. CASE Produce
    BY <2>2, NextPendingBatchKeeps, FinalizeErrorsKeeps, FinalizeBatchKeeps DEF Produce, ProducerNext
  <2>3. CASE FinishTask
    BY <2>3, FinishTaskKeeps
  <2>4. CASE ProducerExit
    BY <2>4, ProcessGoneKeeps DEF ProducerExit, IInv, TypeOK
  <2>5. CASE Crash
    <3>1. crashes' \in 0 .. MaxCrashes /\ errors' \in 0 .. MaxErrors
      BY <2>5, SnapshotAssumption DEF Crash, IInv, TypeOK
    <3> QED
      BY <2>5, <3>1, ProcessGoneKeeps DEF Crash
  <2>6. CASE ExitEarly
    BY <2>6, ExitEarlyKeeps
  <2>7. CASE \E w \in Workers : SubmitBatch(w) \/ ImportBatch(w)
    BY <2>7, SubmitBatchKeeps, ImportBatchKeeps
  <2>8. CASE \E n \in BatchNumbers : CommitLands(n) \/ CommitAborts(n)
    BY <2>8, InDoubtKeeps
  <2>9. CASE UNCHANGED vars
    <3>1. UNCHANGED <<task, batchFiles, errorFiles, rows, imported, inDoubt, mode, worker, errors, crashes,
                      producer, pendingBatches, lastBatchNumber, numLinesTaken, lineFromPreviousBatch,
                      batchSize, produced>>
      BY <2>9 DEF vars, stateVars, producerVars, dbVars
    <3>2. \A w \in Workers : Progress(w)'
      BY <3>1, UntouchedFiles, ProgressKept DEF IInv, InvImporting
    <3>3. /\ SameSplit /\ StateTypeOK' /\ InvBatches' /\ InvErrorFiles' /\ InvImporting'
          /\ Batches' = Batches /\ PendingBatches' = PendingBatches
          /\ GoodLines' = GoodLines /\ NumLines' = NumLines /\ BatchSizes' = BatchSizes
      BY <3>1, <3>2, Resting
    <3>4. InvSplitting'
      BY <3>1, <3>3, PlaceKept DEF IInv
    <3>5. InvHanding'
      BY <3>1, <3>3 DEF IInv, InvHanding, HoldsAlone, Batch
    <3>6. TypeOK'
      BY <3>1, <3>3 DEF IInv, TypeOK, ProducerTypeOK
    <3> QED
      BY <3>3, <3>4, <3>5, <3>6 DEF IInv
  <2>10. CASE WaitForBatches \/ Finished
    BY <2>9, <2>10 DEF WaitForBatches, Finished
  <2> QED
    BY <2>1, <2>2, <2>3, <2>4, <2>5, <2>6, <2>7, <2>8, <2>9, <2>10 DEF Next
<1> QED
  BY <1>1, <1>2, PTL DEF Spec

\* The variables keep their types; no record is in the table more often than there
\* can be errors and kills, and no worker retries past COPY_MAX_RETRY_COUNT.
THEOREM SnapshotTypeCorrect == Spec => []TypeOK
  BY Invariance, PTL DEF IInv

\* importBatch never puts a record in the table twice, with or without a primary
\* key, over retries, restarts and commits whose answer is lost.
THEOREM NothingImportedTwice == Spec => []NoDuplicateRows
<1>1. IInv => NoDuplicateRows
  BY DEF IInv, InvImporting, NoDuplicateRows
<1> QED
  BY <1>1, Invariance, PTL

\* The batch files and the files of processing errors account for every line of
\* the data file up to the offset at which a restart resumes, each good one once.
THEOREM EveryRecordAccounted == Spec => []FileAccounted
<1>1. ASSUME IInv PROVE FileAccounted
  <2>1. SUFFICES ASSUME NEW l \in Lines
        PROVE  IF l > LastOffset THEN {n \in Batches : l \in LinesOf(n)} = {}
               ELSE IF l \in BadLines THEN \E f \in errorFiles : l \in f.lines
               ELSE Cardinality({n \in Batches : l \in LinesOf(n)}) = 1
    BY DEF FileAccounted
  <2> DEFINE holders == {n \in Batches : l \in LinesOf(n)}
  <2>2. task \in Tasks /\ StateTypeOK
    BY <1>1 DEF IInv, TypeOK, StateTypeOK
  <2>3. l \in Nat /\ LastOffset \in Nat
    <3>1. NumLines \in Nat /\ LastOffset \in 0 .. NumLines
      BY <2>2, TaskFacts, LargestAlways, Zenon DEF NamesRead
    <3> QED
      BY <2>1, <3>1 DEF Lines
  <2>4. CASE l > LastOffset
    <3>1. \A n \in Batches : l \notin LinesOf(n)
      BY <1>1, <2>3, <2>4 DEF IInv, InvBatches
    <3> QED
      BY <2>4, <3>1
  <2>5. CASE ~(l > LastOffset) /\ l \in BadLines
    BY <1>1, <2>3, <2>5 DEF IInv, InvErrorFiles
  <2>6. CASE ~(l > LastOffset) /\ l \notin BadLines
    <3>1. PICK n \in Batches : l \in LinesOf(n)
      BY <1>1, <2>3, <2>6 DEF IInv, InvBatches, GoodLines
    <3>2. \A m \in Batches : l \in LinesOf(m) => m = n
      BY <1>1, <3>1 DEF IInv, InvBatches
    <3>3. holders = {n}
      BY <3>1, <3>2
    <3>4. Cardinality(holders) = 1
      BY <3>3, FS_Singleton
    <3> QED
      BY <2>6, <3>4
  <2> QED
    BY <2>4, <2>5, <2>6
<1> QED
  BY <1>1, Invariance, PTL

\* The states in the names of the batch files tell the truth: a batch marked .D is in
\* the table, a file reported completed leaves no record out, and a .E batch of the
\* fast path without the partial note has put nothing in the table.
THEOREM NamesTellTruth == Spec => []StatesTellTruth
<1>1. ASSUME IInv PROVE StatesTellTruth
  <2>1. \A n \in InState({"D"}) : \A l \in LinesOf(n) : rows[l] = 1 \/ (IgnoreConflicts /\ l \in ExistingLines)
    BY <1>1 DEF IInv, InvImporting, BatchInTable, InTable
  <2>2. ASSUME AllBatchesImported
        PROVE  /\ \A l \in GoodLines : \/ rows[l] = 1 \/ (IgnoreConflicts /\ l \in ExistingLines)
                                       \/ \E n \in InState({"E"}) : l \in LinesOf(n)
               /\ \A l \in BadLines : \E f \in errorFiles : l \in f.lines
    <3>1. InState({"D", "E"}) = Batches /\ batchGenerationCompleted
      BY <2>2 DEF AllBatchesImported, GetFileImportState, InState
    <3>2. LastOffset = NumLines
      BY <1>1, <3>1 DEF IInv, InvBatches
    <3>3. \A l \in Lines : l <= LastOffset
      <4>1. NumLines \in Nat
        BY <1>1, TaskFacts DEF IInv, TypeOK, StateTypeOK
      <4> QED
        BY <3>2, <4>1 DEF Lines
    <3>4. \A l \in GoodLines : \E n \in Batches : l \in LinesOf(n)
      BY <1>1, <3>3 DEF IInv, InvBatches, GoodLines
    <3>5. \A n \in Batches : n \in InState({"D"}) \/ n \in InState({"E"})
      BY <3>1 DEF InState
    <3>6. BadLines \subseteq Lines
      BY <1>1, TaskFacts DEF IInv, TypeOK, StateTypeOK
    <3>7. \A l \in BadLines : \E f \in errorFiles : l \in f.lines
      BY <1>1, <3>3, <3>6 DEF IInv, InvErrorFiles
    <3> QED
      BY <2>1, <3>4, <3>5, <3>7
  <2>3. ShouldUseFastPath => \A n \in InState({"E"}) : batchFiles[n].note # "error"
    BY <1>1 DEF IInv, InvImporting, InState
  <2> QED
    BY <2>1, <2>2, <2>3 DEF StatesTellTruth
<1> QED
  BY <1>1, Invariance, PTL
=============================================================================
