----------------------------- MODULE FileTasks ------------------------------
(***************************************************************************)
(* The import of all data files of a snapshot by one command: the task     *)
(* picker says which file to go on with, its next batch is handed to a     *)
(* pool of workers, and a colocated table's batches go through a queue of  *)
(* their own with a consumer and a smaller pool.  What happens inside a    *)
(* batch is the subject of SnapshotImport: here it is waiting ("C"), in    *)
(* progress or interrupted ("P"), or done ("D") on disk.                   *)
(***************************************************************************)
EXTENDS Naturals, Sequences, SequencesExt, FiniteSets

CONSTANTS
  Files,             \* the data files there may be, by descending size
  maxParallelConns,  \* also the limit on sharded files in progress
  maxColocatedBatchesInProgress

ASSUME TasksAssumption ==
  /\ maxParallelConns \in Nat \ {0}
  /\ maxColocatedBatchesInProgress \in Nat \ {0}

VARIABLES
  batch,             \* the batch files on disk: task -> number -> state
  picker,            \* the task picker
  tableTypes,        \* table -> "COLOCATED", "SHARDED" or, on other targets, "PLAIN"
  taskImporters,     \* task -> batches not yet submitted, [left, ready]
  colocatedBatchImportQueue,
  consumer,          \* the batch the queue's consumer holds, or None
  running,           \* batches in the pools, [colocated, other]
  submitting,        \* the batch the loop is handing over, or None
  loop               \* importTasksViaTaskPicker: "off", "on", "done" or "error"

loopVars == <<picker, tableTypes, taskImporters, colocatedBatchImportQueue, consumer,
              running, submitting, loop>>
taskVars == <<batch, loopVars>>

TaskSet == DOMAIN batch
Tasks == SelectSeq(Files, LAMBDA t : t \in TaskSet)
None == <<>>
NoPicker == [inProgressColocated |-> {}, inProgressSharded |-> {},
             pendingColocated |-> {}, orderedPendingSharded |-> <<>>]

TasksInit(numBatches) ==
  /\ batch = [t \in DOMAIN numBatches |-> [n \in 1 .. numBatches[t] |-> "C"]]
  /\ picker = NoPicker /\ taskImporters = <<>> /\ tableTypes = <<>>
  /\ colocatedBatchImportQueue = <<>> /\ consumer = None
  /\ running = [colocated |-> {}, other |-> {}]
  /\ submitting = None /\ loop = "off"

-----------------------------------------------------------------------------
GetFileImportState(t) ==
  LET states == Range(batch[t])
  IN IF states = {"D"} THEN "COMPLETED"
     ELSE IF states = {"C"} THEN "NOT_STARTED" ELSE "IN_PROGRESS"

TasksIn(state) == SelectSeq(Tasks, LAMBDA t : GetFileImportState(t) = state)

\* classifyTasksForImport: the files in progress first.
PendingTasks == TasksIn("IN_PROGRESS") \o TasksIn("NOT_STARTED")

Among(tasks, k) == SelectSeq(tasks, LAMBDA t : tableTypes'[t] = k)
Upto(s, n) == SubSeq(s, 1, IF Len(s) < n THEN Len(s) ELSE n)
Beyond(s, n) == SubSeq(s, n + 1, Len(s))

\* sortTasksBySizeDesc: Tasks is in that order.
SortBySizeDesc(s) == SelectSeq(Tasks, LAMBDA t : t \in Range(s))

NewColocatedCappedRandomTaskPicker ==
  LET colocated == Among(TasksIn("IN_PROGRESS"), "COLOCATED")
      sharded == Among(TasksIn("IN_PROGRESS"), "SHARDED")
      new == TasksIn("NOT_STARTED")
  IN [inProgressColocated |-> Range(Upto(colocated, maxColocatedBatchesInProgress)),
      inProgressSharded |-> Range(Upto(sharded, maxParallelConns)),
      pendingColocated |-> Range(Beyond(colocated, maxColocatedBatchesInProgress))
                             \cup Range(Among(new, "COLOCATED")),
      orderedPendingSharded |->
        SortBySizeDesc(Beyond(sharded, maxParallelConns) \o Among(new, "SHARDED"))]

\* NewSequentialTaskPicker, for targets other than YugabyteDB: one file in
\* progress, and an error when it finds two.
NewSequentialTaskPicker ==
  [NoPicker EXCEPT !.inProgressSharded = Range(TasksIn("IN_PROGRESS")),
                   !.orderedPendingSharded = TasksIn("NOT_STARTED")]

\* importTasksViaTaskPicker starts; types are those of getTableTypes.
StartImportTasks(types) ==
  /\ loop = "off"
  /\ tableTypes' = types
  /\ IF \E t \in TaskSet : types[t] = "PLAIN"
     THEN /\ picker' = NewSequentialTaskPicker
          /\ loop' = IF Len(TasksIn("IN_PROGRESS")) > 1 THEN "error" ELSE "on"
     ELSE picker' = NewColocatedCappedRandomTaskPicker /\ loop' = "on"
  /\ UNCHANGED <<batch, taskImporters, colocatedBatchImportQueue, consumer, running, submitting>>

-----------------------------------------------------------------------------
(* Pick: the tasks it may return, and the picker afterwards.               *)

InProgressTasks == picker.inProgressColocated \cup picker.inProgressSharded
HasMoreColocatedTasks == picker.inProgressColocated \cup picker.pendingColocated # {}
HasMoreShardedTasks ==
  picker.inProgressSharded # {} \/ picker.orderedPendingSharded # <<>>
HasMoreTasks == HasMoreColocatedTasks \/ HasMoreShardedTasks

Choice(t, p) == [task |-> t, picker |-> p]

pickPendingColocated ==
  IF Cardinality(picker.inProgressColocated) < maxColocatedBatchesInProgress
  THEN {Choice(t, [picker EXCEPT !.pendingColocated = @ \ {t},
                                 !.inProgressColocated = @ \cup {t}])
          : t \in picker.pendingColocated}
  ELSE {}

pickInProgressColocated == {Choice(t, picker) : t \in picker.inProgressColocated}

\* A sequential picker that starts the next file beside the one in progress.
MaxSharded_Two ==
  IF \E t \in TaskSet : tableTypes[t] = "PLAIN" THEN 2 ELSE maxParallelConns

\* The sequential picker is this one with a limit of one.
MaxSharded ==
  IF \E t \in TaskSet : tableTypes[t] = "PLAIN" THEN 1 ELSE maxParallelConns

pickPendingSharded ==
  IF /\ Cardinality(picker.inProgressSharded) < MaxSharded
     /\ picker.orderedPendingSharded # <<>>
  THEN {Choice(Head(picker.orderedPendingSharded),
               [picker EXCEPT !.orderedPendingSharded = Tail(@),
                  !.inProgressSharded = @ \cup {Head(picker.orderedPendingSharded)}])}
  ELSE {}

pickInProgressSharded == {Choice(t, picker) : t \in picker.inProgressSharded}

FirstOf(a, b) == IF a # {} THEN a ELSE b

QueueHasRoom == Len(colocatedBatchImportQueue) < 2 * maxColocatedBatchesInProgress

Pick ==
  IF ~HasMoreShardedTasks THEN FirstOf(pickPendingColocated, pickInProgressColocated)
  ELSE IF ~HasMoreColocatedTasks THEN FirstOf(pickPendingSharded, pickInProgressSharded)
  ELSE FirstOf(pickPendingColocated,
       FirstOf(pickPendingSharded,
               IF QueueHasRoom THEN pickInProgressColocated ELSE pickInProgressSharded))

MarkTaskAsDone(p, t) ==
  [p EXCEPT !.inProgressColocated = @ \ {t}, !.inProgressSharded = @ \ {t}]

-----------------------------------------------------------------------------
(* The loop.                                                               *)

NotDone(t) == {n \in DOMAIN batch[t] : batch[t][n] # "D"}

\* createFileTaskImporter: batches that are cut are ready at once; those of a
\* random batch producer that are not become ready later.
ImporterOf(t) ==
  IF t \in DOMAIN taskImporters THEN taskImporters[t]
  ELSE [left |-> NotDone(t),
        ready |-> IF tableTypes[t] = "PLAIN" THEN NotDone(t)
                  ELSE {n \in NotDone(t) : batch[t][n] = "P"}]

WithImporter(t, i) ==
  [u \in DOMAIN taskImporters \cup {t} |-> IF u = t THEN i ELSE taskImporters[u]]

\* One turn of the loop: the task picked is finished, waited for, or its next
\* batch is taken for submission.
PickTask(t) ==
  /\ loop = "on" /\ submitting = None /\ HasMoreTasks
  /\ \E c \in Pick :
       /\ c.task = t
       /\ LET i == ImporterOf(t) IN
          \/ /\ i.left = {} /\ NotDone(t) = {}
             /\ picker' = MarkTaskAsDone(c.picker, t)
             /\ taskImporters' = WithImporter(t, i)
             /\ UNCHANGED submitting
          \/ /\ i.ready = {} /\ ~(i.left = {} /\ NotDone(t) = {})
             /\ picker' = c.picker
             /\ taskImporters' = WithImporter(t, i)
             /\ UNCHANGED submitting
          \/ \E n \in i.ready :
               /\ picker' = c.picker
               /\ taskImporters' = WithImporter(t, [left |-> i.left \ {n},
                                                    ready |-> i.ready \ {n}])
               /\ submitting' = <<t, n>>
  /\ UNCHANGED <<batch, tableTypes, colocatedBatchImportQueue, consumer, running, loop>>

\* The goroutine of a random batch producer cuts the next batch of its file.
ProduceBatch(t) ==
  /\ loop = "on" /\ t \in DOMAIN taskImporters
  /\ LET i == taskImporters[t] IN
     \E n \in i.left \ i.ready :
       /\ \A m \in i.left \ i.ready : n <= m
       /\ taskImporters' = [taskImporters EXCEPT ![t].ready = @ \cup {n}]
  /\ UNCHANGED <<batch, picker, tableTypes, colocatedBatchImportQueue, consumer,
                 running, submitting, loop>>

\* submitBatch blocks while the queue, or the pool, is full.
SubmitBatch ==
  /\ loop = "on" /\ submitting # None
  /\ IF tableTypes[submitting[1]] = "COLOCATED"
     THEN /\ QueueHasRoom
          /\ colocatedBatchImportQueue' = Append(colocatedBatchImportQueue, submitting)
          /\ UNCHANGED <<running, batch>>
     ELSE /\ Cardinality(running.other) < 2 * maxParallelConns
          /\ running' = [running EXCEPT !.other = @ \cup {submitting}]
          /\ batch' = [batch EXCEPT ![submitting[1]][submitting[2]] = "P"]
          /\ UNCHANGED colocatedBatchImportQueue
  /\ submitting' = None
  /\ UNCHANGED <<picker, tableTypes, taskImporters, consumer, loop>>

\* colocatedBatchImportQueueConsumer: takes a batch, waits for a free worker.
ConsumerTakes ==
  /\ consumer = None /\ colocatedBatchImportQueue # <<>>
  /\ consumer' = Head(colocatedBatchImportQueue)
  /\ colocatedBatchImportQueue' = Tail(colocatedBatchImportQueue)
  /\ UNCHANGED <<batch, picker, tableTypes, taskImporters, running, submitting, loop>>

ConsumerSubmits ==
  /\ consumer # None
  /\ Cardinality(running.colocated) < maxColocatedBatchesInProgress
  /\ running' = [running EXCEPT !.colocated = @ \cup {consumer}]
  /\ batch' = [batch EXCEPT ![consumer[1]][consumer[2]] = "P"]
  /\ consumer' = None
  /\ UNCHANGED <<picker, tableTypes, taskImporters, colocatedBatchImportQueue, submitting, loop>>

\* importBatch ends well.
BatchDone(b) ==
  /\ running' = [colocated |-> running.colocated \ {b}, other |-> running.other \ {b}]
  /\ batch' = [batch EXCEPT ![b[1]][b[2]] = "D"]
  /\ UNCHANGED <<picker, tableTypes, taskImporters, colocatedBatchImportQueue,
                 consumer, submitting, loop>>

AllTasksDone ==
  /\ loop = "on" /\ ~HasMoreTasks
  /\ loop' = "done"
  /\ UNCHANGED <<batch, picker, tableTypes, taskImporters, colocatedBatchImportQueue,
                 consumer, running, submitting>>

TaskSteps ==
  \/ \E t \in TaskSet : PickTask(t) \/ ProduceBatch(t)
  \/ SubmitBatch \/ ConsumerTakes \/ ConsumerSubmits
  \/ \E b \in running.colocated \cup running.other : BatchDone(b)
  \/ AllTasksDone

KillTasks ==
  /\ loop = "on"
  /\ picker' = NoPicker /\ tableTypes' = <<>> /\ taskImporters' = <<>>
  /\ colocatedBatchImportQueue' = <<>> /\ consumer' = None
  /\ running' = [colocated |-> {}, other |-> {}] /\ submitting' = None
  /\ loop' = "off"
  /\ UNCHANGED batch
=============================================================================
