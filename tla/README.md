# Verification of yb-voyager

yb-voyager migrates a PostgreSQL, Oracle or MySQL database to YugabyteDB. It
assesses the source, exports its schema, rewrites and imports it, and moves the
data: *offline* from a dump, or *live*, where a snapshot is followed by a stream
of changes. In a live migration Debezium writes the changes to a queue of
segment files in the export directory, `import data` applies them to the target,
`archive changes` removes what everybody has read, until the user cuts over, and
possibly falls back or starts another iteration. This directory models these
parts in TLA+, checks them with TLC on small instances and proves the central
properties of the data path with TLAPS for instances of every size.

Paths below are relative to `src/yb-voyager/`; Java files are those of
`src/debezium-server-voyager/.../ybexporter/`.

## 1. Inventory

| Component | State | Operations | Talks to |
|---|---|---|---|
| Streaming import: `cmd/live_migration.go`, `cmd/eventQueue.go` | event channels, batches, place in the queue | read, route, batch, execute, retry, mark segment | conflict cache, target, meta database |
| Conflict detection cache: `cmd/conflictDetectionCache.go` | updates and deletes in flight, by unique value | wait, put, remove | streaming import |
| Channel metadata: `cmd/importDataState.go`, `src/tgtdb/event.go`, `yugabytedb.go` | `last_applied_vsn` and counters, in the target | init, read, update inside a batch's transaction | streaming import |
| Exporter: `EventQueue.java`, `QueueSegment.java`, `YbExporterConsumer.java` | segment files, committed sizes, next vsn, dedup cache | write, rotate, sync, recover, switch record | Debezium's offsets, meta database, importers |
| Segment cleaner: `src/archivechanges/cleanup.go` | archived and deleted marks | copy, delete, mark, stop | importers' marks, queue directory |
| Snapshot import: `cmd/importDataRandomFileBatchProducer.go`, `importDataSequentialFileBatchProducer.go`, `importDataFileTaskImporter.go`, `importDataState.go` | batch files and their suffix, error files, batch metadata in the target | split, submit, COPY, recover row by row, retry, resume | target, connection pool |
| File task pickers: `cmd/importDataFileTaskPicker.go`, `importData.go` | tasks pending and in progress, two pools, colocated queue | pick, submit, import, finish | snapshot import |
| Connection pool: `src/tgtdb/conn_pool.go`, `src/adaptiveparallelism`, `src/monitor` | two channels of slots, size, pending decrease | take, connect, return, resize, drop dead nodes | import goroutines |
| Commands of a live migration: `cmd/exportData.go`, `exportDataDebezium.go`, `importData.go`, `cutover*.go`, `endMigrationCommand.go` | the migration status record (MSR), data directories, slots, lock files | start, register, stream, cut over, exec the next command, end | each other, only through the MSR |
| Names and table lists: `src/namereg`, `cmd/exportData.go`, `importData.go`, `src/tgtdb` | name registry, table lists, column sequences, identity columns | register, look up, list, guard, restore | both databases |
| Schema: `cmd/exportSchema.go`, `importSchema*.go`, `src/query/sqltransformer` | DDL files and backups, deferred and failed statements | dump, rewrite, pass over files, retry, finalize | target |
| Schema analysis: `src/query/queryissue`, `queryparser`, `cmd/analyzeSchema.go` | what was seen of tables, types, functions | collect metadata, detect issues | assessment |
| Assessment: `cmd/assessMigrationCommand.go`, `src/migassessment` | metadata files, assessment database, report, done flag | collect, size, recommend, report | source and replicas, export schema |
| Call-home and anonymizer: `src/callhome`, `src/anon` | salt, payload | anonymize, send | assessment, schema export |
| Schema drift: `src/schemadiff`, `src/schemasnapshot`, `cmd/*Drift*` | snapshots with their stamps | capture, compare, judge, report | export schema, export data, cutover |
| Reports, control plane, performance comparison, installer | none that the others read | print | user |

What is hard. Channels and workers run concurrently and only the conflict cache
orders them. Every command can be killed at any step and is started again. A
commit can be reported failed and still have landed. Exporter, importers, cleaner
and the commands of a migration are separate processes that share files and
rows without a common lock. A power loss takes what was not synced. The pool is
resized, and robbed of dead connections, while others use it. The source changes
while it is captured, listed or assessed. Statements of a schema come in any
order. `PROJECT.json` lists every such hazard at its line with the properties
that would show it going wrong.

What makes each part correct:

* streaming import: conflicting events reach the target in commit order, none
  is skipped or counted twice, no statement hits a unique index the source did
  not hit, the target becomes the source, the cutover starts from a drained target;
* queue: the source's changes, in order, with consecutive vsns, each once; an
  acknowledged change is on disk; nothing unread goes; the clean-up ends and
  means what it says;
* snapshot import: every record of the file is imported once, ignored, stashed
  or kept in an error batch, the suffixes tell the truth, and the import ends;
* pool: no slot is lost or invented, nobody waits for ever while slots last;
* workflow: every write of the application moves once, slots are released, the
  database the application is on is captured, a requested cutover ends;
* tables: what the flags select is exported under its root's name, the same on
  every run, and generators are ready for the application;
* schema: no statement is lost, none fails for its place in the files, objects
  are built as planned;
* assessment: a report is about one whole run, its advice bears the source, issues
  do not depend on the order of statements, no name leaves the machine;
* drift: every difference is reported exactly, placed in time and judged, and
  none that breaks the migration is hidden from the cutover.

## 2. Modules

| Module | Models |
|---|---|
| `CdcEvents` | events, partition keys, conflict indexes and buckets, the effect of an event on a table, histories a source can commit |
| `OrderedApply` | abstract: events applied in groups that keep conflicting events in order; cutover last |
| `StreamImport` | the streaming phase of `import data`, and its inductive invariant |
| `StreamImportProofs` | its proofs: order, nothing skipped, refinement, and the rows: no unique violation, convergence, counters |
| `QueueSegments` | state shared by exporter, importers and cleaner |
| `EventQueue` | the exporter process: engine thread, flusher thread, command that supervises them |
| `SegmentCleaner` | `archive changes` |
| `ChangeLog` | abstract: an append-only log of the source's changes, and acknowledgements |
| `ChangeQueue`, `ChangeQueueProofs` | composes exporter, importers and cleaner; proofs |
| `FileBatchProducer` | batch files and error files, splitting of a data file, resumption |
| `SnapshotImport`, `SnapshotImportProofs` | the import of one file; proofs |
| `FileTasks` | pickers, loop that submits batches, colocated queue, pools |
| `ConnectionPool`, `ConnectionPoolProofs` | the pool with its three kinds of users; proofs |
| `MigrationStatus` | the MSR, lock files, how commands start, die and are run again, iterations |
| `ExportDataCommand`, `ImportDataCommand` | the commands of a live migration over `MigrationStatus` |
| `LiveMigration` | composes them with the application, cutovers and `end migration` |
| `LiveMigrationProofs`, `LiveMigrationDataProofs` | proofs: records, commands and slots; the writes |
| `SchemaExport`, `SchemaImport` | the DDL files; the passes over them |
| `OfflineMigration` | composes schema export, import, finalization and `FileTasks` |
| `TableLists` | names in both databases and their registry; table lists, guardrails, sequences |
| `TableMigration` | export and import of the tables, offline and live |
| `SchemaDiff`, `SchemaDrift` | snapshots and their comparison; the processes that capture and check, and (external) the source's catalog and the DDL its users run |
| `DdlIssues`, `SchemaAnalysis` | statements and detectors; analysis of a schema |
| `ExpectedIssues` | reference definition: the issues of a schema as a set, without order |
| `Recommendations` | assessment database, sizing, redundant indexes |
| `SqlAnonymizer` | tokens for names; payloads |
| `MigrationAssessment` | the assessment command with everything above |
| `MCStreamImport`, `MCSnapshotImport`, `MCOfflineMigration`, `MCSchemaDrift`, `MCTableMigration`, `MCMigrationAssessment` | constants of the runs |

### StreamImport

`pc` is the main goroutine: next segment, read an event, wait for conflicts, put
it in the cache, send it, send the end markers, wait for the channels, mark the
segment. `wpc[c]` is the `processEvents` goroutine of channel `c`: batching,
executing, retrying, done. `chan` and `batch` are the Go channel and the slice;
`lastVsn` and `numEvents` are the rows of the channel metadata table in the
target, `meta` the copy the process reads at its start; `rows` is the target
table and `applied` the events whose effects it has (a history variable).
`ExecuteBatch` is one transaction. `ExecuteBatchError` fails before or at the
commit; in the second case the batch is `pending` until the database lands or
aborts it, and the retry asks `last_applied_vsn` first. With `LateLanding` the
database may settle after the retry has asked; without it, before. `Crash` may
come at any step. Exhausted retries end the process.

The model has one table. Events of different tables never conflict and never
share a partition key, so more tables only add independent histories. What
orders conflicting events is the cache alone: `MustPrecede` is stated over keys
and unique values, not over the cache.

### EventQueue, SegmentCleaner, ChangeQueue

A segment is a sequence of lines, so sizes are counted in lines. `file` is what
readers see, `synced` what a power loss leaves, `sizeCommitted` and
`totalEvents` are columns of `queue_segment_meta`, `offset` is Debezium's
committed offset, `queue` is the concatenation of the committed lines of all
segments ever written (a history variable). The engine thread writes a batch
record by record; flush, sync, update of the meta database and reset of the
counters are separate steps, outside the lock as in the code. The flusher thread
writes the switch record and closes the queue under the lock. `crash` kills the
process between any two steps until the cutover is processed, the steps of the
cutover included; with `PowerLoss` any of the lines that are not synced (`AtRisk`)
may go with it, and `torn` (a history variable) records that a line went which a
committed size covers. `recoverStateFromDisk` is one step, since nobody
else writes these files meanwhile. The cleaner takes one file operation or one
update of the meta database per step and may die before each.

### SnapshotImport, FileTasks

A file is its numbered records: some in error (the parser or the value converter
refuses them), some too long to share a batch, some the target rejects, some
already there. The producer splits it into batch files whose suffix is their
state (`C`, `P`, `D`, `E`), resuming where the last finished batch ended. Workers
take batches in any order over the transactional COPY path or over the fast path
with its row-by-row recovery; each step that touches the target or a file is an
action. `FileTasks` takes a whole task's import as given and models which tasks
are in progress, and what waits in the colocated queue.

### ConnectionPool

`conns` and `idleConns` are the two Go channels, FIFO sequences of slots; a slot
is a connection or `NoConn` (nil, to be connected when used). `pendingConnsToCloseLock`
is held across steps only by an increase of the pool, so `Unlocked` is
`apc = "sleep"`. The health monitor takes no lock. Which node a new connection
goes to is left open. What the adaptive loop decides is a free choice.

### MigrationStatus, ExportDataCommand, ImportDataCommand, LiveMigration

`msr[d]` is the migration status record of data directory `d` (the directory of
the migration and of each iteration), `pc[d][command]` where a command stands,
`toRun` the commands the user has to run again, `dataDir`, `queue` and `done` what
the snapshot and the change stream have left there, `slot` the replication slots, `db` what each
database has, `written` and `app` the writes of the application and where it runs,
`ending` the progress of `end migration`. The detailed queue and importer are
replaced by what `ChangeLog` and `OrderedApply` promise. A command reads the record
and acts on it in separate steps, so that what it read can be stale; `kills`
bounds deaths.

The operator is assumed to follow the documented order: a cutover is initiated
only when streaming, with the application stopped and the slot drained; the
application moves on COMPLETED; a command that failed or died is run again;
`--start-clean` is given to the exporter together with the importers; the Go
command and its Debezium die together; `end migration` is run when things are
settled. `InitiateCutover` is atomic.

### SchemaExport, SchemaImport, OfflineMigration

A file of the schema is a sequence of statements with what they need and what
they make. Export dumps them, keeps a backup of each file, and rewrites the files
by the transformers and the assessment's recommendations; import passes over the
files in the code's order, defers, retries, writes `failed.sql`, and finalizes
after the data. `export schema --start-clean` removes the entries of `schema/`
one at a time and clears the flag last. Left out: `search_path` settings of FUNCTION files, object filter
flags, Oracle, MySQL and orafce, refresh of materialized views, prompts,
permission checks, the analyze report. The database is colocated; a copy of a
file is one step; data import starts only when its tables exist. `migration` is
the migration at hand, one of `Migrations`: what the source's dump holds, how many
batches each data file has, and the bounds.

### TableLists, TableMigration

`source` and `target` are catalogs, `registry` the file both commands load and
overwrite as a whole, `msr` the stored lists, `dir` the dump, `wal`, `queue` and
`offset` the change stream, `imported` what reached the target. A scenario fixes
the flags and the catalogs. Assumed of the operator: a cutover is initiated only
when everything is exported; the exporter's `--start-clean` comes before the
import starts and before a cutover. The importer's (with `--truncate-tables`) comes
at any time, in the code's steps: the tables are emptied, the file states go one by
one, then the stored identity columns, and the applied events when streaming
starts. The registry unregisters the target's tables, is saved, and registers them
again. Changes are inserts. The cleaning of the exporter's data directory is one
step.

### SchemaDiff, SchemaDrift

`hist` is the history of the source's catalog, `snaps` the stored snapshots,
`cap` and `exp` the captures and the exporter, `check` the drift check at hand,
`ghost` what really happened when. Listing the snapshots and reading the live
schema is one step of a check, as is the capture of `export schema`; phase
labels, wording, object-type filters and the sentences on fall-back are left
out. A cutover is requested only when the directory is in streaming mode. Links
to tables outside the captured schemas appear only in partial scopes.

### Schema analysis, assessment, anonymizer

A schema is a sequence of statements over a few objects; a detector is an
operator from a statement and the metadata collected so far to issues.
`ExpectedIssues` says without any order which issues a schema has.
`MigrationAssessment` adds the collection on primary and replica (`metadata`), the
assessment database (`db`), the report, the `msr` flags, the payload (`sent`), and
`export schema`, which reads the report. Sizes are in units of 8 MB; the interval
between two IOPS measurements is the unit of time; the file "types" stands for
all that is read before the first measurement and "sizes" for all after; objects
of the source only appear. A CSV file or a report is written in one step. In the
anonymizer a hash is the name itself and a token a triple of role, name and
kind, so that a raw name cannot be taken for a token.

## 3. Runs

Every run takes less than five minutes with two TLC workers. Each property of a
passing run has a mutant in `PROJECT.json`: a plausible slip in the code, defined
beside the definition it replaces, that makes TLC report the property.

| Run | Question |
|---|---|
| `import_pk` | Partitioning by primary key, partial unique index with NULLs, two errors or commits in doubt, a crash: `ConflictsInOrder`, `NoUniqueViolation`, `NoEventSkipped`, `StatsExact`, `CutoverAfterDrain`, refinement of `OrderedApply` (`ImplementsOrderedApply`). |
| `import_custom` | Custom partition key with a unique index across partitions, a commit in doubt that lands at any later moment: the inductive invariant (`IInv`), `Converged`, `StreamingFinishes`. |
| `queue_cutover` | Exporter, importer and deleting cleaner with a crash at any step and a cutover, for records without event ids: `QueueComplete`, `EverythingExported`, `CutoverCompletes` (both sides process the cutover, and the cleaner then removes every segment and exits). |
| `queue_disk` | Event ids, a kill or power loss at any step, those of a cutover too, rotation, two importers, archiver with a failing copy and a crash: `NothingUnreadLost`, `CommittedIsSynced`, refinement of `ChangeLog` (`ImplementsChangeLog`). |
| `snapshot` | Three imports of a file (transactional COPY without primary key and with late commits; fast path; abort policy), two workers, a kill: `NoDuplicateRows`, `StatesTellTruth`, `FileAccounted`, `ImportEnds`. |
| `pool_resize` | Workers, resizing and a node outage on one pool: `SlotsConserved`, `ServedWhileSlotsLast`. |
| `workflow` | A live migration with fall-back, fall-forward, an iteration and `end migration`, a command killed at any step: `WritesMovedOnce`, `SlotsReleased`, `TargetIsCaptured`, `CutoverEnds`. |
| `end_slot_leak` | The finding of section 6: TLC reports the violation of `AbortLeavesNoTargetSlot`. |
| `offline` | A schema of 25 statements exported, imported and finalized around a data import, with transient errors, kills and flags, `--start-clean` included: `SchemaAccounted`, `FailedOnlyIfImpossible`, `TargetAsPlanned`; and a data import whose queue and pools fill up: `DataImportFinishes`. |
| `tables` | Eleven scenarios of partitions, letter case, shared sequences, tables created on the way, changing flags, a kill of either command: `TablesMigrated`, `GeneratorsReady`, `TableListHonest`. |
| `assess` | Assessment with replica, failing collectors, kills, `--start-clean` and `export schema` in between, over many sources and schemas: `ReportTrustworthy`, `AdviceSound`, `IssuesExact`, `PayloadsAnonymous`, `AssessmentCompletes`. |
| `drift` | Captures, failing, lost or in flight, while users change the source, and the checks that read them: `DriftExact`, `DriftJudged`, `CutoverSeesDrift`. |

### Bounds, and why they are enough

* **import_pk, import_custom.** Two channels, two keys, *all* histories of three
  changes a source with the same unique index can commit, then the cutover
  event. A conflict needs two events; the third lies between, before or after
  them, on either channel. `EVENT_CHANNEL_SIZE` 2 or 1 and
  `MAX_EVENTS_PER_BATCH` 2 make both limits bind; three or two events per segment
  put the boundary at the end of and inside the history. Partition keys hash so
  that different keys share a channel. One crash at any step, and one error
  (`import_custom`) or two (`import_pk`, so that the retries can be exhausted); the
  proofs cover any number of each and every other size.
* **queue_cutover, queue_disk.** Three changes of which one is ignored, and the
  switch record. Segments of two records and batches of up to two, so that batch
  boundaries meet rotations (`queue_cutover`); segments of one record, so that every
  record rotates, and two importers (`queue_disk`). A batch does not exceed
  a segment (`BatchAssumption`: Debezium's 2048 changes against 1 GB).
  `archiveChangesBuffer` is 2 where the code keeps 3; with 1 the cleaner can remove
  the segment that the dedup cache has to read again. `maxCacheSize` is twice a batch,
  the least with which a crash of the cutover repeats no change (section 6). One crash,
  of either kind; in `queue_disk` also one of the cleaner and one failing copy, which
  `queue_cutover` does without so that the liveness of four processes stays within
  reach. `MaxSegment` is never reached.
* **snapshot.** Two workers, batches of one or two records, a file of several
  batches; `COPY_MAX_RETRY_COUNT` is 2 where the code has 10, so that exhaustion
  happens within the bound on errors. `MaxBatchNumber` is never reached.
* **pool_resize.** Two slots, two workers, two connections, two nodes; one
  failed connect and one outage. Every pair of users meets on either channel,
  the pool goes from one to two and back, and a slot can be missing.
* **workflow, end_slot_leak.** One iteration after the first cycle, so that every flag
  of an old directory meets a command of a new one; two writes, one before and
  one after a cutover; one kill at any step of any command.
* **offline.** Three migrations. `errors`: two transient errors, with which
  `DDL_MAX_RETRY_COUNT` 1 is exhausted, three starts of a schema command, one kill.
  `kills`: two kills, so that a rerun is interrupted too. `data`: three tables, one
  with five batches, one worker per pool and one colocated batch in progress: one
  batch runs, one is with the consumer, two fill the queue and the loop blocks with
  the fifth; one kill.
* **tables.** One kill; two rows; the scenarios are the combinations of partition
  trees, letter case, sequences and flags the code distinguishes.
* **assess.** Three disturbances, each as its own initial state: two kills and a
  failing collector; two moments at which the source grows, with two exports; a
  replica. 128 sources for sizing around each threshold, all triples of eleven
  kinds of indexes, 532 schemas in all orders of their statements, with four
  releases of the target, four sets of statements for the payload.
* **drift.** `Catalogs`: every pair of DDL statements, compared without an export.
  `OneRun`: changes only, with failures, periodic captures and an interrupt.
  `TwoRuns`: with a snapshot phase, and the export run twice.

Deadlock is checked in the import, queue, snapshot and pool runs; where the
commands end, an explicit `Finished` action stutters. It is off in the others: a
migration really may stop there, since the user may be done, have no start left,
or be refused until he gives `--start-clean`.

### Fairness

Threads, goroutines and processes that can take a step take it (weak fairness):
in `StreamImport` the main goroutine, batching, executing and the database that
settles a commit in doubt; in `ChangeQueue` engine, flusher, supervising command,
cleaner, stop signal and each importer; in `SnapshotImport` producer, workers, the
restart and the database. In the pool, receivers of a Go channel and waiters
for a Go mutex are served in turn, which is strong fairness of `ReceiveConn` and
`ReturnConn`. A command that ended is started again, as the user is told to do and
as the exporter's supervisor does (`LiveMigration`: `Run`, `StartClean`;
`MigrationAssessment`: the restart while there is no report, with
`--start-clean` when refused). In `OfflineMigration` a killed data import is run again and its goroutines keep
running; a turn of the loop that finds nothing to do is no step, so it does not count
as running. Nothing forces an error, a crash, a copy failure, a
cutover request, a new call of `WithConn` or a change of load; their number is
bounded by constants where liveness needs it.

## 4. Proofs

All proofs are checked by tlapm with Z3, Zenon and LS4. They hold for every value
of the constants that meets the named assumptions, which the runs evaluate too.

### StreamImport: order

`StreamImportProofs`; under `EventsAssumption` and
`ImportAssumption` (the types of the constants; positive sizes; `Hash` maps
partition keys to channels; logs are sequences of events). None of the target
properties is inductive: that an event's predecessors are applied when its
batch commits depends on what the main goroutine knew when it sent the event.
`IInv` records it: what channels and batches hold is in commit order and belongs
to the channel (`InvQueues`); everything read is applied or in flight
(`InvDispatched`); whatever may block an event that has been sent is applied
(`InvSettled`, for the event at hand `InvCurrent`); whatever is in flight and may
block a later event is in the cache (`CacheCoversInFlight`); `last_applied_vsn`
covers only applied events (`InvVsn`, which also says that a commit in doubt may
land); the end marker is the last thing a channel gets and a finished channel is
empty (`InvEnd`, `InvWorkers`), hence a marked segment is applied (`InvSegments`)
and so is all before a detected cutover. The central lemma is
`BatchCommittable`: a batch in hand can be committed without skipping or
overtaking an event. It also covers a batch in doubt that lands late, since
events once applied stay applied. From `Invariance` (`Spec => []IInv`):

* `TypeCorrect`, `OrderIsKept` (`ConflictsInOrder`), `NothingSkipped`
  (`NoEventSkipped`), `CacheCovers`, `CutoverIsLast` (`CutoverAfterDrain`);
* `Refinement`: `Spec => ImplementsOrderedApply`; a commit maps to a group
  application, the marking of the last segment to the cutover, and every other
  step to a stutter.

### StreamImport: rows

The second half of `StreamImportProofs`; in addition under `SourceAssumption` (the events are a history
a source with the same immediate unique indexes can commit, its primary and
custom keys do not change, before images are complete, the snapshot is
consistent) and `~LateLanding`. The invariant `RInv` adds to `IInv` that a
channel's applied events are those up to its `last_applied_vsn` and what it is
about to execute lies beyond (`InvFresh`), how far the main goroutine's place in the segment and the
channels' `last_applied_vsn` can be apart (`InvCursor`), that every row is the source's version after the
last applied event of its key (`InvRows`), and `StatsExact`. The argument: what is applied
is closed under `MustPrecede`, so it is a prefix of each key's events, so each row
is a version the source had; two rows that clash in a unique index would need the
event that takes a value applied before the one that gives it up, and those two
are ordered. The table after `n` events is a recursive function; facts about it
are proved by taking the smallest counterexample, which needs no induction over an
operator. Results: `EveryBatchExecutes` (`NoUniqueViolation`), `TargetConverges`
(`Converged`), `CountersExact` (`StatsExact`).

Without `~LateLanding` the first and the last are false, in the model and in the
code: a commit that lands after the retry has read `last_applied_vsn` makes the
batch run twice. The batch *create k3 with u = a, delete k3, create k1 with u = a*
meets k1's value at its first statement when it is replayed, and its events are
counted twice.

### ChangeQueue

`ChangeQueueProofs`; under `QueueAssumption`, `ExporterAssumption`,
`BatchAssumption`, `CleanerAssumption` and `CutoverAssumption`. The invariant
follows a change from the source's log to a reader: which thread holds the lock
and what it may be doing (`InvThreads`, `InvClosing`); the markers of the cutover
(`InvMarkers`); segments below the current one are closed and committed, the next
one is opened only after that (`InvSegments`); until a cutover is requested what is
committed is synced (`InvSynced`); the vsn of a record is its position in queue, then file, then
buffer (`InvVsn`); every change up to the engine's position is in one of them
(`InvChanges`); the cleaner takes only segments after which a later one has been
read to its end, so recovery always finds its latest segment (`InvCleaner`).
Their conjunction `IInv` is kept by every step but one. When a cutover is requested the
flusher writes the switch record under the lock while main, between its `fd.sync()` and
its update of the meta database, holds none: the size that main commits may count the
flusher's unsynced lines, and a power loss then takes committed lines. So what is
invariant is `Sound`: `IInv` holds until the queue is `torn`, and it is not torn before a
cutover is requested. `QueueInvariance` (`Spec => []Sound`) has one lemma per action and
conjunct. Results:

* `KillsTearNothing`: without power loss the queue is never torn, so every other
  result holds without exception for killed processes;
* `CommittedOnDisk` (`CommittedIsSynced`): before a cutover is requested committed lines
  are on disk, so a power loss then is no worse than a kill;
* `QueueTypeCorrect`, `NothingLost` (`NothingUnreadLost`), `ExportIsComplete` (vsns
  consecutive, acknowledged changes in the queue, whatever the cleaner does): until
  the queue is torn;
* `QueueIsComplete` (`QueueComplete`), without power loss; it also says that a
  reported completion leaves nothing, for the delete policy or copies that do not fail;
  with a failing copy it is false (section 6).

### SnapshotImport

`SnapshotImportProofs`; under `FileAssumption`, `ProducerAssumption` and
`SnapshotAssumption`. The invariant says where the producer stands relative to the batch
files and error files on disk (`InvBatches`, `InvErrorFiles`, `InvSplitting`), who
holds a batch that is not finished (`InvHanding`), and what of each batch is in
the table or may still land there (`InvImporting`). A batch is a contiguous range of good
records, ranges of different batches are disjoint, and the batch metadata in the
target is written with its rows; hence a record lands once, whichever of
retry, late commit or restart gets there first. Results: `SnapshotTypeCorrect`,
`NothingImportedTwice` (`NoDuplicateRows`), `EveryRecordAccounted`
(`FileAccounted`), `NamesTellTruth` (`StatesTellTruth`).

### ConnectionPool

`ConnectionPoolProofs`; under `PoolAssumption` (finite workers, `NumConnections`
between 1 and `NumMaxConnections`). `Accounting`, the conjunction of `TypeOK` and
`SlotsConserved`, is inductive: the lemmas follow one slot through each step
(`HoldingChanges` for the number of workers that hold one). Results:
`PoolTypeCorrect`, `PoolAccounting`, and `SendsNeverBlock`: no send on either
channel ever waits, so the critical section of `WithConn` always ends, which
the code relies on without saying so.

### LiveMigration

`LiveMigrationProofs` and, for the writes, `LiveMigrationDataProofs`; for any number
of iterations, writes and kills, under
`MaxIterationAssumption`, `MigrationBoundsAssumption` and `"abort" \notin Perils`:
`end migration` is run on a settled migration, not to abort one (with an abort
`SlotsReleased` is false, which `end_slot_leak` shows). The other perils, which the
run `workflow` leaves out because liveness fails with them, are allowed.

`SlotsReleased` and `TargetIsCaptured` are not inductive. Whether a slot is there follows from the step
the exporter has reached, that from the fields of the record it found at its
start, and those were written by other commands, in this or in the previous
iteration, some of which have been killed and run again since. `Control` says all of
it together:

* for each directory (`DirAt`): which fields of its record imply which others
  (`ForwardFlags`, `BackFlags`, `OnwardFlags`, `IterationFlags`); what an exporter
  at a step knows of its cutover, its slot and its snapshot (`ExportersAt`), what an
  importer knows (`ImportersAt`); when the status file says STREAMING and that a
  cutover record is in the queue only after the request (`DirectoryAt`); an iteration
  after the latest does not exist (`FutureAt`);
* between the commands: of two commands that turn into each other one runs or is
  to be run (`Chains`); fall-forward is enabled before a cutover or never
  (`Replica`); in which iteration each command runs, although the parent's record may
  already point to the next one (`Places`); which command answers for a slot
  that is there (`Owners`);
* where the application runs and what the records say of it (`AppPlace`), and how
  far `end migration` is, with what it has stopped and released (`Ending`).

`NextKeepsControl` has one lemma per action. Most steps move one command and write
one record; general lemmas say what such a step keeps (`DirAt` of other directories,
`ChainsKept`, `RestsKept`, `TurnsKept` for a command that executes another, `KillKept`,
`EndStepKept`), and each action adds what its own step knows. The largest directory
that `end migration` starts from exists because the natural numbers are well
founded. Results: `ControlInvariant`, `LiveMigrationTypes` (`TypeOK`),
`LiveMigrationReleasesSlots` (`SlotsReleased`), `LiveMigrationCapturesTarget`
(`TargetIsCaptured`).

`WritesMovedOnce` needs, on top of `Control`, to know where every write is. When the
application moves, the code has only looked at fields of a record; that its new
database holds every write follows from what those fields meant when they were
set, by other commands, possibly before a kill. `Data` says it:

* a write is in one slot, or in the snapshot, or in one place of one queue (`Fresh`,
  `Pending`, `Queued`), and the application's database holds all of them (`Held`), even
  while `end migration` clears directories;
* and until then (`Carried`): a cutover is requested when its slot is empty
  (`NothingLeft`), so behind a cutover event there are no changes of its direction
  (`EventsLast`); what an importer is past is in its database (`Applied`, `Loaded`); and
  what a destination lacks is in the slot, the snapshot or the queue on the way to it
  (`ToTarget`, `ToSource`, `ToReplica`), so that an importer at the cutover event has it
  all. An iteration carries only the difference: its slot may start without a
  snapshot because the target already holds everything (`BackAtSource` says when).

That no write comes back by the opposite exporter rests on `Owners`: there is no slot
on a database while an importer writes to it (`NoSlotAtDestination`). `NextKeepsData`
has one lemma per action again; most change nothing that `Data` speaks of (`QuietData`),
and the others move one write on (`ForwardCarried`), add one (`AppWritesData`), take a
cutover event (`StreamEventData`) or turn an arrival into a new start (`MoveAppData`,
`SetLatestData`, `IterationSlotCreatedData`). Results: `DataInvariant`,
`LiveMigrationMovesWritesOnce` (`WritesMovedOnce`).

### Only model-checked

* Liveness, which is out of the prover's reach: `StreamingFinishes`,
  `EverythingExported`, `CutoverCompletes`, `ImportEnds`,
  `ServedWhileSlotsLast`, `CutoverEnds`, `DataImportFinishes`, `AssessmentCompletes`.
* `ImplementsChangeLog`. Order, vsns and acknowledgements are in `ExportIsComplete`;
  that no change is written twice rests on the sums of event counts by which the
  dedup cache chooses where to warm up, a fold the provers cannot unfold.
* `Converged` with a commit that lands late (`import_custom`).
* `IssuesExact`, `AdviceSound`, `PayloadsAnonymous`, `ReportTrustworthy`: the modules of
  schema analysis and the anonymizer recurse over types and statements
  (`RECURSIVE` operators), which tlapm does not reason about.
* `tables`, `offline` and `drift`: open, see section 7.

## 5. Not modelled

* Formats, byte offsets, text of statements, conversions: a record is good, in
  error or rejected. The tail of the temporary file of an interrupted batch.
* In StreamImport: errors that are not retried (their effect is that of a crash);
  the path for events of the target exporter whose values the cache ignores,
  which the code never reaches with a source importer; events of other exporters
  that a source importer skips.
* In ChangeQueue: what an importer does with a segment (StreamImport's subject;
  here an importer marks committed, closed segments in order); the retain policy;
  the snapshot phase of the exporter; `export_status.json`. Strategy `"table"` is in the model and not in a run.
* In SnapshotImport: a message written after the rename to `.E` can be lost with
  the process, as in the code; rows of the fast path land at once; error files
  are sets of records.
* In ConnectionPool: the callback's `retry = true`, which no caller returns; the
  round-robin order of nodes; checks of disk and replication.
* In LiveMigration: the archiver's orderly stop, backups and reports.
* In the analysis: usage categories, recommended SQL, columns of domain types and
  typed tables in index checks. As in the code: only the first subcommand of an
  ALTER is processed, `SET NOT NULL` before the CREATE is ignored, jsonb columns
  match by bare name, a column in two foreign keys keeps the last reference,
  partial unique indexes count as coverage. The assessment takes over only its
  list of issue types. Oracle's complexity is left out.
* In the assessment: `--assessment-metadata-dir`, query statistics, the estimate of
  import time; in the payload: error payloads and the topology of replicas. All
  schemas are called public.
* `PROJECT.json` lists every other component with the reason it is left out.

## 6. Where code and text disagree, and what modelling showed

With a run that shows it: `end_slot_leak`. `end migration` deletes the target's
replication slot only if a flag is set that is set only once Debezium streams
(`cmd/endMigrationCommand.go:699`); in between the slot stays, though the message
at its creation promises otherwise (`cmd/exportDataDebezium.go:736`).

Seen while modelling and while bounding the runs, on these and other instances of the
same modules or by reading. Where a run of section 3 reaches such a case, the property
names it as its exception; elsewhere the properties are asked where these cannot
happen, and the bounds above say so.

Streaming and queue

* A commit in doubt that lands after the retry has looked is counted twice and its
  replay may meet a unique violation (`cmd/live_migration.go:623`). Two such
  commits of one batch under a custom partition key can delete a row that another
  channel has inserted again; `Converged` is asked with one error.
* After a failed copy and the stop signal, "cleanup complete" is reported
  (`src/archivechanges/cleanup.go:210`, against the comment at 265).
* `QueueSegment.sync` stores the size that it measures after `fd.sync()`
  (`QueueSegment.java:172`), and main calls it without the lock under which the flusher
  writes and flushes the switch record and the end of file (`YbExporterConsumer.java:284`).
  A power loss then leaves a file shorter than its `size_committed`, which a test calls
  "the source of truth for valid data boundary"
  (`src/testlivemigration/export_data_cdc_failures_test.go:1145`), and vsns are written
  again. `torn` is this case: `NothingUnreadLost`, `ImplementsChangeLog` and
  `CutoverCompletes` except it, `CommittedIsSynced` and the theorems confine it to power losses
  during a cutover.
* After a crash between the switch record and its flag, the restart opens a
  segment with a second switch record that no importer reads, and the cleaner waits
  for it for ever (`EventQueue.java:118`; `SwitchedTwice` in `CutoverCompletes`). The
  warm-up of the dedup cache may open a removed segment (`EventQueue.java:300`), when
  fewer segments are kept than it needs. `total_events` may be added twice by the cutover
  thread (`YbExporterConsumer.java:580`), so that the warm-up counts too many and, after
  a crash of the cutover, a cache smaller than two batches misses a change. The status file is flushed after the
  switch record, so an importer may read older sequence values
  (`YbExporterConsumer.java:284`).
* Two Debeziums may overlap on one queue after a timeout and a rerun.

Snapshot import and pool

* A record in error at the end of a file without a last newline ends every run
  under stash-and-continue (`cmd/importDataSequentialFileBatchProducer.go:204`).
* A batch marked `.E` whose last commit was in doubt may be in the table
  (`src/tgtdb/yugabytedb.go:788`, 825).
* With another `--batch-size` after a kill, errors of the interrupted batch are
  reported twice (`importDataSequentialFileBatchProducer.go:422`). Maps of the
  error handler have no lock (`errorHandlers.go:154`), its `.tmp` file is not
  truncated (158).
* A connect that fails takes its slot out of the pool
  (`src/tgtdb/conn_pool.go:192`); when all are gone everybody waits for ever. A
  retry on a fresh connection lacks the session variables.

Commands

* An iteration's exporter killed between the creation of Debezium's directory and
  its first status; an import type read before the wait for it; a source-replica
  import started late; `end migration` killed between the removal of the meta
  information and the rest, or run while an old directory's command is about
  to start a new one's.

Tables

* A table `"Acc"` that the target lacks is paired with the target's `acc`, since
  `matchName` falls back to a match without letter case (`src/namereg/namereg.go:562`), and
  its file is imported there; the comment in `cmd/importData.go:799` expects that such
  tables get no target table. The run `tables` has the scenario, and `TablesMigrated` says
  where the rows go (`Home`).
* A registry saved before the table list, then a
  kill and a new table or leaf: every rerun is refused until `--start-clean`; the
  same for empty tables of an offline export killed before the dump, and for a
  partitioned root that gets its first leaf later.
* `import data` and `import data to source-replica` load and overwrite the whole
  registry (`src/namereg/namereg.go:112`): one update can be lost.
* A sequence missing on the target when names are registered fails every rerun.
  `import data --start-clean` after the identity columns were suspended deletes the list
  of them and leaves them BY DEFAULT (`cmd/importData.go:2565`): `imported.forgotten` in
  `GeneratorsReady`. `alterColumns` returns no error after its retries
  (`src/tgtdb/yugabytedb.go:1901`).
* `import data --start-clean` killed between the emptying of the tables and the last
  file state, or run after the cutover's event was met (the flag and
  `last_applied_vsn` stay, `cmd/importData.go:2274`), ends with emptied tables that count as
  imported: `imported.stale` in `TablesMigrated`.
* While an import registers the target's names again, the registry on disk has
  sequences of the target and no tables (`src/namereg/namereg.go:168`); an exporter that
  starts then fails. `export data --start-clean` killed before `queue_segment_meta` is
  truncated (`cmd/exportData.go:2169`) leaves sizes of segments that are gone.

Schema

* `export schema --start-clean` killed before the flag is cleared
  (`cmd/exportSchema.go:93`) leaves a schema without some of its files that counts as
  exported, and `import schema` accepts it (`cmd/importSchema.go:50`): the exception in
  `SchemaAccounted`.
* Constraints deferred by finalization as NOT VALID are forgotten when it ends; an
  invalid unique index stays, since `beforeIndexCreation` is not reached; a kill
  inside `CopyFile` leaves a truncated backup (comment at
  `sqlfiletransformer.go:40`); `ApplySessionVariables` stops at the first unknown
  variable (`importSchemaYugabyteDB.go:343`, comment at 166).

Assessment, analysis, anonymizer

* A `--start-clean` killed after `CleanDir` leaves the done flag without a report
  (`assessMigrationCommand.go:553`). Discovered replicas are not de-duplicated
  (`replicas.go:121`). `getRootRedundantIndexInfo` would not end on cyclic
  redundancy (`assessMigrationCommand.go:693`).
* `getThresholdAndTablets` and the index factor of the import time are not monotone
  (`sizing.go:645`, 1426; comment at 1141).
* A stale report makes `export schema` drop an index whose covering index is gone
  (`exportSchema.go:863`). A table created during the collection is in the dump
  and not in the sizing.
* ALTER statements without a name share one counter (`analyzeSchema.go:334`); lines
  with "--" are dropped (908); constructs in RULE statements are not reported.
* The same identifier does not always get the same token
  (`identifier_hash_registry.go:26`): columns of composite foreign keys, schemas of
  operator classes, domains as column types, comments on constraints. The statements
  of `assess` have them all; `PayloadsAnonymous` compares the tokens of all other places
  (`MisreadNames`, `MisreadKids`) and asks of these only that they are tokens. A foreign key
  of four or more columns drops its statement from the payload. Two first commands
  at once could store two salts (`cmd/common.go:568`).

Drift

* The record is read before the snapshots, so the export type may be stale
  (`build.go:271`); a capture is stamped after its content is read
  (`capture.go:98`); a save that fails leaves no point and no placeholder; the
  periodic capture is not stopped on one exit path, which can reverse stamps; a
  signal during the exit capture kills it; a table renamed before a failed start
  capture escapes the cutover's filter; a link to a table outside the snapshot is
  keyed by name.

## 7. Plan

Done: every module above; theorems for the streaming import (order, refinement,
rows), the queue, the snapshot import, the pool, and the slots and writes of a live
migration.

Next:

1. `TableMigration`: `TableListHonest`, then `GeneratorsReady`.
2. `ImplementsChangeLog`, given a statement about the warm-up that does without the
   sum.
3. `CutoverSeesDrift` for `SchemaDrift`.
4. The drivers of PostgreSQL and Oracle as variants of `SnapshotImport`'s target.
