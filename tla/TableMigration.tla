--------------------------- MODULE TableMigration ---------------------------
(***************************************************************************)
(* The tables of a migration on their way from the source to the target,   *)
(* offline or live: the name registry and the lists that export data keeps *)
(* in the meta database, the dump, the stream with the highest sequence    *)
(* values beside it, and import data, which looks every name up again,     *)
(* suspends GENERATED ALWAYS, and brings sequences and identity columns    *)
(* into order at the end.  Both commands may be killed and run again.      *)
(***************************************************************************)
EXTENDS TableLists

CONSTANTS
  Scenarios,    \* source and target, the operator's flags, what may happen
  MaxKills      \* bound on kills

VARIABLES
  scenario,     \* one of the Scenarios
  source,       \* [tables, rows, seqAt]: the source database
  wal,          \* its changes, in order
  registry,     \* name_registry.json
  dir,          \* [data, descriptor, postdata, status]: files of the export directory
  msr,          \* the part of the migration status record about tables
  queue,        \* [events, synced, closed]: the change queue
  offset,       \* Debezium's offset: changes that need not be read again
  exporter,     \* export data and its Debezium
  importer,     \* import data
  imported,     \* what the importer has stored, and what became untrue of it
  target,       \* [tables, sequences, rows, seqs, always]: the target database
  cutover,      \* cutover is initiated
  kills

sourceVars == <<scenario, source, wal>>
exportVars == <<dir, msr, queue, offset, exporter>>
importVars == <<importer, imported, target>>
vars == <<sourceVars, exportVars, importVars, registry, cutover, kills>>

-----------------------------------------------------------------------------
(* The source.                                                             *)

Schemas == {"public"}

\* The catalog at this moment.
Catalog == [scenario.catalog EXCEPT !.tables = source.tables]

ids(rows, t) == {r[2] : r \in {x \in rows : x[1] = t}}

\* The application inserts a row, with the next value of the table's sequence.
NextId(t) ==
  IF t \in DOMAIN scenario.catalog.attached
  THEN source.seqAt[scenario.catalog.attached[t]] + 1
  ELSE Cardinality(ids(source.rows, t)) + 1

Insert(t) ==
  /\ Len(wal) < scenario.inserts /\ ~cutover
  /\ t \in source.tables /\ GetPartitions(Catalog, t) = {}
  /\ source' = [source EXCEPT
       !.rows = @ \cup {<<t, NextId(t)>>},
       !.seqAt = [s \in DOMAIN @ |->
                    IF t \in DOMAIN scenario.catalog.attached /\ scenario.catalog.attached[t] = s
                    THEN @[s] + 1 ELSE @[s]]]
  /\ wal' = Append(wal, <<t, NextId(t)>>)
  /\ UNCHANGED <<scenario, registry, exportVars, importVars, cutover, kills>>

\* A table or a partition is created while the migration goes on.
CreateSourceTable(t) ==
  /\ t \in scenario.late \ source.tables /\ ~cutover
  /\ source' = [source EXCEPT !.tables = @ \cup {t}]
  /\ UNCHANGED <<scenario, wal, registry, exportVars, importVars, cutover, kills>>

\* The operator creates what the target lacks.
CreateTargetTables ==
  /\ target.tables # scenario.target \/ target.sequences # scenario.catalog.sequences
  /\ target' = [target EXCEPT !.tables = scenario.target, !.sequences = scenario.catalog.sequences]
  /\ UNCHANGED <<sourceVars, registry, exportVars, importer, imported, cutover, kills>>

-----------------------------------------------------------------------------
(* Export data.                                                            *)

Streaming == dir.status # <<>>

exporterAt(at) == exporter' = [exporter EXCEPT !.at = at]

\* Not killed: the variables of the command.
Idle == [at |-> "off", flags |-> [include |-> {}, exclude |-> {}], clean |-> FALSE,
         names |-> EmptyRegistry, chosen |-> Refuse(""), mapping |-> <<>>, sequenceMax |-> <<>>, read |-> 0, batch |-> ""]

\* clearMigrationStateIfRequired: without --start-clean the data directory must be
\* empty, or hold a stream to continue.  --start-clean is for before the import
\* and before cutover.
ExportData(flags, clean) ==
  /\ exporter.at = "off"
  /\ \/ importer.at = "off" /\ ~imported.started
     \/ scenario.live /\ ~clean
  /\ clean => ~cutover
  /\ \/ clean \/ dir.data = "empty"
     \/ scenario.live /\ Streaming
  /\ exporter' = [Idle EXCEPT !.at = IF clean THEN "clearing data" ELSE "naming",
                              !.flags = flags, !.clean = clean]
  /\ UNCHANGED <<sourceVars, registry, dir, msr, queue, offset, importVars, cutover, kills>>

ClearedMSR == [rootList |-> {}, leafList |-> {}, renames |-> <<>>, colToSeq |-> Nil]

EmptyDir == [data |-> "empty", descriptor |-> {}, postdata |-> <<>>, status |-> <<>>]

\* --start-clean, in the order of the code: the data directory, the done flag and
\* the descriptor, the name registry, the lists in the record, the queue's sizes.
StartClean ==
  \/ /\ exporter.at = "clearing data" /\ exporterAt("clearing flag")
     /\ dir' = [EmptyDir EXCEPT !.descriptor = dir.descriptor]
     /\ queue' = [queue EXCEPT !.events = <<>>, !.closed = FALSE] /\ offset' = 0
     /\ UNCHANGED <<msr, registry>>
  \/ /\ exporter.at = "clearing flag" /\ exporterAt("clearing registry")
     /\ msr' = [msr EXCEPT !.done = FALSE] /\ dir' = [dir EXCEPT !.descriptor = {}]
     /\ UNCHANGED <<queue, offset, registry>>
  \/ /\ exporter.at = "clearing registry" /\ exporterAt("clearing lists")
     /\ registry' = EmptyRegistry
     /\ UNCHANGED <<msr, dir, queue, offset>>
  \/ /\ exporter.at = "clearing lists" /\ exporterAt("clearing sizes")
     /\ msr' = [f \in DOMAIN msr |-> IF f \in DOMAIN ClearedMSR THEN ClearedMSR[f] ELSE msr[f]]
     /\ UNCHANGED <<dir, queue, offset, registry>>
  \/ /\ exporter.at = "clearing sizes" /\ exporterAt("naming")
     /\ queue' = [queue EXCEPT !.synced = 0]
     /\ UNCHANGED <<dir, msr, offset, registry>>

ClearMigrationState ==
  StartClean /\ UNCHANGED <<sourceVars, importVars, cutover, kills>>

\* InitNameRegistry: the file is read, completed and written.
RegisterSource ==
  /\ exporter.at = "naming"
  /\ registry' = registerNames(registry, Role, Schemas,
                   [tables |-> source.tables, sequences |-> scenario.catalog.sequences])
  /\ exporter' = [exporter EXCEPT !.at = "listing", !.names = registry']
  /\ UNCHANGED <<sourceVars, dir, msr, queue, offset, importVars, cutover, kills>>

\* getInitialTableList and finalizeTableAndColumnList.
ChooseTables ==
  /\ exporter.at = "listing"
  /\ exporter' = [exporter EXCEPT !.at = "decided", !.names = EmptyRegistry,
       !.chosen = finalizeTableAndColumnList(Catalog,
                    getInitialTableList(exporter.names, Catalog, msr, exporter.flags, exporter.clean),
                    scenario.live, {r[1] : r \in source.rows})]
  /\ UNCHANGED <<sourceVars, registry, dir, msr, queue, offset, importVars, cutover, kills>>

RefuseTables ==
  /\ exporter.at = "decided" /\ exporter.chosen.verdict # "proceed"
  /\ exporter' = Idle
  /\ UNCHANGED <<sourceVars, registry, dir, msr, queue, offset, importVars, cutover, kills>>

\* handleEmptyTableListForExport
NothingToExport ==
  /\ exporter.at = "decided"
  /\ exporter.chosen.verdict = "proceed" /\ exporter.chosen.list = {}
  /\ msr' = [msr EXCEPT !.done = TRUE] /\ dir' = [dir EXCEPT !.descriptor = {}]
  /\ exporter' = Idle
  /\ UNCHANGED <<sourceVars, registry, queue, offset, importVars, cutover, kills>>

\* renameTableIfRequired for the lists that are stored: the roots' names.
rootsOf(keys, renames) == {renameTableIfRequired(renames, k) : k \in keys}

\* The map of renamed tables first, then the lists (storeTableListInMSR), then the
\* sequences of the columns, unless they are known from an earlier run.
StoreTables ==
  LET keys == Keys(exporter.chosen.list) IN
  \/ /\ exporter.at = "decided" /\ exporter.chosen.verdict = "proceed" /\ keys # {}
     /\ msr' = [msr EXCEPT !.renames = exporter.chosen.renames]
     /\ exporterAt("storing lists")
  \/ /\ exporter.at = "storing lists"
     /\ msr' = [msr EXCEPT !.rootList = rootsOf(keys, msr.renames), !.leafList = keys]
     /\ exporterAt("storing sequences")
  \/ /\ exporter.at = "storing sequences"
     /\ msr' = [msr EXCEPT !.colToSeq =
                  IF @ # Nil /\ ~exporter.clean THEN @
                  ELSE <<GetColumnToSequenceMap(Catalog, keys)>>]
     /\ exporterAt(IF ~scenario.live THEN "dumping"
                   ELSE IF msr.cutoverDetected THEN "ended"
                   ELSE IF msr.done THEN "starting stream" ELSE "creating slot")

SaveTables ==
  StoreTables /\ UNCHANGED <<sourceVars, registry, dir, queue, offset, importVars, cutover, kills>>

\* A publication that leaves partitions to their root.
createReplicationSlot_Roots ==
  /\ exporter.at = "creating slot"
  /\ msr' = [msr EXCEPT !.slot = Len(wal),
                        !.publication = Keys(exporter.chosen.list) \ DOMAIN msr.renames]
  /\ exporterAt("dumping")
  /\ UNCHANGED <<sourceVars, registry, dir, queue, offset, importVars, cutover, kills>>

\* Publication and slot: the changes of the chosen tables from here on.  The root
\* of listed leaves is not published.
createReplicationSlot ==
  /\ exporter.at = "creating slot"
  /\ msr' = [msr EXCEPT !.slot = Len(wal),
                        !.publication = Keys(exporter.chosen.list) \ ValuesOf(msr.renames)]
  /\ exporterAt("dumping")
  /\ UNCHANGED <<sourceVars, registry, dir, queue, offset, importVars, cutover, kills>>

\* The rows at the slot's point, or at this moment.
snapshotRows ==
  IF scenario.live
  THEN source.rows \ {wal[i] : i \in msr.slot + 1..Len(wal)}
  ELSE source.rows

\* pg_dump takes the rows of its snapshot and the sequences' values of this moment;
\* what it writes counts when it has ended.
StartDump ==
  /\ exporter.at = "dumping" /\ dir.data = "empty"
  /\ dir' = [dir EXCEPT !.data = "partial", !.postdata = setval(source.seqAt, ValuesOf(msr.colToSeq[1]))]
  /\ UNCHANGED <<sourceVars, registry, msr, queue, offset, exporter, importVars, cutover, kills>>

\* ExportDataPostProcessing and renameDatafileDescriptor: one file per table with
\* the rows, under the root's name.
EndDump ==
  /\ exporter.at = "dumping" /\ dir.data = "partial"
  /\ dir' = [dir EXCEPT !.data = "dumped",
       !.descriptor = {[table |-> renameTableIfRequired(msr.renames, t), file |-> t,
                        ids |-> ids(snapshotRows, t)] :
                         t \in {k \in Keys(exporter.chosen.list) : GetPartitions(Catalog, k) = {}}}]
  /\ exporterAt("dumped")
  /\ UNCHANGED <<sourceVars, registry, msr, queue, offset, importVars, cutover, kills>>

setDataIsExported ==
  /\ exporter.at = "dumped"
  /\ msr' = [msr EXCEPT !.done = TRUE]
  /\ exporterAt(IF scenario.live THEN "starting stream" ELSE "ended")
  /\ UNCHANGED <<sourceVars, registry, dir, queue, offset, importVars, cutover, kills>>

-----------------------------------------------------------------------------
(* Streaming: Debezium reads the slot's changes in batches.                *)

\* Without postdata.sql there are no initial values, and the command fails.
StartDebezium ==
  LET mapping == getColumnToSequenceMapping(msr.colToSeq[1], msr.renames)
      saved   == IF Streaming THEN dir.status[1] ELSE <<>>
  IN
  /\ exporter.at = "starting stream"
  /\ exporter' = IF dir.data # "dumped" THEN Idle
                 ELSE [exporter EXCEPT
                         !.at = "streaming", !.mapping = mapping, !.batch = "reading",
                         !.sequenceMax =
                           initSequenceMax(getSequenceInitialValues(dir.postdata), saved, mapping),
                         !.read = Larger(offset, msr.slot)]
  /\ UNCHANGED <<sourceVars, registry, dir, msr, queue, offset, importVars, cutover, kills>>

\* handleBatch, one change: its table gets the root's name, the sequences take note
\* of it, and it is written unless the queue has it already.
HandleRecord ==
  LET change == wal[exporter.read + 1]
      table  == renameTableIfRequired(msr.renames, change[1])
      event  == <<table, change[2]>>
  IN
  /\ exporter.at = "streaming" /\ exporter.batch = "reading"
  /\ exporter.read < Len(wal)
  /\ exporter' = [exporter EXCEPT
       !.read = @ + 1,
       !.sequenceMax = IF change[1] \in msr.publication
                       THEN processRecord(@, exporter.mapping, table, change[2]) ELSE @]
  /\ queue' = IF change[1] \in msr.publication /\ \A i \in DOMAIN queue.events : queue.events[i] # event
              THEN [queue EXCEPT !.events = Append(@, event)] ELSE queue
  /\ UNCHANGED <<sourceVars, registry, dir, msr, offset, importVars, cutover, kills>>

\* A batch that leaves the status to the flushing thread.
HandleBatchComplete_NoStatus ==
  \/ /\ exporter.batch = "reading" /\ offset < exporter.read
     /\ queue' = [queue EXCEPT !.synced = Len(queue.events)]
     /\ exporter' = [exporter EXCEPT !.batch = "flushed"]
     /\ UNCHANGED <<dir, offset>>
  \/ /\ exporter.batch = "flushed"
     /\ offset' = exporter.read
     /\ exporter' = [exporter EXCEPT !.batch = "reading"]
     /\ UNCHANGED <<dir, queue>>

\* handleBatchComplete and commitBatchOffsets: the queue is synced, the status with
\* the sequences' values is written, and only then the offset is committed.
HandleBatchComplete ==
  \/ /\ exporter.batch = "reading" /\ offset < exporter.read
     /\ queue' = [queue EXCEPT !.synced = Len(queue.events)]
     /\ exporter' = [exporter EXCEPT !.batch = "synced"]
     /\ UNCHANGED <<dir, offset>>
  \/ /\ exporter.batch = "synced"
     /\ dir' = [dir EXCEPT !.status = <<exporter.sequenceMax>>]
     /\ exporter' = [exporter EXCEPT !.batch = "flushed"]
     /\ UNCHANGED <<queue, offset>>
  \/ /\ exporter.batch = "flushed"
     /\ offset' = exporter.read
     /\ exporter' = [exporter EXCEPT !.batch = "reading"]
     /\ UNCHANGED <<dir, queue>>

CompleteBatch ==
  /\ exporter.at = "streaming"
  /\ HandleBatchComplete
  /\ UNCHANGED <<sourceVars, registry, msr, importVars, cutover, kills>>

\* The flushing thread writes the status every two seconds.
flushToDisk ==
  /\ exporter.at \in {"streaming", "switching"}
  /\ dir.status # <<exporter.sequenceMax>>
  /\ dir' = [dir EXCEPT !.status = <<exporter.sequenceMax>>]
  /\ UNCHANGED <<sourceVars, registry, msr, queue, offset, exporter, importVars, cutover, kills>>

\* checkForSwitchOperationAndHandle: the switch record closes the queue; the status
\* is written once more and Debezium exits; the command marks the cutover.
SwitchOperation ==
  \/ /\ exporter.at = "streaming" /\ cutover
     /\ queue' = [queue EXCEPT !.synced = Len(queue.events), !.closed = TRUE]
     /\ exporterAt("switching")
     /\ UNCHANGED <<dir, msr>>
  \/ /\ exporter.at = "switching"
     /\ dir' = [dir EXCEPT !.status = <<exporter.sequenceMax>>]
     /\ exporterAt("ending")
     /\ UNCHANGED <<queue, msr>>
  \/ /\ exporter.at = "ending"
     /\ msr' = [msr EXCEPT !.cutoverDetected = TRUE]
     /\ exporterAt("ended")
     /\ UNCHANGED <<dir, queue>>

CutOverExport ==
  SwitchOperation /\ UNCHANGED <<sourceVars, registry, offset, importVars, cutover, kills>>

\* Cutover is initiated when everything is exported, the application stopped.
InitiateCutover ==
  /\ scenario.live /\ ~cutover
  /\ exporter.at = "streaming" /\ exporter.batch = "reading" /\ Streaming
  /\ Len(wal) = exporter.read /\ exporter.read = Larger(offset, msr.slot)
  /\ cutover' = TRUE
  /\ UNCHANGED <<sourceVars, registry, exportVars, importVars, kills>>

-----------------------------------------------------------------------------
(* Import data.                                                            *)

ImporterRole == "target_db_importer"

importerAt(at) == importer' = [importer EXCEPT !.at = at]

Waiting == [at |-> "off", flags |-> [include |-> {}, exclude |-> {}], clean |-> FALSE,
            list |-> {}, tasks |-> {}, identity |-> {}]

\* checkExportDataDoneOrStartedFlag; without files the command fails.  Live, there
\* are no flags.
ImportData(flags, clean) ==
  /\ importer.at = "off" /\ ~imported.ended
  /\ msr.done /\ (dir.descriptor # {} => dir.data = "dumped")
  /\ exporter.at # "clearing data" /\ (scenario.live \/ exporter.at \in {"off", "ended"})
  /\ importer' = [Waiting EXCEPT !.at = "naming", !.flags = flags, !.clean = clean]
  /\ UNCHANGED <<sourceVars, registry, exportVars, imported, target, cutover, kills>>

shouldReregisterYBNames == importer.clean \/ ~imported.started

\* InitNameRegistry: the target's names are registered if they are not; an importer
\* that starts afresh drops them and registers them again, each time with a save.
InitNameRegistry ==
  LET names == registerNames(registry, ImporterRole, Schemas,
                             [tables |-> target.tables, sequences |-> target.sequences])
  IN
  \/ /\ importer.at = "naming" /\ registry' = names
     /\ importerAt(IF shouldReregisterYBNames THEN "unregistering" ELSE "listing")
  \/ /\ importer.at = "unregistering" /\ registry' = UnRegisterYBNames(registry)
     /\ importerAt("registering")
  \/ /\ importer.at = "registering" /\ registry' = names
     /\ importerAt("listing")

RegisterTarget ==
  InitNameRegistry /\ UNCHANGED <<sourceVars, exportVars, imported, target, cutover, kills>>

tupleOf(n) ==
  LookupTableNameAndIgnoreIfTargetNotFoundBasedOnRole(registry, ImporterRole, n)

\* discoverFilesToImport: files without rows are skipped.
discoverFilesToImport ==
  {[file |-> f.file, ids |-> f.ids, tuple |-> tupleOf(f.table)] :
     f \in {g \in dir.descriptor : g.ids # {}}}

\* applyTableListFilter: the flags over the tables of the files.
applyTableListFilter(tasks, flags) ==
  LET all     == {t.tuple : t \in tasks}
      include == extractTableListFromString(registry, all, flags.include)
      exclude == extractTableListFromString(registry, all, flags.exclude)
      chosen  == {t \in tasks : /\ flags.include = {} \/ t.tuple \in include.list
                                /\ t.tuple \notin exclude.list}
  IN  [ok |-> include.known /\ exclude.known /\ \A t \in chosen : t.tuple.target # NoName,
       tasks |-> chosen]

\* initialiseImportTableList: live, the exporter's list, all of it on the target;
\* offline, what the flags leave of the files.
initialiseImportTableList(flags) ==
  LET files == discoverFilesToImport
      live  == {tupleOf(n) : n \in msr.rootList}
      offline == applyTableListFilter(files, flags)
  IN  IF \E t \in files : t.tuple.err # "" THEN [ok |-> FALSE, tasks |-> {}, list |-> {}]
      ELSE IF scenario.live
      THEN [ok |-> \A t \in live : t.err = "" /\ t.target # NoName, tasks |-> files, list |-> live]
      ELSE [ok |-> offline.ok, tasks |-> offline.tasks, list |-> {t.tuple : t \in offline.tasks}]

ChooseImport ==
  LET chosen == initialiseImportTableList(importer.flags) IN
  /\ importer.at = "listing"
  /\ importer' = IF ~chosen.ok THEN Waiting
                 ELSE [importer EXCEPT !.at = IF importer.clean THEN "cleaning" ELSE "starting",
                                       !.tasks = chosen.tasks, !.list = chosen.list]
  /\ UNCHANGED <<sourceVars, registry, exportVars, imported, target, cutover, kills>>

\* The place of the stream among the files that count as imported.
Stream == <<"stream">>

\* clearMigrationStateForImportDataStartClean, with --truncate-tables: the tables
\* of the files are emptied, the state of the files is removed one by one, and the
\* list of identity columns goes last.  imported.stale are the files, and the
\* stream, that count as imported though their rows are gone.
TruncateTables ==
  LET gone == {r \in target.rows : r[1] \in {t.tuple.target : t \in importer.tasks}} IN
  /\ importer.at = "cleaning"
  /\ target' = [target EXCEPT !.rows = @ \ gone]
  /\ imported' = [imported EXCEPT
       !.stale = @ \cup (imported.files \cap {t.file : t \in importer.tasks})
                   \cup (IF imported.applied > 0 /\ gone # {} THEN {Stream} ELSE {})]
  /\ importerAt("cleaning files")
  /\ UNCHANGED <<sourceVars, registry, exportVars, cutover, kills>>

CleanFileState(task) ==
  /\ importer.at = "cleaning files" /\ task.file \in imported.files
  /\ imported' = [imported EXCEPT !.files = @ \ {task.file}, !.stale = @ \ {task.file}]
  /\ UNCHANGED <<sourceVars, registry, exportVars, importer, target, cutover, kills>>

\* imported.forgotten are the columns that are suspended when the list is deleted.
DeleteIdentityColumns ==
  /\ importer.at = "cleaning files" /\ \A t \in importer.tasks : t.file \notin imported.files
  /\ imported' = IF ~scenario.live \/ imported.identity = Nil THEN imported
                 ELSE [imported EXCEPT !.identity = Nil,
                                       !.forgotten = @ \cup (imported.identity[1] \ target.always)]
  /\ importerAt("starting")
  /\ UNCHANGED <<sourceVars, registry, exportVars, target, cutover, kills>>

\* updateImportDataStartedAndSomeConfigsInMetaDB
StartImport ==
  /\ importer.at = "starting"
  /\ imported' = [imported EXCEPT !.started = TRUE]
  /\ importerAt("loading")
  /\ UNCHANGED <<sourceVars, registry, exportVars, target, cutover, kills>>

\* A file of the snapshot, with COPY, which identity columns accept.
LoadFile(task) ==
  /\ importer.at = "loading" /\ task.file \notin imported.files
  /\ target' = [target EXCEPT !.rows = @ \cup {<<task.tuple.target, i>> : i \in task.ids}]
  /\ imported' = [imported EXCEPT !.files = @ \cup {task.file}]
  /\ UNCHANGED <<sourceVars, registry, exportVars, importer, cutover, kills>>

SnapshotImported == \A t \in importer.tasks : t.file \in imported.files

\* fetchAndStoreGeneratedAlwaysIdentityColumnsInMetadb: the tables with GENERATED
\* ALWAYS columns, as they were at the first run.
FetchIdentityColumns(list) ==
  IF imported.identity # Nil THEN imported.identity[1]
  ELSE target.always \cap {t.target : t \in list}

HandleIdentityColumns ==
  /\ importer.at = "loading" /\ SnapshotImported /\ scenario.live
  /\ LET tables == FetchIdentityColumns(importer.list) IN
       /\ imported' = [imported EXCEPT !.identity = <<tables>>]
       /\ importer' = [importer EXCEPT !.at = "disabling", !.identity = tables]
  /\ UNCHANGED <<sourceVars, registry, exportVars, target, cutover, kills>>

\* DisableGeneratedAlwaysAsIdentityColumns: one ALTER TABLE after the other.
DisableGeneratedAlways(t) ==
  /\ importer.at = "disabling" /\ t \in importer.identity \cap target.always
  /\ target' = [target EXCEPT !.always = @ \ {t}]
  /\ UNCHANGED <<sourceVars, registry, exportVars, importer, imported, cutover, kills>>

\* streamChanges: nothing to stream if the cutover's event was met in an earlier run;
\* InitLiveMigrationState forgets the applied events of a clean start.
StartStreaming ==
  /\ importer.at = "disabling" /\ importer.identity \cap target.always = {}
  /\ IF imported.detected THEN importerAt("restoring") /\ UNCHANGED imported
     ELSE /\ importerAt("streaming")
          /\ imported' = IF importer.clean
                         THEN [imported EXCEPT !.applied = 0, !.stale = @ \ {Stream}]
                         ELSE imported
  /\ UNCHANGED <<sourceVars, registry, exportVars, target, cutover, kills>>

\* An INSERT from the queue, up to the committed size: a GENERATED ALWAYS column would refuse its value.
ApplyEvent ==
  LET event == queue.events[imported.applied + 1]
      name  == tupleOf(event[1]).target
  IN
  /\ importer.at = "streaming"
  /\ imported.applied < queue.synced /\ imported.applied < Len(queue.events)
  /\ IF name \in target.always
     THEN importerAt("rejected") /\ UNCHANGED <<imported, target>>
     ELSE /\ target' = [target EXCEPT !.rows = @ \cup {<<name, event[2]>>}]
          /\ imported' = [imported EXCEPT !.applied = @ + 1]
          /\ UNCHANGED importer
  /\ UNCHANGED <<sourceVars, registry, exportVars, cutover, kills>>

\* The cutover's event is detected; postCutoverProcessing: the status file's
\* sequences, then the identity columns, then the cutover is processed.
PostCutover ==
  LET status == restoreSequencesInLiveMigration(registry, dir.status[1]) IN
  \/ /\ importer.at = "streaming"
     /\ queue.closed /\ imported.applied = Len(queue.events)
     /\ imported' = [imported EXCEPT !.detected = TRUE]
     /\ importerAt("restoring")
     /\ UNCHANGED target
  \/ /\ importer.at = "restoring"
     /\ IF status.err THEN importer' = Waiting /\ UNCHANGED target
        ELSE importerAt("enabling")
             /\ target' = [target EXCEPT !.seqs = RestoreSequences(@, status.values)]
     /\ UNCHANGED imported
  \/ /\ importer.at = "enabling" /\ importer.identity \subseteq target.always
     /\ imported' = [imported EXCEPT !.ended = TRUE]
     /\ importerAt("ended")
     /\ UNCHANGED target

PostCutoverProcessing ==
  PostCutover /\ UNCHANGED <<sourceVars, registry, exportVars, cutover, kills>>

\* EnableGeneratedAlwaysAsIdentityColumns
EnableGeneratedAlways(t) ==
  /\ importer.at = "enabling" /\ t \in importer.identity \ target.always
  /\ target' = [target EXCEPT !.always = @ \cup {t}]
  /\ UNCHANGED <<sourceVars, registry, exportVars, importer, imported, cutover, kills>>

\* postSnapshotImportProcessing
PostSnapshotImport ==
  LET flags  == importer.flags
      values == restoreSequencesInOfflineMigration(registry, dir.postdata,
                  IF msr.colToSeq = Nil THEN <<>> ELSE msr.colToSeq[1],
                  Keys(importer.list), flags.include # {} \/ flags.exclude # {})
  IN
  /\ importer.at = "loading" /\ SnapshotImported /\ ~scenario.live
  /\ IF values.err THEN importer' = Waiting /\ UNCHANGED <<target, imported>>
     ELSE /\ target' = [target EXCEPT !.seqs = RestoreSequences(@, values.values)]
          /\ imported' = [imported EXCEPT !.ended = TRUE]
          /\ importerAt("ended")
  /\ UNCHANGED <<sourceVars, registry, exportVars, cutover, kills>>

-----------------------------------------------------------------------------
(* Kills, and the specification.                                           *)

\* What Debezium had not synced may be lost.
KillExporter ==
  /\ kills < MaxKills /\ exporter.at \notin {"off", "ended"}
  /\ exporter' = Idle /\ kills' = kills + 1
  /\ \E n \in 0..Len(queue.events) :
       /\ n >= queue.synced \/ n = Len(queue.events)
       /\ queue' = [queue EXCEPT !.events = SubSeq(@, 1, n)]
  /\ UNCHANGED <<sourceVars, registry, dir, msr, offset, importVars, cutover>>

KillImporter ==
  /\ kills < MaxKills /\ importer.at \notin {"off", "ended"}
  /\ importer' = Waiting /\ kills' = kills + 1
  /\ UNCHANGED <<sourceVars, registry, exportVars, imported, target, cutover>>

Init ==
  /\ scenario \in Scenarios
  /\ source = [tables |-> scenario.catalog.tables, rows |-> scenario.rows,
               seqAt |-> scenario.seqAt]
  /\ wal = <<>>
  /\ registry = EmptyRegistry
  /\ dir = EmptyDir
  /\ msr = [rootList |-> {}, leafList |-> {}, renames |-> <<>>, colToSeq |-> Nil, done |-> FALSE,
            slot |-> 0, publication |-> {}, cutoverDetected |-> FALSE]
  /\ queue = [events |-> <<>>, synced |-> 0, closed |-> FALSE]
  /\ offset = 0
  /\ exporter = Idle
  /\ importer = Waiting
  /\ imported = [started |-> FALSE, files |-> {}, applied |-> 0, identity |-> Nil,
                 detected |-> FALSE, ended |-> FALSE, stale |-> {}, forgotten |-> {}]
  /\ target = [tables |-> scenario.target \ scenario.missing,
               sequences |-> scenario.catalog.sequences \ scenario.missing, rows |-> {},
               seqs |-> [s \in scenario.catalog.sequences |-> 0], always |-> scenario.always]
  /\ cutover = FALSE
  /\ kills = 0

Export ==
  \/ \E f \in scenario.exportFlags, clean \in BOOLEAN : ExportData(f, clean)
  \/ ClearMigrationState \/ RegisterSource \/ ChooseTables \/ RefuseTables \/ NothingToExport
  \/ SaveTables \/ createReplicationSlot \/ StartDump \/ EndDump \/ setDataIsExported
  \/ StartDebezium \/ HandleRecord \/ CompleteBatch \/ flushToDisk \/ CutOverExport

Import ==
  \/ \E f \in scenario.importFlags, clean \in BOOLEAN : ImportData(f, clean)
  \/ RegisterTarget \/ ChooseImport \/ TruncateTables \/ DeleteIdentityColumns \/ StartImport
  \/ \E t \in importer.tasks : CleanFileState(t)
  \/ \E t \in importer.tasks : LoadFile(t)
  \/ HandleIdentityColumns \/ (\E t \in importer.identity : DisableGeneratedAlways(t))
  \/ StartStreaming \/ ApplyEvent
  \/ PostCutoverProcessing \/ (\E t \in importer.identity : EnableGeneratedAlways(t))
  \/ PostSnapshotImport

\* The migration is over.
Finished == imported.ended /\ UNCHANGED vars

Next ==
  \/ \E t \in scenario.catalog.tables \cup scenario.late : Insert(t) \/ CreateSourceTable(t)
  \/ CreateTargetTables \/ InitiateCutover
  \/ Export \/ Import
  \/ KillExporter \/ KillImporter
  \/ Finished

Spec == Init /\ [][Next]_vars

-----------------------------------------------------------------------------
(* Properties.                                                             *)

\* A table and the tables that it is a partition of.
lineage(t) ==
  LET parent == scenario.catalog.parent
      line[n \in scenario.catalog.tables \cup scenario.late] ==
        <<n>> \o IF n \in DOMAIN parent THEN line[parent[n]] ELSE <<>>
  IN  line[t]

rootOf(t) == lineage(t)[Len(lineage(t))]

\* The tables with rows that flags are about, without a list in between: one is in
\* if it or a table that it is a partition of is named, and out if one is excluded.
Selected(tables, flags) ==
  LET named(t, patterns) == \E i \in DOMAIN lineage(t), p \in patterns :
                              MatchesPattern(lineage(t)[i], "public", p)
  IN  {t \in tables : /\ GetPartitions([scenario.catalog EXCEPT !.tables = tables], t) = {}
                      /\ flags.include = {} \/ named(t, flags.include)
                      /\ ~named(t, flags.exclude)}

\* The tables of a list that hold rows themselves.
leavesOf(keys, renames) == keys \ ValuesOf(renames)

\* An export works on the tables its flags select, on a first run those of the
\* source and on a later one exactly those of the first, and live only if their
\* keys allow it; it is refused for a changed list only if its flags, applied to
\* the registered tables, select other tables than the stored ones.
TableListHonest ==
  [][exporter.at = "listing" /\ exporter'.at = "decided" =>
       LET chosen   == exporter'.chosen
           leaves   == leavesOf(Keys(chosen.list), chosen.renames)
           stored   == leavesOf(msr.leafList, msr.renames)
           known    == registry.source[1]
           firstRun == exporter.clean \/ msr.leafList = {}
           hasRows(t) == \E r \in source.rows : r[1] = t
           keyOf    == scenario.catalog.primaryKey
       IN  /\ chosen.verdict = "proceed" =>
                /\ leaves = {t \in Selected(IF firstRun THEN source.tables ELSE known, exporter.flags) :
                               scenario.live \/ hasRows(t)}
                /\ ~firstRun => leaves = stored
                /\ scenario.live =>
                     \A t, u \in leaves : /\ t \in DOMAIN keyOf
                                          /\ rootOf(t) = rootOf(u) => keyOf[t] = keyOf[u]
           /\ chosen.verdict = "changed table list" /\ stored \subseteq known =>
                Selected(known, exporter.flags) # stored]_vars

\* Where the rows of a root belong: in the table of the same name.  A root that the
\* target lacks is not left out if the target has a table whose name is the same but
\* for the letter case, as the comment in discoverFilesToImport expects: its rows go
\* there.
Home(t) ==
  IF t \notin registry.yb[1] /\ \E n \in registry.yb[1] : EqualFold(n, t)
  THEN CHOOSE n \in registry.yb[1] : EqualFold(n, t) ELSE t

\* At the end the target has, under the name of its root, every row of every table
\* that was chosen, and nothing else: no name was paired with another table's where
\* the target has both, no partition or change was lost or imported twice under
\* different names.  Excepted is an import --start-clean that was killed, or that came
\* after the cutover's event, so that what it had emptied still counts as imported.
TablesMigrated ==
  imported.ended /\ imported.stale = {} =>
    LET inFlags(t) == Selected({rootOf(t)}, importer.flags) # {}
    IN  target.rows = {<<Home(rootOf(r[1])), r[2]>> :
                         r \in {x \in source.rows : /\ x[1] \in leavesOf(msr.leafList, msr.renames)
                                                    /\ inFlags(x[1])}}

\* No change meets a GENERATED ALWAYS column, and at the end these columns are as
\* they were and every sequence is past the values that the target's rows have, so
\* that the application's first inserts there succeed.  Exactly the columns that were
\* suspended when an import --start-clean deleted the list of them are excepted: they
\* stay GENERATED BY DEFAULT.
GeneratorsReady ==
  /\ importer.at # "rejected"
  /\ imported.ended =>
       /\ target.always = scenario.always \ imported.forgotten
       /\ \A t \in source.tables \cap DOMAIN scenario.catalog.attached :
            \A i \in ids(target.rows, rootOf(t)) : i <= target.seqs[scenario.catalog.attached[t]]
=============================================================================
