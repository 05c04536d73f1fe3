--------------------------- MODULE ExportDataCommand ---------------------------
(***************************************************************************)
(* 'export data from source' and 'export data from target' of a live       *)
(* migration from PostgreSQL (cmd/exportData.go, exportDataDebezium.go,    *)
(* exportDataFromTarget.go), with the Debezium process they run.  The two  *)
(* differ in how they get a replication slot, whether there is a snapshot, *)
(* and in the command they turn into at the end.                           *)
(***************************************************************************)
EXTENDS MigrationStatus

ExporterLabels == {"off", "init", "slot", "save", "dump", "exported", "debezium", "boot",
                   "reached", "streaming", "exitedReached", "exited", "drop",
                   "mark", "further", "waitNext"}

(* What startFurtherCommandsAfterCurrentExportData would start. *)
FurtherAfterExport(d, role) ==
  \/ role = "source_db_exporter" /\ "FallbackEnabled" \in msr[d]
  \/ /\ role = "target_db_exporter_fb"
     /\ "RestartDataMigrationSourceTargetNextIteration" \in msr[d]

(* clearMigrationStateIfRequired without --start-clean *)
MayContinue(d) == dataDir[d] = "empty" \/ streamingMode(d)

(* An iteration's exporter runs with --export-type changes-only. *)
TypeToExport(d) == IF d = 0 THEN SNAPSHOT_AND_CHANGES ELSE CHANGES_ONLY

(* Where the export starts: Debezium is skipped once it has seen the       *)
(* cutover, and the source's slot is made once per snapshot.               *)
FirstStep(d, c) ==
  IF DetectedFlag(Role(d, c)) \in msr[d] THEN "drop"
  ELSE IF c = "export data from source" /\ "ExportDataDone" \in msr[d] THEN "debezium"
  ELSE "slot"

(***************************************************************************)
(* exportDataCommandFn up to the start of the export.  Refused: a target   *)
(* exporter without fall-back or fall-forward, an iteration whose record   *)
(* is not set up.  A rerun after the cutover was processed goes straight   *)
(* to the commands that follow; it exits if all of them have started.      *)
(***************************************************************************)
ExportInit(d, c) ==
  LET role == Role(d, c)
      refused == \/ /\ c = "export data from target"
                    /\ {"FallbackEnabled", "FallForwardEnabled"} \cap msr[d] = {}
                 \/ c = "export data from source" /\ d > 0 /\ IsParentMigration(d)
      processed == isCutoverAlreadyProcessed(d, role)
  IN
  /\ pc[d][c] = "init"
  /\ \/ /\ refused
        /\ ErrExit(d, c)
        /\ UNCHANGED msrVars
     \/ /\ ~refused /\ processed /\ StatusFor(d, role) = COMPLETED
        /\ Exit(d, c)
        /\ UNCHANGED msrVars
     \/ /\ ~refused /\ processed /\ StatusFor(d, role) # COMPLETED
        /\ FurtherAfterExport(d, role)
        /\ Goto(d, c, "further")
        /\ UNCHANGED <<toRun, msrVars>>
     \/ /\ ~refused
        /\ processed => StatusFor(d, role) # COMPLETED /\ ~FurtherAfterExport(d, role)
        /\ IF MayContinue(d)
           THEN /\ Goto(d, c, FirstStep(d, c))
                /\ exportType' = IF c = "export data from source"
                                 THEN [exportType EXCEPT ![d] = TypeToExport(d)]
                                 ELSE exportType
                /\ UNCHANGED <<toRun, msr, latest>>
           ELSE ErrExit(d, c) /\ UNCHANGED msrVars
  /\ UNCHANGED <<dataVars, importType, kills>>

(* createAndStoreReplicationSlotAndPublication drops a slot of this name   *)
(* and creates it anew; createYBReplicationSlotAndPublication keeps it.    *)
CreateSlot(d, c) ==
  IF c = "export data from target" /\ slot[d]["target"].exists
  THEN slot[d]["target"] ELSE NewSlot

(* The source's slot comes with the database snapshot pg_dump will read. *)
CreateReplicationSlot(d, c) ==
  /\ pc[d][c] = "slot"
  /\ slot' = [slot EXCEPT ![d][SourceOf(c)] = CreateSlot(d, c)]
  /\ files' = IF c = "export data from source" /\ exportType[d] # CHANGES_ONLY
              THEN db["source"] ELSE files
  /\ Goto(d, c, "save")
  /\ UNCHANGED <<msrVars, importType, toRun, kills, dataDir, queue, done, db>>

(* "save replication slot, publication name in MSR" *)
SaveSlotName(d, c) ==
  /\ pc[d][c] = "save"
  /\ Set(d, {IF c = "export data from source" THEN "PGReplicationSlotName"
                                              ELSE "YBReplicationSlotName"})
  /\ Goto(d, c, IF c = "export data from target" THEN "debezium"
                ELSE IF exportType[d] = CHANGES_ONLY THEN "exported" ELSE "dump")
  /\ UNCHANGED <<exportType, latest, importType, toRun, kills, dataVars>>

(* exportDataOffline: pg_dump fills the data directory. *)
ExportSnapshot(d, c) ==
  /\ pc[d][c] = "dump"
  /\ dataDir' = [dataDir EXCEPT ![d] = "partial"]
  /\ Goto(d, c, "exported")
  /\ UNCHANGED <<msrVars, importType, toRun, kills, files, queue, done, db, slot>>

SetDataIsExported(d, c) ==
  /\ pc[d][c] = "exported"
  /\ Set(d, {"ExportDataDone"})
  /\ Goto(d, c, "debezium")
  /\ UNCHANGED <<exportType, latest, importType, toRun, kills, dataVars>>

(* Debezium.Start makes data/schemas, then spawns the process. *)
StartDebezium(d, c) ==
  /\ pc[d][c] = "debezium"
  /\ dataDir' = [dataDir EXCEPT ![d] = IF @ = "empty" THEN "partial" ELSE @]
  /\ Set(d, {IF c = "export data from source" THEN "ExportDataSourceDebeziumStarted"
                                              ELSE "ExportDataTargetDebeziumStarted"})
  /\ Goto(d, c, "boot")
  /\ UNCHANGED <<exportType, latest, importType, toRun, kills, files, queue, done, db, slot>>

(* Debezium's first flush of export_status.json. *)
DebeziumConnects(d, c) ==
  /\ pc[d][c] = "boot"
  /\ dataDir' = [dataDir EXCEPT ![d] = "streaming"]
  /\ Goto(d, c, "reached")
  /\ UNCHANGED <<msrVars, importType, toRun, kills, files, queue, done, db, slot>>

StartedFlag(d, c) ==
  CASE Role(d, c) = "source_db_exporter" -> "ExportDataFromSourceStarted"
    [] Role(d, c) = "target_db_exporter_fb" -> "ExportFromTargetFallBackStarted"
    [] OTHER -> "ExportFromTargetFallForwardStarted"

(* checkAndHandleSnapshotComplete, in the polling loop or after Debezium   *)
(* has exited.                                                             *)
HandleSnapshotComplete(d, c) ==
  /\ pc[d][c] \in {"reached", "exitedReached"}
  /\ Set(d, {StartedFlag(d, c)})
  /\ Goto(d, c, IF pc[d][c] = "reached" THEN "streaming" ELSE "exited")
  /\ UNCHANGED <<exportType, latest, importType, toRun, kills, dataVars>>

DebeziumRuns(d, c) == pc[d][c] \in {"reached", "streaming"}

(* handleBatch: a change goes from the slot to the queue. *)
ExportChange(d, c) ==
  /\ DebeziumRuns(d, c)
  /\ \E w \in slot[d][SourceOf(c)].pending :
       /\ \A v \in slot[d][SourceOf(c)].pending : w <= v
       /\ slot' = [slot EXCEPT ![d][SourceOf(c)].pending = @ \ {w}]
       /\ queue' = [queue EXCEPT ![d] = Append(@, Change(c, w))]
  /\ UNCHANGED <<msrVars, procVars, dataDir, files, done, db>>

(* checkForSwitchOperationAndHandle: the cutover record ends Debezium's    *)
(* work, whatever the slot still holds.                                    *)
SwitchOperation(d, c) ==
  /\ DebeziumRuns(d, c)
  /\ RequestFlag(Role(d, c)) \in msr[d]
  /\ queue' = [queue EXCEPT ![d] = Append(@, Cutover(c, CutoverEvent(Role(d, c))))]
  /\ Goto(d, c, IF pc[d][c] = "reached" THEN "exitedReached" ELSE "exited")
  /\ UNCHANGED <<msrVars, importType, toRun, kills, dataDir, files, done, db, slot>>

UpdateCutoverDetectedFlag(d, c) ==
  /\ pc[d][c] = "exited"
  /\ Set(d, {DetectedFlag(Role(d, c))})
  /\ Goto(d, c, "drop")
  /\ UNCHANGED <<exportType, latest, importType, toRun, kills, dataVars>>

(* The cutover is marked as processed with the slot still there. *)
DroppedSlot_Kept(d, c) == slot

DroppedSlot(d, c) == [slot EXCEPT ![d][SourceOf(c)] = NoSlot]

(* delete{PG,YB}ReplicationSlotAndPublication *)
DeleteReplicationSlot(d, c) ==
  /\ pc[d][c] = "drop"
  /\ slot' = DroppedSlot(d, c)
  /\ Goto(d, c, "mark")
  /\ UNCHANGED <<msrVars, importType, toRun, kills, dataDir, files, queue, done, db>>

(* "mark cutover processed only after cleanup"; then setDataIsExported *)
MarkProcessedByExporter(d, c) ==
  /\ pc[d][c] = "mark"
  /\ Set(d, {ProcessedFlag(Role(d, c)), "ExportDataDone"})
  /\ Goto(d, c, "further")
  /\ UNCHANGED <<exportType, latest, importType, toRun, kills, dataVars>>

(* startFallBackSetupIfRequired, startNextIterationImportDataToTarget *)
StartFurtherAfterExport(d, c) ==
  /\ pc[d][c] = "further"
  /\ IF ~FurtherAfterExport(d, Role(d, c)) THEN Exit(d, c)
     ELSE IF c = "export data from source" THEN Exec(d, c, "import data to source")
     ELSE Goto(d, c, "waitNext") /\ UNCHANGED toRun
  /\ UNCHANGED <<msrVars, importType, kills, dataVars>>

(* waitUntilNextIterationInitialized, or its timeout. *)
NextIterationReady(d, c) ==
  /\ pc[d][c] = "waitNext"
  /\ "NextIterationInitialized" \in msr[d]
  /\ Exec(d, c, "import data to target")
  /\ UNCHANGED <<msrVars, importType, kills, dataVars>>

NextIterationTimeout(d, c) ==
  /\ pc[d][c] = "waitNext"
  /\ "NextIterationInitialized" \notin msr[d]
  /\ ErrExit(d, c)
  /\ UNCHANGED <<msrVars, importType, kills, dataVars>>

ExporterStep(d, c) ==
  \/ ExportInit(d, c)
  \/ CreateReplicationSlot(d, c)
  \/ SaveSlotName(d, c)
  \/ ExportSnapshot(d, c)
  \/ SetDataIsExported(d, c)
  \/ StartDebezium(d, c)
  \/ DebeziumConnects(d, c)
  \/ HandleSnapshotComplete(d, c)
  \/ ExportChange(d, c)
  \/ SwitchOperation(d, c)
  \/ UpdateCutoverDetectedFlag(d, c)
  \/ DeleteReplicationSlot(d, c)
  \/ MarkProcessedByExporter(d, c)
  \/ StartFurtherAfterExport(d, c)
  \/ NextIterationReady(d, c)

================================================================================
