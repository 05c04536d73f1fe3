--------------------------- MODULE ImportDataCommand ---------------------------
(***************************************************************************)
(* 'import data to target', 'import data to source' (fall-back) and        *)
(* 'import data to source-replica' (fall-forward) in a live migration      *)
(* (cmd/importData.go, live_migration.go, importDataToSource.go,           *)
(* importDataToSourceReplica.go), and the iteration that 'import data to   *)
(* source' sets up when the migration starts over (cmd/cutover.go).        *)
(***************************************************************************)
EXTENDS MigrationStatus

ImporterLabels == {"off", "init", "enable", "waitExport", "check", "import",
                   "snapshot", "waitDebezium", "stream", "post", "waitExporter",
                   "further", "setLatest", "setRecord", "setInitialized", "execNext"}

(* changeStreamingIsEnabled(importType) *)
streamsChanges(d, c) ==
  c = "import data to target" => importType[d] \in {SNAPSHOT_AND_CHANGES, CHANGES_ONLY}

importSnapshotRequired(d, c) ==
  CASE c = "import data to target" -> importType[d] = SNAPSHOT_AND_CHANGES
    [] c = "import data to source" -> FALSE
    [] OTHER -> TRUE

(* furtherCommandsRequired *)
FurtherAfterImport(d, c) ==
  \/ /\ c = "import data to target" /\ streamsChanges(d, c)
     /\ {"FallbackEnabled", "FallForwardEnabled"} \cap msr[d] # {}
  \/ /\ c = "import data to source"
     /\ "RestartDataMigrationSourceTargetNextIteration" \in msr[d]

(***************************************************************************)
(* The command's own checks and                                            *)
(* setImportTypeAndIdentityColumnMetaDBKeyForImporterRole: the import type *)
(* is read once, before the wait for the exporter.                         *)
(***************************************************************************)
ImportInit(d, c) ==
  /\ pc[d][c] = "init"
  /\ CASE c = "import data to target" ->
            /\ importType' = [importType EXCEPT ![d] = exportType[d]]
            /\ Goto(d, c, "waitExport") /\ UNCHANGED toRun
       [] c = "import data to source" ->
            /\ IF "FallbackEnabled" \in msr[d]
               THEN Goto(d, c, "waitExport") /\ UNCHANGED toRun
               ELSE ErrExit(d, c)
            /\ UNCHANGED importType
       [] OTHER ->
            /\ IF "FallbackEnabled" \in msr[d] \/ exportType[d] = CHANGES_ONLY
               THEN ErrExit(d, c)
               ELSE Goto(d, c, "enable") /\ UNCHANGED toRun
            /\ UNCHANGED importType
  /\ UNCHANGED <<msrVars, kills, dataVars>>

(* updateFallForwardEnabledInMetaDB *)
EnableFallForward(d, c) ==
  /\ pc[d][c] = "enable"
  /\ Set(d, {"FallForwardEnabled"})
  /\ Goto(d, c, "waitExport")
  /\ UNCHANGED <<exportType, latest, importType, toRun, kills, dataVars>>

(* checkExportDataDoneOrStartedFlag *)
ExportDataIsDone(d, c) ==
  /\ pc[d][c] = "waitExport"
  /\ "ExportDataDone" \in msr[d]
  /\ Goto(d, c, "check")
  /\ UNCHANGED <<msrVars, importType, toRun, kills, dataVars>>

(* handleCutoverAlreadyProcessedForImportData *)
ImportCheckCutover(d, c) ==
  LET role == Role(d, c)
      processed == isCutoverAlreadyProcessed(d, role)
  IN
  /\ pc[d][c] = "check"
  /\ CASE processed /\ StatusFor(d, role) = COMPLETED -> Exit(d, c)
       [] processed /\ StatusFor(d, role) # COMPLETED /\ FurtherAfterImport(d, c) ->
            Goto(d, c, "further") /\ UNCHANGED toRun
       [] OTHER -> Goto(d, c, "import") /\ UNCHANGED toRun
  /\ UNCHANGED <<msrVars, importType, kills, dataVars>>

(* updateImportDataStartedAndSomeConfigsInMetaDB.  A command that took an  *)
(* empty import type has nothing to import and is complete.                *)
ImportStarted(d, c) ==
  /\ pc[d][c] = "import"
  /\ Set(d, CASE c = "import data to target" -> {"ImportDataToTargetStarted"}
              [] c = "import data to source" -> {"ImportDataToSourceStarted"}
              [] OTHER -> {})
  /\ IF streamsChanges(d, c)
     THEN /\ Goto(d, c, IF importSnapshotRequired(d, c) THEN "snapshot" ELSE "waitDebezium")
          /\ UNCHANGED toRun
     ELSE ErrExit(d, c)
  /\ UNCHANGED <<exportType, latest, importType, kills, dataVars>>

(* importSnapshotData: all data files, once. *)
ImportSnapshot(d, c) ==
  /\ pc[d][c] = "snapshot"
  /\ Write(DestinationOf(c), files)
  /\ Goto(d, c, "waitDebezium")
  /\ UNCHANGED <<msrVars, importType, toRun, kills, dataDir, files, queue, done>>

(* waitForDebeziumStartIfRequired, then                                    *)
(* cutoverInitiatedAndCutoverEventProcessed                                *)
DebeziumIsStarted(d, c) ==
  /\ pc[d][c] = "waitDebezium"
  /\ (IF c = "import data to source" THEN "ExportDataTargetDebeziumStarted"
                                     ELSE "ExportDataSourceDebeziumStarted") \in msr[d]
  /\ Goto(d, c, IF {RequestFlag(Role(d, c)), DetectedFlag(Role(d, c))} \subseteq msr[d]
                THEN "post" ELSE "stream")
  /\ UNCHANGED <<msrVars, importType, toRun, kills, dataVars>>

(* resolveSegmentToResumeFrom: 'import data to source' starts at the first *)
(* segment of the target's exporter; from there on segments are read in    *)
(* order.                                                                  *)
NextItem(d, c) ==
  LET unread == {i \in DOMAIN queue[d] :
                   /\ i > done[d][c]
                   /\ c = "import data to source" /\ done[d][c] = 0
                        => queue[d][i].by = "export data from target"}
  IN  IF unread = {} THEN 0 ELSE CHOOSE i \in unread : \A j \in unread : i <= j

(* The event of another importer is taken for the importer's own. *)
OwnCutover_Any(d, c, e) == TRUE

OwnCutover(d, c, e) == e = CutoverEvent(Role(d, c))

(* streamChanges: the next event is applied, skipped (a cutover event      *)
(* meant for another importer), or ends the streaming.                     *)
StreamItem(d, c) ==
  LET i == NextItem(d, c) IN
  /\ pc[d][c] = "stream"
  /\ i > 0
  /\ done' = [done EXCEPT ![d][c] = i]
  /\ LET e == queue[d][i] IN
     IF e.event \in CutoverEvents
     THEN /\ IF OwnCutover(d, c, e.event)
             THEN Set(d, {DetectedFlag(Role(d, c))}) /\ Goto(d, c, "post")
             ELSE UNCHANGED <<msr, pc>>
          /\ UNCHANGED <<db, slot>>
     ELSE Write(DestinationOf(c), {e.write}) /\ UNCHANGED <<msr, pc>>
  /\ UNCHANGED <<exportType, latest, importType, toRun, kills, dataDir, files, queue>>

(* postCutoverProcessing: sequences are restored, the cutover is marked as *)
(* processed.                                                              *)
MarkProcessedByImporter(d, c) ==
  /\ pc[d][c] = "post"
  /\ Set(d, {ProcessedFlag(Role(d, c))})
  /\ Goto(d, c, "waitExporter")
  /\ UNCHANGED <<exportType, latest, importType, toRun, kills, dataVars>>

(* waitUntilCutoverProcessedByCorrespondingExporterForImporter, or its     *)
(* timeout.                                                                *)
ExporterHasProcessed(d, c) ==
  /\ pc[d][c] = "waitExporter"
  /\ ExporterProcessedFlag(Role(d, c)) \in msr[d]
  /\ Goto(d, c, "further")
  /\ UNCHANGED <<msrVars, importType, toRun, kills, dataVars>>

ExporterTimeout(d, c) ==
  /\ pc[d][c] = "waitExporter"
  /\ ExporterProcessedFlag(Role(d, c)) \notin msr[d]
  /\ ErrExit(d, c)
  /\ UNCHANGED <<msrVars, importType, kills, dataVars>>

(* startExportDataFromTargetIfRequired, startExportDataFromSourceOnNextIteration *)
StartFurtherAfterImport(d, c) ==
  /\ pc[d][c] = "further"
  /\ IF ~FurtherAfterImport(d, c) THEN Exit(d, c)
     ELSE IF c = "import data to target" THEN Exec(d, c, "export data from target")
     ELSE IF iterativeCutoverSupported(d) THEN Goto(d, c, "setLatest") /\ UNCHANGED toRun
     ELSE ErrExit(d, c)
  /\ UNCHANGED <<msrVars, importType, kills, dataVars>>

--------------------------------------------------------------------------------
(***************************************************************************)
(* initializeNextIteration: the directory and its empty record exist       *)
(* before the parent points to them; the record of the next iteration is   *)
(* filled in; the current record says last that the iteration is ready.    *)
(***************************************************************************)
NextIterationNo(d) == d + 1

SetLatestIteration(d, c) ==
  /\ pc[d][c] = "setLatest"
  /\ latest' = NextIterationNo(d)
  /\ Goto(d, c, "setRecord")
  /\ UNCHANGED <<msr, exportType, importType, toRun, kills, dataVars>>

SetUpNextRecord(d, c) ==
  /\ pc[d][c] = "setRecord"
  /\ exportType' = [exportType EXCEPT ![NextIterationNo(d)] = CHANGES_ONLY]
  /\ Set(NextIterationNo(d), {"ParentExportDir"})
  /\ Goto(d, c, "setInitialized")
  /\ UNCHANGED <<latest, importType, toRun, kills, dataVars>>

SetNextIterationInitialized(d, c) ==
  /\ pc[d][c] = "setInitialized"
  /\ Set(d, {"NextIterationInitialized"})
  /\ Goto(d, c, "execNext")
  /\ UNCHANGED <<exportType, latest, importType, toRun, kills, dataVars>>

StartNextIteration(d, c) ==
  /\ pc[d][c] = "execNext"
  /\ Exec(d, c, "export data from source")
  /\ UNCHANGED <<msrVars, importType, kills, dataVars>>

ImporterStep(d, c) ==
  \/ ImportInit(d, c)
  \/ EnableFallForward(d, c)
  \/ ExportDataIsDone(d, c)
  \/ ImportCheckCutover(d, c)
  \/ ImportStarted(d, c)
  \/ ImportSnapshot(d, c)
  \/ DebeziumIsStarted(d, c)
  \/ StreamItem(d, c)
  \/ MarkProcessedByImporter(d, c)
  \/ ExporterHasProcessed(d, c)
  \/ StartFurtherAfterImport(d, c)
  \/ SetLatestIteration(d, c)
  \/ SetUpNextRecord(d, c)
  \/ SetNextIterationInitialized(d, c)
  \/ StartNextIteration(d, c)

================================================================================
