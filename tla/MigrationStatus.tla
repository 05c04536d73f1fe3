--------------------------- MODULE MigrationStatus ---------------------------
(* What the commands of a live migration share: the migration status        *)
(* record, the lock files, and how a command starts, dies and is run again. *)
EXTENDS Naturals, Sequences, FiniteSets

-----------------------------------------------------------------------------
(* The migration status record (MSR) of the meta database, through which   *)
(* the commands of a live migration talk to each other, and what they read *)
(* out of it (metadb/migrationStatus.go, cmd/common.go, cmd/cutover.go,    *)
(* cmd/root.go).  A migration that falls back may start over in an         *)
(* iteration: a new export directory under the parent's, with a record,    *)
(* queue and replication slots of its own.                                 *)
(*                                                                         *)
(* The record is the set of its Boolean fields that are true and of the    *)
(* slot names that are filled in; the fields with a value that matters     *)
(* here are variables of their own.                                        *)

CONSTANT MaxIteration   \* bound on LatestIterationNumber

ASSUME MaxIterationAssumption == MaxIteration \in Nat

(* Export directories: 0 is the parent's, n that of iteration n. *)
Dirs == 0 .. MaxIteration

Exporters == {"export data from source", "export data from target"}
Importers == {"import data to target", "import data to source",
              "import data to source-replica"}
Commands == Exporters \cup Importers

SNAPSHOT_AND_CHANGES == "snapshot-and-changes"
CHANGES_ONLY == "changes-only"
ExportTypes == {"", SNAPSHOT_AND_CHANGES, CHANGES_ONLY}

Flags == {"FallForwardEnabled", "FallbackEnabled",
          "CutoverToTargetRequested", "CutoverToSourceRequested",
          "CutoverToSourceReplicaRequested",
          "CutoverDetectedByTargetImporter", "CutoverDetectedBySourceImporter",
          "CutoverDetectedBySourceReplicaImporter",
          "CutoverDetectedBySourceExporter", "CutoverDetectedByTargetFFExporter",
          "CutoverDetectedByTargetFBExporter",
          "CutoverProcessedBySourceExporter", "CutoverProcessedByTargetImporter",
          "CutoverToSourceProcessedByTargetExporter",
          "CutoverToSourceProcessedBySourceImporter",
          "CutoverToSourceReplicaProcessedByTargetExporter",
          "CutoverToSourceReplicaProcessedBySRImporter",
          "ExportFromTargetFallForwardStarted", "ExportFromTargetFallBackStarted",
          "ImportDataToSourceStarted", "ExportDataDone",
          "ExportDataSourceDebeziumStarted", "ExportDataTargetDebeziumStarted",
          "RestartDataMigrationSourceTargetNextIteration", "ParentExportDir",
          "NextIterationInitialized", "ExportDataFromSourceStarted",
          "ImportDataToTargetStarted", "PGReplicationSlotName", "YBReplicationSlotName"}

VARIABLES
  msr,          \* [Dirs -> SUBSET Flags], the true fields of each record
  exportType,   \* [Dirs -> ExportTypes], ExportTypeFromSource
  latest        \* LatestIterationNumber of the parent's record

msrVars == <<msr, exportType, latest>>

MSRTypeOK == /\ msr \in [Dirs -> SUBSET Flags]
             /\ exportType \in [Dirs -> ExportTypes]
             /\ latest \in Dirs

(* UpdateMigrationStatusRecord: one transaction on one record. *)
Set(d, fs) == msr' = [msr EXCEPT ![d] = @ \cup fs]

(***************************************************************************)
(* The role of a command.  'export data from target' serves fall-back if   *)
(* that is enabled, fall-forward otherwise.                                *)
(***************************************************************************)
Role(d, c) ==
  CASE c = "export data from source"       -> "source_db_exporter"
    [] c = "import data to target"         -> "target_db_importer"
    [] c = "import data to source"         -> "source_db_importer"
    [] c = "import data to source-replica" -> "source_replica_db_importer"
    [] OTHER -> IF "FallbackEnabled" \in msr[d]
                THEN "target_db_exporter_fb" ELSE "target_db_exporter_ff"

RequestFlag(role) ==
  CASE role \in {"source_db_exporter", "target_db_importer"} -> "CutoverToTargetRequested"
    [] role \in {"target_db_exporter_fb", "source_db_importer"} -> "CutoverToSourceRequested"
    [] OTHER -> "CutoverToSourceReplicaRequested"

(* The cutover record that Debezium writes for a role and an importer     *)
(* stops at.                                                               *)
CutoverEvent(role) ==
  CASE role \in {"source_db_exporter", "target_db_importer"} -> "cutover.target"
    [] role \in {"target_db_exporter_fb", "source_db_importer"} -> "cutover.source"
    [] OTHER -> "cutover.source_replica"

DetectedFlag(role) ==
  CASE role = "source_db_exporter"         -> "CutoverDetectedBySourceExporter"
    [] role = "target_db_exporter_fb"      -> "CutoverDetectedByTargetFBExporter"
    [] role = "target_db_exporter_ff"      -> "CutoverDetectedByTargetFFExporter"
    [] role = "target_db_importer"         -> "CutoverDetectedByTargetImporter"
    [] role = "source_db_importer"         -> "CutoverDetectedBySourceImporter"
    [] OTHER                               -> "CutoverDetectedBySourceReplicaImporter"

(* markCutoverProcessed *)
ProcessedFlag(role) ==
  CASE role = "source_db_exporter"         -> "CutoverProcessedBySourceExporter"
    [] role = "target_db_exporter_fb"      -> "CutoverToSourceProcessedByTargetExporter"
    [] role = "target_db_exporter_ff"      -> "CutoverToSourceReplicaProcessedByTargetExporter"
    [] role = "target_db_importer"         -> "CutoverProcessedByTargetImporter"
    [] role = "source_db_importer"         -> "CutoverToSourceProcessedBySourceImporter"
    [] OTHER                               -> "CutoverToSourceReplicaProcessedBySRImporter"

(* waitUntilCutoverProcessedByCorrespondingExporterForImporter *)
ExporterProcessedFlag(role) ==
  CASE role = "target_db_importer" -> "CutoverProcessedBySourceExporter"
    [] role = "source_db_importer" -> "CutoverToSourceProcessedByTargetExporter"
    [] OTHER                       -> "CutoverToSourceReplicaProcessedByTargetExporter"

--------------------------------------------------------------------------------
(* Cutover status, computed from one record. *)

NOT_INITIATED == "NOT INITIATED"
INITIATED == "INITIATED"
COMPLETED == "COMPLETED"

(* Without the started flags of the fall-back or fall-forward commands. *)
GetCutoverStatus_FlagsOnly(d) ==
  LET f == msr[d] IN
  IF "CutoverToTargetRequested" \notin f THEN NOT_INITIATED
  ELSE IF {"CutoverProcessedBySourceExporter", "CutoverProcessedByTargetImporter"} \subseteq f
       THEN COMPLETED ELSE INITIATED

GetCutoverStatus(d) ==
  LET f == msr[d]
      processed == {"CutoverProcessedBySourceExporter",
                    "CutoverProcessedByTargetImporter"} \subseteq f
      started == \/ {"FallForwardEnabled", "ExportFromTargetFallForwardStarted"} \subseteq f
                 \/ {"FallbackEnabled", "ExportFromTargetFallBackStarted",
                     "ImportDataToSourceStarted"} \subseteq f
                 \/ {"FallForwardEnabled", "FallbackEnabled"} \cap f = {}
  IN  IF "CutoverToTargetRequested" \notin f THEN NOT_INITIATED
      ELSE IF processed /\ started THEN COMPLETED ELSE INITIATED

getCutoverToSourceReplicaStatus(d) ==
  LET f == msr[d] IN
  IF "CutoverToSourceReplicaRequested" \notin f THEN NOT_INITIATED
  ELSE IF {"CutoverToSourceReplicaProcessedByTargetExporter",
           "CutoverToSourceReplicaProcessedBySRImporter"} \subseteq f
       THEN COMPLETED ELSE INITIATED

isNextIterationStartedIfRequired(d) ==
  \/ "RestartDataMigrationSourceTargetNextIteration" \notin msr[d]
  \/ /\ "NextIterationInitialized" \in msr[d]
     /\ d + 1 \in Dirs
     /\ {"ExportDataFromSourceStarted", "ImportDataToTargetStarted"} \subseteq msr[d + 1]

GetCutoverToSourceStatus(d) ==
  LET f == msr[d] IN
  IF "CutoverToSourceRequested" \notin f THEN NOT_INITIATED
  ELSE IF /\ {"CutoverToSourceProcessedByTargetExporter",
              "CutoverToSourceProcessedBySourceImporter"} \subseteq f
          /\ isNextIterationStartedIfRequired(d)
       THEN COMPLETED ELSE INITIATED

(* The status that decides whether a rerun of the command has nothing left *)
(* to do (handleCutoverAlreadyProcessedFor{Export,Import}Data).            *)
StatusFor(d, role) ==
  CASE role \in {"source_db_exporter", "target_db_importer"} -> GetCutoverStatus(d)
    [] role \in {"target_db_exporter_fb", "source_db_importer"} -> GetCutoverToSourceStatus(d)
    [] OTHER -> getCutoverToSourceReplicaStatus(d)

iterativeCutoverSupported(d) == "FallbackEnabled" \in msr[d]

IsParentMigration(d) == "ParentExportDir" \notin msr[d]

(***************************************************************************)
(* resolveToActiveIterationIfRequired: the directory a command works in.   *)
(* Fall-back commands belong to the previous iteration as long as the      *)
(* latest one is in its forward phase.                                     *)
(***************************************************************************)
fallbackPhaseCommands == {"export data from target", "import data to source",
                          "initiate cutover to source"}

liveMigrationIterationCommandList ==
  fallbackPhaseCommands \cup {"export data from source", "import data to target",
                              "initiate cutover to target"}

(* Every command goes to the latest iteration. *)
ResolveDir_Latest(c) ==
  IF c \in liveMigrationIterationCommandList THEN latest ELSE 0

ResolveDir(c) ==
  IF c \notin liveMigrationIterationCommandList \/ latest = 0 THEN 0
  ELSE IF c \in fallbackPhaseCommands /\ GetCutoverStatus(latest) = NOT_INITIATED
       THEN latest - 1
       ELSE latest

-----------------------------------------------------------------------------
(* What the data commands of a live migration share: their processes, the  *)
(* databases and replication slots, and the export directory with its data *)
(* files and change queue.                                                 *)
(*                                                                         *)
(* A write of the application is a number; a database is the set of writes *)
(* it holds.  A replication slot keeps the writes made to its database     *)
(* since it was created and not yet exported.  The queue of a directory    *)
(* is written by Debezium and read by the importers; its inner workings    *)
(* are the subject of ChangeQueue and StreamImport, a file's import that   *)
(* of SnapshotImport.                                                      *)

CONSTANTS MaxWrites,    \* bound on the application's writes
          MaxKills      \* bound on the commands that are killed

ASSUME MigrationBoundsAssumption == MaxWrites \in Nat /\ MaxKills \in Nat

Databases == {"source", "target", "source-replica"}
Writes == 1 .. MaxWrites

VARIABLES
  pc,           \* [Dirs -> [Commands -> step of its process, "off" if none]]
  importType,   \* [Dirs -> what 'import data to target' took for its importType]
  toRun,        \* commands the user has to run, for the first time or again
  dataDir,      \* [Dirs -> "empty", "partial", or "streaming": the data directory
                \*          holds files, and export_status.json says STREAMING]
  files,        \* writes in the snapshot of directory 0
  queue,        \* [Dirs -> sequence of [by: exporter, event: "change" or a
                \*          cutover event, write: the change's write or 0]]
  done,         \* [Dirs -> [Importers -> queue items it has dealt with]]
  db,           \* [Databases -> SUBSET Writes]
  slot,         \* [Dirs -> [{"source", "target"} -> [exists, pending]]]
  kills,        \* commands killed so far
  ended         \* directories that 'end migration' has removed

procVars == <<pc, importType, toRun, kills>>
dataVars == <<dataDir, files, queue, done, db, slot>>

NoSlot == [exists |-> FALSE, pending |-> {}]
NewSlot == [exists |-> TRUE, pending |-> {}]

Change(c, w) == [by |-> c, event |-> "change", write |-> w]
Cutover(c, e) == [by |-> c, event |-> e, write |-> 0]

CutoverEvents == {"cutover.target", "cutover.source", "cutover.source_replica"}

SourceOf(c) == IF c = "export data from source" THEN "source" ELSE "target"
DestinationOf(c) == CASE c = "import data to target" -> "target"
                      [] c = "import data to source" -> "source"
                      [] OTHER -> "source-replica"

(* Writes land in a database and in every slot on it. *)
Write(name, ws) ==
  /\ db' = [db EXCEPT ![name] = @ \cup ws]
  /\ slot' = [d \in Dirs |-> [s \in {"source", "target"} |->
                IF s = name /\ slot[d][s].exists
                THEN [slot[d][s] EXCEPT !.pending = @ \cup ws]
                ELSE slot[d][s]]]

Goto(d, c, label) == pc' = [pc EXCEPT ![d][c] = label]

Exit(d, c) == Goto(d, c, "off") /\ UNCHANGED toRun

(* An exit that asks the user to run the command again. *)
ErrExit(d, c) == Goto(d, c, "off") /\ toRun' = toRun \cup {c}

(***************************************************************************)
(* syscall.Exec of another yb-voyager command: it gets the parent's export *)
(* directory, resolves the iteration itself and takes its lock file.  The  *)
(* latest iteration must be there.                                         *)
(***************************************************************************)
Exec(d, c, next) ==
  LET gone == [pc EXCEPT ![d][c] = "off"]
      started == latest \notin ended /\ gone[ResolveDir(next)][next] = "off"
  IN
  /\ pc' = IF started THEN [gone EXCEPT ![ResolveDir(next)][next] = "init"] ELSE gone
  /\ UNCHANGED toRun

streamingMode(d) == dataDir[d] = "streaming"

isCutoverAlreadyProcessed(d, role) == streamingMode(d) /\ ProcessedFlag(role) \in msr[d]
=============================================================================
