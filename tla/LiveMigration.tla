---------------------------- MODULE LiveMigration ----------------------------
(* A live migration, from 'export data' to 'end migration'.                 *)
EXTENDS ExportDataCommand, ImportDataCommand

-----------------------------------------------------------------------------
(* 'end migration' (cmd/endMigrationCommand.go).  It works on the latest   *)
(* iteration first and on the parent last.  In each directory it stops the *)
(* commands that hold a lock file there, removes what Voyager keeps in the *)
(* databases, and then the directory.  Run again after a kill, it skips    *)
(* iterations whose directory is gone.                                     *)
(*                                                                         *)
(* Backups and reports are copies of files and are left out, and so is the *)
(* orderly stop of the exporters while an archiver runs.                   *)

EndSteps == {"off", "killed", "stop", "source", "target", "clean", "remove", "ended"}

VARIABLE ending     \* [step, dir]: where 'end migration' is

EndTypeOK == ending \in [step : EndSteps, dir : Dirs] /\ ended \subseteq Dirs

NotEnding == [step |-> "off", dir |-> 0]

(* The loop from LatestIterationNumber down to 1, and the parent. *)
EndDirs == {d \in Dirs : d <= latest /\ d \notin ended}

AtDir(ds) == [step |-> "stop", dir |-> CHOOSE d \in ds : \A e \in ds : e <= d]

RunEndMigration ==
  /\ ending.step \in {"off", "killed"}
  /\ ending' = AtDir(EndDirs)
  /\ toRun' = {}
  /\ UNCHANGED <<msrVars, pc, importType, kills, dataVars, ended>>

EndGoto(label) == ending' = [ending EXCEPT !.step = label]

(* stopVoyagerCommands: SIGUSR2 to every lock holder, and a wait for each. *)
StopVoyagerCommands ==
  /\ ending.step = "stop"
  /\ pc' = [pc EXCEPT ![ending.dir] = [c \in Commands |-> "off"]]
  /\ EndGoto("source")
  /\ UNCHANGED <<msrVars, importType, toRun, kills, dataVars, ended>>

(* cleanupSourceDB, deletePGReplicationSlotAndPublication *)
CleanupSourceDB ==
  LET d == ending.dir IN
  /\ ending.step = "source"
  /\ slot' = IF exportType[d] # "" /\ "PGReplicationSlotName" \in msr[d]
             THEN [slot EXCEPT ![d]["source"] = NoSlot] ELSE slot
  /\ EndGoto("target")
  /\ UNCHANGED <<msrVars, procVars, dataDir, files, queue, done, db, ended>>

(* The slot on the target goes if its exporter has been streaming. *)
DeletesYBSlot(d) ==
  /\ {"ExportFromTargetFallBackStarted", "ExportFromTargetFallForwardStarted"} \cap msr[d] # {}
  /\ "YBReplicationSlotName" \in msr[d]

(* cleanupTargetDB, cleanupSourceReplicaDB, cleanupFallBackDB: the slot on *)
(* the target, and in every database the importers' progress.              *)
CleanupTargetDBs ==
  LET d == ending.dir IN
  /\ ending.step = "target"
  /\ slot' = IF DeletesYBSlot(d) THEN [slot EXCEPT ![d]["target"] = NoSlot] ELSE slot
  /\ done' = [done EXCEPT ![d] = [c \in Importers |-> 0]]
  /\ EndGoto("clean")
  /\ UNCHANGED <<msrVars, procVars, dataDir, files, queue, db, ended>>

(* cleanupExportDir: data, metainfo and the rest.  The parent is done. *)
CleanupExportDir ==
  LET d == ending.dir IN
  /\ ending.step = "clean"
  /\ dataDir' = [dataDir EXCEPT ![d] = "empty"]
  /\ queue' = [queue EXCEPT ![d] = <<>>]
  /\ files' = IF d = 0 THEN {} ELSE files
  /\ IF d = 0 THEN EndGoto("ended") /\ ended' = ended \cup {0}
              ELSE EndGoto("remove") /\ UNCHANGED ended
  /\ UNCHANGED <<msrVars, procVars, done, db, slot>>

(* os.RemoveAll(iterationExportDir), and on to the next directory. *)
RemoveIterationDir ==
  /\ ending.step = "remove"
  /\ ended' = ended \cup {ending.dir}
  /\ ending' = AtDir(EndDirs \ {ending.dir})
  /\ UNCHANGED <<msrVars, procVars, dataVars>>

EndMigrationStep ==
  \/ StopVoyagerCommands
  \/ CleanupSourceDB
  \/ CleanupTargetDBs
  \/ CleanupExportDir
  \/ RemoveIterationDir

-----------------------------------------------------------------------------
(* A live migration as its user runs it: the data commands, the cutovers   *)
(* between source, target and source replica, commands that are killed and *)
(* run again, and iterations that start over after a fall-back.            *)
(*                                                                         *)
(* The user is the environment and follows the documented order: import    *)
(* and fall-forward commands run from the start, a cutover is initiated    *)
(* once every command streams, the application is stopped and nothing is   *)
(* left to export, the application moves when the status is COMPLETED, and *)
(* a command that failed or was killed is run again, with --start-clean    *)
(* (on the importers too) where the exporter asks for it.  'end migration' *)
(* is run once everything streams, or when the migration is aborted.       *)

(***************************************************************************)
(* What the code does not survive, and a run has to ask for:               *)
(*   "eager import"     importers run before the exporter saves its type   *)
(*   "kill while boot"  an iteration's exporter is killed before           *)
(*                      Debezium's first status flush                      *)
(*   "abort"            'end migration' while commands are starting        *)
(*   "kill at removal"  'end migration' is killed between the removal of   *)
(*                      an iteration's record and of its directory         *)
(***************************************************************************)
CONSTANT Perils

ASSUME PerilsAssumption ==
  Perils \subseteq {"eager import", "kill while boot", "abort", "kill at removal"}

VARIABLES
  app,       \* [at: the application's database, up: whether it runs,
             \*  dir: where its last cutover was initiated]
  written    \* number of writes made so far

vars == <<msrVars, procVars, dataVars, app, written, ending, ended>>
endVars == <<ending, ended>>
userVars == <<app, written, endVars>>

Init ==
  /\ msr = [d \in Dirs |-> {}]
  /\ exportType = [d \in Dirs |-> ""]
  /\ latest = 0
  /\ pc = [d \in Dirs |-> [c \in Commands |-> "off"]]
  /\ importType = [d \in Dirs |-> ""]
  /\ \E fallForward \in SUBSET {"import data to source-replica"} :
       toRun = {"export data from source", "import data to target"} \cup fallForward
  /\ kills = 0
  /\ dataDir = [d \in Dirs |-> "empty"]
  /\ files = {}
  /\ queue = [d \in Dirs |-> <<>>]
  /\ done = [d \in Dirs |-> [c \in Importers |-> 0]]
  /\ db = [x \in Databases |-> {}]
  /\ slot = [d \in Dirs |-> [x \in {"source", "target"} |-> NoSlot]]
  /\ app = [at |-> "source", up |-> TRUE, dir |-> 0]
  /\ written = 0
  /\ ending = NotEnding
  /\ ended = {}

--------------------------------------------------------------------------------
(* Running commands *)

(* The lock file of the directory admits one process per command. *)
Run(c) ==
  LET d == ResolveDir(c) IN
  /\ c \in toRun
  /\ pc[d][c] = "off"
  /\ ending.step = "off"
  /\ c \in Importers /\ "eager import" \notin Perils => exportType[d] # ""
  /\ pc' = [pc EXCEPT ![d][c] = "init"]
  /\ toRun' = toRun \ {c}
  /\ UNCHANGED <<msrVars, importType, kills, dataVars, userVars>>

(***************************************************************************)
(* --start-clean of the parent's exporter (clearMigrationStateIfRequired), *)
(* refused for an iteration's, together with the --start-clean             *)
(* --truncate-tables of the importers that the user runs with it.          *)
(***************************************************************************)
StartClean ==
  LET c == "export data from source" IN
  /\ c \in toRun
  /\ latest = 0 /\ ending.step = "off"
  /\ pc[0][c] = "off"
  /\ dataDir[0] = "partial"
  /\ pc' = [pc EXCEPT ![0] = [x \in Commands |-> IF x = c THEN "init" ELSE "off"]]
  /\ toRun' = (toRun \ {c}) \cup {x \in Importers : pc[0][x] # "off"}
  /\ msr' = [msr EXCEPT ![0] = @ \ {"ExportDataDone"}]
  /\ exportType' = [exportType EXCEPT ![0] = ""]
  /\ dataDir' = [dataDir EXCEPT ![0] = "empty"]
  /\ files' = {}
  /\ queue' = [queue EXCEPT ![0] = <<>>]
  /\ done' = [done EXCEPT ![0] = [x \in Importers |-> 0]]
  /\ db' = [db EXCEPT !["target"] = {}, !["source-replica"] = {}]
  /\ UNCHANGED <<latest, importType, kills, slot, userVars>>

Kill(d, c) ==
  /\ kills < MaxKills
  /\ pc[d][c] # "off"
  /\ d > 0 /\ pc[d][c] = "boot" => "kill while boot" \in Perils
  /\ pc' = [pc EXCEPT ![d][c] = "off"]
  /\ toRun' = toRun \cup {c}
  /\ kills' = kills + 1
  /\ UNCHANGED <<msrVars, importType, dataVars, userVars>>

KillEndMigration ==
  /\ kills < MaxKills
  /\ ending.step \in EndSteps \ {"off", "killed", "ended"}
  /\ ending.step = "remove" => "kill at removal" \in Perils
  /\ ending' = [ending EXCEPT !.step = "killed"]
  /\ kills' = kills + 1
  /\ UNCHANGED <<msrVars, pc, importType, toRun, dataVars, app, written, ended>>

--------------------------------------------------------------------------------
(* The application and its cutovers *)

AppWrites ==
  /\ app.up
  /\ written < MaxWrites
  /\ written' = written + 1
  /\ Write(app.at, {written + 1})
  /\ UNCHANGED <<msrVars, procVars, dataDir, files, queue, done, app, endVars>>

StopApp ==
  /\ app.up
  /\ app.at # "source-replica"
  /\ app' = [app EXCEPT !.up = FALSE]
  /\ UNCHANGED <<msrVars, procVars, dataVars, written, endVars>>

Drained(d, name) == slot[d][name].exists /\ slot[d][name].pending = {}

(* 'initiate cutover to target', with or without --prepare-for-fall-back *)
InitiateCutoverToTarget(fallback) ==
  LET d == ResolveDir("initiate cutover to target") IN
  /\ ~app.up /\ app.at = "source" /\ ending.step = "off"
  /\ {"ExportDataFromSourceStarted", "ImportDataToTargetStarted"} \subseteq msr[d]
  /\ d = 0 => \/ pc[0]["import data to source-replica"] = "stream"
              \/ /\ pc[0]["import data to source-replica"] = "off"
                 /\ "import data to source-replica" \notin toRun
  /\ Drained(d, "source")
  /\ "CutoverToTargetRequested" \notin msr[d]
  /\ fallback => "FallForwardEnabled" \notin msr[d]
  /\ Set(d, {"CutoverToTargetRequested"} \cup IF fallback THEN {"FallbackEnabled"} ELSE {})
  /\ app' = [app EXCEPT !.dir = d]
  /\ UNCHANGED <<exportType, latest, procVars, dataVars, written, endVars>>

(* 'initiate cutover to source', with or without                           *)
(* --restart-data-migration-source-target                                  *)
InitiateCutoverToSource(restart) ==
  LET d == ResolveDir("initiate cutover to source") IN
  /\ ~app.up /\ app.at = "target" /\ ending.step = "off"
  /\ GetCutoverStatus(d) = COMPLETED
  /\ "FallbackEnabled" \in msr[d]
  /\ Drained(d, "target")
  /\ "CutoverToSourceRequested" \notin msr[d]
  /\ restart => iterativeCutoverSupported(d) /\ d < MaxIteration
  /\ Set(d, {"CutoverToSourceRequested"} \cup
            IF restart THEN {"RestartDataMigrationSourceTargetNextIteration"} ELSE {})
  /\ app' = [app EXCEPT !.dir = d]
  /\ UNCHANGED <<exportType, latest, procVars, dataVars, written, endVars>>

InitiateCutoverToSourceReplica ==
  /\ ~app.up /\ app.at = "target" /\ ending.step = "off"
  /\ GetCutoverStatus(0) = COMPLETED
  /\ "FallForwardEnabled" \in msr[0]
  /\ Drained(0, "target")
  /\ "CutoverToSourceReplicaRequested" \notin msr[0]
  /\ Set(0, {"CutoverToSourceReplicaRequested"})
  /\ app' = [app EXCEPT !.dir = 0]
  /\ UNCHANGED <<exportType, latest, procVars, dataVars, written, endVars>>

(* The application starts on the database that 'cutover status' reports. *)
MoveApp ==
  LET d == app.dir IN
  /\ ~app.up /\ ending.step = "off"
  /\ \/ /\ app.at = "source" /\ GetCutoverStatus(d) = COMPLETED
        /\ GetCutoverToSourceStatus(d) = NOT_INITIATED
        /\ app' = [app EXCEPT !.at = "target", !.up = TRUE]
     \/ /\ app.at = "target" /\ GetCutoverToSourceStatus(d) = COMPLETED
        /\ app' = [app EXCEPT !.at = "source", !.up = TRUE]
     \/ /\ app.at = "target" /\ getCutoverToSourceReplicaStatus(d) = COMPLETED
        /\ app' = [app EXCEPT !.at = "source-replica", !.up = TRUE]
  /\ UNCHANGED <<msrVars, procVars, dataVars, written, endVars>>

(* A cutover has been requested and not every command is through with it. *)
CutoverPending ==
  \E d \in Dirs : INITIATED \in {GetCutoverStatus(d), GetCutoverToSourceStatus(d),
                                 getCutoverToSourceReplicaStatus(d)}

Settled ==
  /\ toRun = {} /\ ~CutoverPending
  /\ \A d \in Dirs, c \in Commands : pc[d][c] \in {"off", "stream", "streaming"}

EndMigration ==
  /\ ending.step = "off" /\ "abort" \notin Perils => Settled
  /\ RunEndMigration
  /\ UNCHANGED <<app, written>>

--------------------------------------------------------------------------------
CommandStep(d, c) ==
  /\ \/ c \in Exporters /\ ExporterStep(d, c)
     \/ c \in Importers /\ ImporterStep(d, c)
  /\ UNCHANGED userVars

Timeout(d, c) ==
  /\ \/ c \in Exporters /\ NextIterationTimeout(d, c)
     \/ c \in Importers /\ ExporterTimeout(d, c)
  /\ UNCHANGED userVars

Next ==
  \/ \E d \in Dirs, c \in Commands :
       CommandStep(d, c) \/ Timeout(d, c) \/ Kill(d, c)
  \/ \E c \in Commands : Run(c)
  \/ StartClean
  \/ AppWrites
  \/ StopApp
  \/ \E b \in BOOLEAN : InitiateCutoverToTarget(b) \/ InitiateCutoverToSource(b)
  \/ InitiateCutoverToSourceReplica
  \/ MoveApp
  \/ EndMigration
  \/ EndMigrationStep /\ UNCHANGED <<app, written>>
  \/ KillEndMigration

Spec == Init /\ [][Next]_vars

(***************************************************************************)
(* A running command takes its next step, and the user runs again what has *)
(* failed.  Nothing obliges the user to initiate a cutover.                *)
(***************************************************************************)
Fairness ==
  /\ \A c \in Commands : WF_vars(\E d \in Dirs : CommandStep(d, c))
  /\ \A c \in Commands : WF_vars(Run(c))
  /\ WF_vars(StartClean)
  /\ WF_vars(EndMigrationStep /\ UNCHANGED <<app, written>>)

FairSpec == Spec /\ Fairness

--------------------------------------------------------------------------------
(* The types of the variables. *)
TypeOK ==
  /\ MSRTypeOK
  /\ pc \in [Dirs -> [Commands -> ExporterLabels \cup ImporterLabels]]
  /\ importType \in [Dirs -> ExportTypes]
  /\ toRun \subseteq Commands
  /\ kills \in 0 .. MaxKills
  /\ dataDir \in [Dirs -> {"empty", "partial", "streaming"}]
  /\ files \subseteq Writes
  /\ queue \in [Dirs -> Seq([by : Exporters, event : {"change"} \cup CutoverEvents,
                             write : 0 .. MaxWrites])]
  /\ done \in [Dirs -> [Importers -> Nat]]
  /\ \A d \in Dirs, c \in Importers : done[d][c] <= Len(queue[d])
  /\ db \in [Databases -> SUBSET Writes]
  /\ slot \in [Dirs -> [{"source", "target"} ->
                 [exists : BOOLEAN, pending : SUBSET Writes]]]
  /\ app \in [at : Databases, up : BOOLEAN, dir : Dirs]
  /\ written \in 0 .. MaxWrites
  /\ EndTypeOK

\* The changes of all queues, as places in them.
Exported ==
  UNION {{<<d, i>> : i \in {j \in DOMAIN queue[d] : queue[d][j].event = "change"}} : d \in Dirs}

(***************************************************************************)
(* Wherever the application runs, its database holds every write it has    *)
(* ever made: a cutover that 'cutover status' reports as COMPLETED has     *)
(* carried everything over, whatever was killed and run again, and across  *)
(* iterations.  And a write is exported at most once in the whole          *)
(* migration: not in the snapshot and as a change, not twice, and never    *)
(* back again by the opposite exporter after an importer has applied it.   *)
(***************************************************************************)
WritesMovedOnce ==
  LET WriteAt(p) == queue[p[1]][p[2]].write
  IN  /\ app.up => 1 .. written \subseteq db[app.at]
      /\ \A p, q \in Exported : p # q => WriteAt(p) # WriteAt(q)
      /\ \A p \in Exported : WriteAt(p) \notin files

(***************************************************************************)
(* No replication slot is abandoned to fill the disk of its database.  A   *)
(* completed cutover leaves none of its direction behind (the exporter     *)
(* marks it as processed "only after cleanup like deleting replication     *)
(* slot"), and 'end migration' of a settled migration leaves none at all,  *)
(* in any iteration and after any kill.                                    *)
(***************************************************************************)
SlotsReleased ==
  /\ \A d \in Dirs :
       /\ GetCutoverStatus(d) = COMPLETED => ~slot[d]["source"].exists
       /\ COMPLETED \in {GetCutoverToSourceStatus(d), getCutoverToSourceReplicaStatus(d)}
            => ~slot[d]["target"].exists
  /\ ending.step = "ended" =>
       \A d \in Dirs, name \in {"source", "target"} : ~slot[d][name].exists

(***************************************************************************)
(* The application is never let onto the target while changes it makes     *)
(* there would go unrecorded: with fall-back or fall-forward enabled, a    *)
(* slot is on the target from before the application moves until the       *)
(* cutover back has been requested, or the migration is ended.             *)
(***************************************************************************)
TargetIsCaptured ==
  \A d \in Dirs :
    /\ app.up /\ app.at = "target" /\ app.dir = d /\ ending.step = "off"
    /\ {"FallbackEnabled", "FallForwardEnabled"} \cap msr[d] # {}
    => slot[d]["target"].exists

(***************************************************************************)
(* A requested cutover completes, that into the next iteration included,   *)
(* as long as its commands are run again when they fail.                   *)
(***************************************************************************)
CutoverEnds == CutoverPending ~> ~CutoverPending

(***************************************************************************)
(* "Be sure to run either 'initiate cutover to source', 'initiate cutover  *)
(* to source-replica' or 'end migration' command after completing/aborting *)
(* this migration to drop the replication slot": an aborted migration      *)
(* leaves no slot on the target either.                                    *)
(***************************************************************************)
AbortLeavesNoTargetSlot ==
  ending.step = "ended" => \A d \in Dirs : ~slot[d]["target"].exists
=============================================================================
