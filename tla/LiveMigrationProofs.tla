------------------------- MODULE LiveMigrationProofs -------------------------
(***************************************************************************)
(* Proofs about LiveMigration, for any number of iterations, writes and    *)
(* kills: its type invariant, that no replication slot is left behind, and *)
(* that the application never runs uncaptured on the target.               *)
(*                                                                         *)
(* The argument is an inductive invariant over all export directories: it  *)
(* says which fields of a record imply which others, what each step of a   *)
(* command knows, where in the iterations the commands are, and which      *)
(* command answers for which slot.  It holds as long as 'end migration' is *)
(* not used to abort (see AbortLeavesNoTargetSlot for that).               *)
(***************************************************************************)
EXTENDS LiveMigration, WellFoundedInduction, TLAPS

ES == "export data from source"
ET == "export data from target"
IT == "import data to target"
IS == "import data to source"
SR == "import data to source-replica"

USE DEF ES, ET, IT, IS, SR

-----------------------------------------------------------------------------
(* The inductive invariant *)

Open == ending.step = "off"

(* A command runs somewhere, or the user has to run it. *)
Alive(c) == c \in toRun \/ \E d \in Dirs : pc[d][c] # "off"

(* The directory of the fall-back commands. *)
FbDir == IF latest > 0 /\ "CutoverToTargetRequested" \notin msr[latest]
         THEN latest - 1 ELSE latest

(* Below, f is the record of a directory, l the step of a process in it.   *)

(* There is a way back: changes on the target will be exported. *)
WayBack(f) == "FallbackEnabled" \in f \/ "FallForwardEnabled" \in f

(* 'export data from target' has been streaming. *)
TargetStreamed(f) == \/ "ExportFromTargetFallBackStarted" \in f
                     \/ "ExportFromTargetFallForwardStarted" \in f

TargetDetected(f) == \/ "CutoverDetectedByTargetFBExporter" \in f
                     \/ "CutoverDetectedByTargetFFExporter" \in f

TargetProcessed(f) == \/ "CutoverToSourceProcessedByTargetExporter" \in f
                      \/ "CutoverToSourceReplicaProcessedByTargetExporter" \in f

(* The steps that a command takes. *)
StepsOf(c) ==
  CASE c = ES -> ExporterLabels \ {"waitNext"}
    [] c = ET -> ExporterLabels \ {"dump", "exported"}
    [] c = IT -> ImporterLabels \ {"enable", "setLatest", "setRecord", "setInitialized", "execNext"}
    [] c = IS -> ImporterLabels \ {"enable", "snapshot"}
    [] OTHER  -> ImporterLabels \ {"setLatest", "setRecord", "setInitialized", "execNext"}

(* Which fields of a record imply which others: towards the target, ... *)
ForwardFlags(f) ==
  /\ "FallbackEnabled" \in f => "CutoverToTargetRequested" \in f /\ "FallForwardEnabled" \notin f
  /\ "CutoverToTargetRequested" \in f => "ExportDataFromSourceStarted" \in f
  /\ "CutoverDetectedBySourceExporter" \in f => "CutoverToTargetRequested" \in f
  /\ "CutoverProcessedBySourceExporter" \in f => "CutoverDetectedBySourceExporter" \in f
  /\ "CutoverDetectedByTargetImporter" \in f => "CutoverToTargetRequested" \in f
  /\ "CutoverProcessedByTargetImporter" \in f => "CutoverDetectedByTargetImporter" \in f
  /\ "ExportDataDone" \in f => "PGReplicationSlotName" \in f
  /\ "ExportDataFromSourceStarted" \in f => "ExportDataDone" \in f

(* ... back to the source, ... *)
BackFlags(f) ==
  /\ "CutoverToSourceRequested" \in f =>
       /\ "FallbackEnabled" \in f /\ "ExportFromTargetFallBackStarted" \in f
       /\ "CutoverProcessedBySourceExporter" \in f /\ "CutoverProcessedByTargetImporter" \in f
  /\ "CutoverDetectedByTargetFBExporter" \in f => "CutoverToSourceRequested" \in f
  /\ "CutoverToSourceProcessedByTargetExporter" \in f => "CutoverDetectedByTargetFBExporter" \in f
  /\ "CutoverDetectedBySourceImporter" \in f => "CutoverToSourceRequested" \in f
  /\ "CutoverToSourceProcessedBySourceImporter" \in f => "CutoverDetectedBySourceImporter" \in f

(* ... on to the source replica, ... *)
OnwardFlags(f) ==
  /\ "CutoverToSourceReplicaRequested" \in f =>
       /\ "FallForwardEnabled" \in f
       /\ "CutoverProcessedBySourceExporter" \in f /\ "CutoverProcessedByTargetImporter" \in f
  /\ "CutoverDetectedByTargetFFExporter" \in f => "CutoverToSourceReplicaRequested" \in f
  /\ "CutoverToSourceReplicaProcessedByTargetExporter" \in f =>
       "CutoverDetectedByTargetFFExporter" \in f
  /\ "CutoverDetectedBySourceReplicaImporter" \in f => "CutoverToSourceReplicaRequested" \in f
  /\ "CutoverToSourceReplicaProcessedBySRImporter" \in f =>
       "CutoverDetectedBySourceReplicaImporter" \in f

(* ... and into the next iteration; n is the latest. *)
IterationFlags(d, f, n) ==
  /\ "FallForwardEnabled" \in f => d = 0
  /\ "RestartDataMigrationSourceTargetNextIteration" \in f =>
       "CutoverToSourceRequested" \in f /\ d < MaxIteration
  /\ "NextIterationInitialized" \in f => d < n
  /\ d < n => "RestartDataMigrationSourceTargetNextIteration" \in f

(* An exporter past the creation of its slot and not yet at its removal. *)
WithSlot == {"save", "dump", "exported", "debezium", "boot", "reached", "streaming",
             "exitedReached", "exited"}

(* What 'export data from source' knows at each step: of its cutover, ... *)
SourceExporterCutover(l, f) ==
  /\ "CutoverDetectedBySourceExporter" \in f => l \in {"off", "init", "drop", "mark", "further"}
  /\ l \in {"drop", "mark"} => "CutoverDetectedBySourceExporter" \in f
  /\ l \in {"exited", "exitedReached"} => "CutoverToTargetRequested" \in f
  /\ l = "further" => "CutoverProcessedBySourceExporter" \in f

(* ... of its slot (there or not), ... *)
SourceExporterSlot(l, f, there, open) ==
  /\ l = "mark" \/ "CutoverProcessedBySourceExporter" \in f => ~there
  /\ l \in WithSlot => there
  /\ "ExportDataDone" \in f => there \/ ~open \/ "CutoverDetectedBySourceExporter" \in f

(* ... and of its snapshot. *)
SourceExporterSnapshot(l, f, type) ==
  /\ l \in {"slot", "save", "dump", "exported"} => "ExportDataDone" \notin f
  /\ l \in {"debezium", "boot", "reached", "streaming", "exitedReached", "exited"} =>
       "ExportDataDone" \in f
  /\ l \in {"dump", "exported"} => "PGReplicationSlotName" \in f
  /\ l \in WithSlot \cup {"slot"} => type # ""

ByRole(f, fb, ff) == IF "FallbackEnabled" \in f THEN fb \in f ELSE ff \in f

(* What 'export data from target' knows at each step: of its cutover, ... *)
TargetExporterCutover(l, f) ==
  /\ TargetDetected(f) => l \in {"off", "init", "drop", "mark", "further", "waitNext"}
  /\ l \notin {"off", "init"} => WayBack(f)
  /\ l \in {"drop", "mark"} =>
       ByRole(f, "CutoverDetectedByTargetFBExporter", "CutoverDetectedByTargetFFExporter")
  /\ l \in {"exited", "exitedReached"} =>
       ByRole(f, "CutoverToSourceRequested", "CutoverToSourceReplicaRequested")
  /\ l \in {"further", "waitNext"} =>
       ByRole(f, "CutoverToSourceProcessedByTargetExporter",
                 "CutoverToSourceReplicaProcessedByTargetExporter")

(* ... and of its slot. *)
TargetExporterSlot(l, f, there, open) ==
  /\ l = "mark" \/ TargetProcessed(f) => ~there
  /\ l \in WithSlot => there
  /\ l \in WithSlot \ {"save"} => "YBReplicationSlotName" \in f
  /\ l \in {"streaming", "exited"} => TargetStreamed(f)
  /\ TargetStreamed(f) => there \/ ~open \/ TargetDetected(f)

(* The fields and the event of an importer. *)
DetectedBy(c) == CASE c = IT -> "CutoverDetectedByTargetImporter"
                   [] c = IS -> "CutoverDetectedBySourceImporter"
                   [] OTHER  -> "CutoverDetectedBySourceReplicaImporter"
ProcessedBy(c) == CASE c = IT -> "CutoverProcessedByTargetImporter"
                    [] c = IS -> "CutoverToSourceProcessedBySourceImporter"
                    [] OTHER  -> "CutoverToSourceReplicaProcessedBySRImporter"

(* What an importer knows at each step, from the fields of its role. *)
ImporterKnows(l, f, detected, processed) ==
  /\ l \in ImporterLabels \ {"off", "init", "enable", "waitExport"} => "ExportDataDone" \in f
  /\ l \in {"post", "waitExporter", "further", "setLatest", "setRecord", "setInitialized",
            "execNext"} => detected \in f
  /\ l \in {"waitExporter", "further", "setLatest", "setRecord", "setInitialized",
            "execNext"} => processed \in f
  /\ detected \in f => l # "stream"

(* 'import data to source' sets up the iteration after its own. *)
NextIterationSetUp(d, l, f, n) ==
  /\ l \in {"setLatest", "setRecord", "setInitialized", "execNext"} =>
       "RestartDataMigrationSourceTargetNextIteration" \in f
  /\ l \in {"setRecord", "setInitialized", "execNext"} => n = d + 1

(* When the status file says STREAMING; q is the queue. *)
StatusFile(l, f, dir, q, open) ==
  /\ dir = "streaming" => "ExportDataDone" \in f
  /\ open /\ \/ q # <<>>
             \/ "ExportDataFromSourceStarted" \in f
             \/ l \in {"reached", "streaming", "exitedReached", "exited"}
     => dir = "streaming"

(* A cutover event is in the queue only once its cutover is requested; any *)
(* other is a write.                                                       *)
EventsRequested(q, f) ==
  \A i \in DOMAIN q :
    /\ q[i].event = "cutover.target" => "CutoverToTargetRequested" \in f
    /\ q[i].event = "cutover.source" => "CutoverToSourceRequested" \in f
    /\ q[i].event = "cutover.source_replica" => "CutoverToSourceReplicaRequested" \in f
    /\ q[i].event \notin CutoverEvents => q[i].write \in Writes

FlagsAt(d) ==
  /\ ForwardFlags(msr[d]) /\ BackFlags(msr[d]) /\ OnwardFlags(msr[d])
  /\ IterationFlags(d, msr[d], latest)

ExportersAt(d) ==
  /\ SourceExporterCutover(pc[d][ES], msr[d])
  /\ SourceExporterSlot(pc[d][ES], msr[d], slot[d]["source"].exists, Open)
  /\ SourceExporterSnapshot(pc[d][ES], msr[d], exportType[d])
  /\ TargetExporterCutover(pc[d][ET], msr[d])
  /\ TargetExporterSlot(pc[d][ET], msr[d], slot[d]["target"].exists, Open)

ImportersAt(d) ==
  /\ \A c \in Importers : ImporterKnows(pc[d][c], msr[d], DetectedBy(c), ProcessedBy(c))
  /\ NextIterationSetUp(d, pc[d][IS], msr[d], latest)

(* The steps in the directory, and its data. *)
DirectoryAt(d) ==
  /\ \A c \in Commands : pc[d][c] \in StepsOf(c)
  /\ d > 0 => pc[d][SR] = "off" /\ exportType[d] # SNAPSHOT_AND_CHANGES
  /\ d = 0 => exportType[d] # CHANGES_ONLY
  /\ StatusFile(pc[d][ES], msr[d], dataDir[d], queue[d], Open)
  /\ EventsRequested(queue[d], msr[d])

(* Iterations after the latest do not exist. *)
FutureAt(d) ==
  d > latest =>
    /\ msr[d] = {} /\ exportType[d] = "" /\ dataDir[d] = "empty" /\ queue[d] = <<>>
    /\ ~slot[d]["source"].exists /\ ~slot[d]["target"].exists
    /\ \A c \in Commands : pc[d][c] = "off"
    /\ \A c \in Importers : done[d][c] = 0

DirAt(d) ==
  FlagsAt(d) /\ ExportersAt(d) /\ ImportersAt(d) /\ DirectoryAt(d) /\ FutureAt(d)

(* Of two commands that turn into each other, one runs or will be run. *)
Alone(a, b) ==
  /\ \A d, e \in Dirs : pc[d][a] # "off" => pc[e][b] = "off"
  /\ a \in toRun => b \notin toRun /\ \A d \in Dirs : pc[d][a] = "off" /\ pc[d][b] = "off"
  /\ b \in toRun => \A d \in Dirs : pc[d][a] = "off" /\ pc[d][b] = "off"

Chains == Alone(ES, IS) /\ Alone(IT, ET)

(* Fall-forward is enabled before a cutover or never. *)
Replica ==
  /\ pc[0][SR] \notin {"off", "init", "enable"} => "FallForwardEnabled" \in msr[0]
  /\ "CutoverToTargetRequested" \in msr[0] =>
       "FallForwardEnabled" \in msr[0] \/ (pc[0][SR] = "off" /\ SR \notin toRun)

(* Where in the iterations the commands are. *)
Places ==
  /\ \A d \in Dirs :
       /\ pc[d][ES] # "off" => d = latest
       /\ pc[d][IS] # "off" => d = FbDir
       /\ pc[d][IT] # "off" => d = latest
       /\ pc[d][ET] # "off" => d = FbDir
  /\ Alive(IS) =>
       /\ "CutoverProcessedBySourceExporter" \in msr[FbDir]
       /\ FbDir < latest => /\ msr[latest] \subseteq {"ParentExportDir"}
                            /\ dataDir[latest] = "empty"
                            /\ queue[latest] = <<>>
  /\ Alive(IT) => ~TargetStreamed(msr[latest])
  /\ Alive(ET) =>
       /\ "CutoverProcessedByTargetImporter" \in msr[FbDir]
       /\ FbDir < latest => /\ "ImportDataToTargetStarted" \notin msr[latest]
                            /\ "CutoverToTargetRequested" \notin msr[latest]
                            /\ ~TargetStreamed(msr[latest])

(* Which command answers for a slot. *)
Owners ==
  \A d \in Dirs :
    /\ slot[d]["source"].exists => d = latest /\ ~Alive(IS) /\ (Open => Alive(ES))
    /\ slot[d]["target"].exists => d = FbDir /\ ~Alive(IT) /\ (Open => Alive(ET))

(* What the records say of the application. *)
AppPlace ==
  /\ app.at # "source" => "CutoverDetectedByTargetImporter" \in msr[0]
  /\ app.at = "source" => "CutoverToSourceReplicaRequested" \notin msr[0]
  /\ app.at = "target" => /\ app.dir = FbDir
                          /\ "CutoverProcessedByTargetImporter" \in msr[app.dir]
  /\ app.at = "target" /\ app.up =>
       /\ "CutoverToSourceRequested" \notin msr[app.dir]
       /\ "CutoverToSourceReplicaRequested" \notin msr[app.dir]
       /\ WayBack(msr[app.dir]) => TargetStreamed(msr[app.dir])

(* A migration that is being ended was settled: ... *)
SettledCommands ==
  \A d \in Dirs, c \in Commands :
    /\ pc[d][c] \in {"off", "stream", "streaming"}
    /\ pc[d][c] # "off" => RequestFlag(Role(d, c)) \notin msr[d]

(* ... 'end migration' will find every slot, ... *)
KnownSlots ==
  \A d \in Dirs :
    /\ slot[d]["source"].exists => exportType[d] # "" /\ "PGReplicationSlotName" \in msr[d]
    /\ slot[d]["target"].exists => DeletesYBSlot(d)
    /\ d \in ended => ~slot[d]["source"].exists /\ ~slot[d]["target"].exists

(* ... works its way down the directories ... *)
EndOrder ==
  /\ ending.dir <= latest
  /\ ending.step = "remove" => ending.dir > 0
  /\ ending.step # "killed" => \A d \in Dirs : ending.dir < d /\ d <= latest => d \in ended
  /\ ending.step = "ended" => ending.dir = 0
  /\ 0 \in ended => ending.step = "ended"

(* ... and cleans up one after the other. *)
EndProgress ==
  /\ ending.step \in {"source", "target", "clean", "remove"} =>
       \A c \in Commands : pc[ending.dir][c] = "off"
  /\ ending.step \in {"target", "clean", "remove", "ended"} => ~slot[ending.dir]["source"].exists
  /\ ending.step \in {"clean", "remove", "ended"} => ~slot[ending.dir]["target"].exists
  /\ ending.step \in {"clean", "remove"} => \A c \in Importers : done[ending.dir][c] = 0

Ending ==
  /\ Open => ended = {}
  /\ ~Open => SettledCommands /\ KnownSlots /\ EndOrder /\ EndProgress

Control ==
  /\ TypeOK
  /\ \A d \in Dirs : DirAt(d)
  /\ Chains /\ Replica /\ Places /\ Owners /\ AppPlace /\ Ending

-----------------------------------------------------------------------------
(* The tables of the record *)

LEMMA CommandNames ==
  /\ Commands = {ES, ET, IT, IS, SR} /\ Exporters = {ES, ET} /\ Importers = {IT, IS, SR}
  /\ ES \in Commands /\ ET \in Commands /\ IT \in Commands /\ IS \in Commands /\ SR \in Commands
  /\ IT \in Importers /\ IS \in Importers /\ SR \in Importers
BY DEF Commands, Exporters, Importers

LEMMA RoleFacts ==
  \A d : /\ Role(d, ES) = "source_db_exporter"
         /\ Role(d, IT) = "target_db_importer"
         /\ Role(d, IS) = "source_db_importer"
         /\ Role(d, SR) = "source_replica_db_importer"
         /\ "FallbackEnabled" \in msr[d] => Role(d, ET) = "target_db_exporter_fb"
         /\ "FallbackEnabled" \notin msr[d] => Role(d, ET) = "target_db_exporter_ff"
BY DEF Role

LEMMA RequestFacts ==
  /\ RequestFlag("source_db_exporter") = "CutoverToTargetRequested"
  /\ RequestFlag("target_db_importer") = "CutoverToTargetRequested"
  /\ RequestFlag("target_db_exporter_fb") = "CutoverToSourceRequested"
  /\ RequestFlag("source_db_importer") = "CutoverToSourceRequested"
  /\ RequestFlag("target_db_exporter_ff") = "CutoverToSourceReplicaRequested"
  /\ RequestFlag("source_replica_db_importer") = "CutoverToSourceReplicaRequested"
BY DEF RequestFlag

LEMMA EventFacts ==
  /\ CutoverEvent("source_db_exporter") = "cutover.target"
  /\ CutoverEvent("target_db_importer") = "cutover.target"
  /\ CutoverEvent("target_db_exporter_fb") = "cutover.source"
  /\ CutoverEvent("source_db_importer") = "cutover.source"
  /\ CutoverEvent("target_db_exporter_ff") = "cutover.source_replica"
  /\ CutoverEvent("source_replica_db_importer") = "cutover.source_replica"
BY DEF CutoverEvent

LEMMA ExporterFlagFacts ==
  /\ DetectedFlag("source_db_exporter") = "CutoverDetectedBySourceExporter"
  /\ DetectedFlag("target_db_exporter_fb") = "CutoverDetectedByTargetFBExporter"
  /\ DetectedFlag("target_db_exporter_ff") = "CutoverDetectedByTargetFFExporter"
  /\ ProcessedFlag("source_db_exporter") = "CutoverProcessedBySourceExporter"
  /\ ProcessedFlag("target_db_exporter_fb") = "CutoverToSourceProcessedByTargetExporter"
  /\ ProcessedFlag("target_db_exporter_ff") = "CutoverToSourceReplicaProcessedByTargetExporter"
BY DEF DetectedFlag, ProcessedFlag

LEMMA ImporterFlagFacts ==
  /\ \A d : \A c \in Importers : /\ DetectedFlag(Role(d, c)) = DetectedBy(c)
                                 /\ ProcessedFlag(Role(d, c)) = ProcessedBy(c)
  /\ DetectedBy(IT) = "CutoverDetectedByTargetImporter"
  /\ DetectedBy(IS) = "CutoverDetectedBySourceImporter"
  /\ DetectedBy(SR) = "CutoverDetectedBySourceReplicaImporter"
  /\ ProcessedBy(IT) = "CutoverProcessedByTargetImporter"
  /\ ProcessedBy(IS) = "CutoverToSourceProcessedBySourceImporter"
  /\ ProcessedBy(SR) = "CutoverToSourceReplicaProcessedBySRImporter"
<1>1. DetectedFlag("target_db_importer") = DetectedBy(IT)
      /\ DetectedFlag("source_db_importer") = DetectedBy(IS)
      /\ DetectedFlag("source_replica_db_importer") = DetectedBy(SR)
  BY DEF DetectedFlag, DetectedBy
<1>2. ProcessedFlag("target_db_importer") = ProcessedBy(IT)
      /\ ProcessedFlag("source_db_importer") = ProcessedBy(IS)
      /\ ProcessedFlag("source_replica_db_importer") = ProcessedBy(SR)
  BY DEF ProcessedFlag, ProcessedBy
<1>3. \A d : \A c \in Importers : /\ DetectedFlag(Role(d, c)) = DetectedBy(c)
                                  /\ ProcessedFlag(Role(d, c)) = ProcessedBy(c)
  BY <1>1, <1>2, RoleFacts, CommandNames
<1>4. /\ DetectedBy(IT) = "CutoverDetectedByTargetImporter"
      /\ DetectedBy(IS) = "CutoverDetectedBySourceImporter"
      /\ DetectedBy(SR) = "CutoverDetectedBySourceReplicaImporter"
  BY DEF DetectedBy
<1>5. /\ ProcessedBy(IT) = "CutoverProcessedByTargetImporter"
      /\ ProcessedBy(IS) = "CutoverToSourceProcessedBySourceImporter"
      /\ ProcessedBy(SR) = "CutoverToSourceReplicaProcessedBySRImporter"
  BY DEF ProcessedBy
<1> QED
  BY <1>3, <1>4, <1>5

LEMMA StepsFacts ==
  /\ StepsOf(ES) = ExporterLabels \ {"waitNext"}
  /\ StepsOf(ET) = ExporterLabels \ {"dump", "exported"}
  /\ StepsOf(IT) = ImporterLabels \ {"enable", "setLatest", "setRecord", "setInitialized", "execNext"}
  /\ StepsOf(IS) = ImporterLabels \ {"enable", "snapshot"}
  /\ StepsOf(SR) = ImporterLabels \ {"setLatest", "setRecord", "setInitialized", "execNext"}
BY DEF StepsOf

LEMMA OffIsAStep ==
  \A k \in Commands : "off" \in StepsOf(k)
<1>1. "off" \in StepsOf(ES) /\ "off" \in StepsOf(ET)
  BY StepsFacts DEF ExporterLabels
<1>2. "off" \in StepsOf(IT) /\ "off" \in StepsOf(IS) /\ "off" \in StepsOf(SR)
  BY StepsFacts DEF ImporterLabels
<1> QED
  BY <1>1, <1>2, CommandNames

-----------------------------------------------------------------------------
(* How a step changes the variables *)

PcAt(d, c, l) ==
  /\ pc'[d][c] = l
  /\ \A k \in Commands : k # c => pc'[d][k] = pc[d][k]
  /\ \A e \in Dirs : e # d => pc'[e] = pc[e]

MsrAt(d, fs) ==
  /\ msr'[d] = msr[d] \cup fs
  /\ \A e \in Dirs : e # d => msr'[e] = msr[e]

(* The slots stay, with whatever they hold. *)
SlotsStay(e) == /\ slot'[e]["source"].exists = slot[e]["source"].exists
                /\ slot'[e]["target"].exists = slot[e]["target"].exists

(* A step in directory d leaves the others alone. *)
Elsewhere(d) ==
  \A e \in Dirs : e # d =>
    /\ pc'[e] = pc[e] /\ msr'[e] = msr[e] /\ exportType'[e] = exportType[e]
    /\ dataDir'[e] = dataDir[e] /\ queue'[e] = queue[e] /\ done'[e] = done[e]
    /\ SlotsStay(e)

LEMMA GotoAt ==
  ASSUME TypeOK, NEW d \in Dirs, NEW c \in Commands, NEW l, Goto(d, c, l)
  PROVE  PcAt(d, c, l)
BY DEF TypeOK, Goto, PcAt

LEMMA SetAt ==
  ASSUME TypeOK, NEW d \in Dirs, NEW fs, Set(d, fs)
  PROVE  MsrAt(d, fs)
BY DEF TypeOK, MSRTypeOK, Set, MsrAt

LEMMA ElsewhereKept ==
  ASSUME Control, NEW d \in Dirs, Elsewhere(d), latest' = latest, Open' = Open
  PROVE  \A e \in Dirs : e # d => DirAt(e)'
<1> SUFFICES ASSUME NEW e \in Dirs, e # d PROVE DirAt(e)'
  OBVIOUS
<1>1. DirAt(e)
  BY DEF Control
<1>2. /\ pc'[e] = pc[e] /\ msr'[e] = msr[e] /\ exportType'[e] = exportType[e]
      /\ dataDir'[e] = dataDir[e] /\ queue'[e] = queue[e] /\ done'[e] = done[e]
      /\ slot'[e]["source"].exists = slot[e]["source"].exists
      /\ slot'[e]["target"].exists = slot[e]["target"].exists
  BY DEF Elsewhere, SlotsStay
<1>3. FlagsAt(e)'
  BY <1>1, <1>2 DEF DirAt, FlagsAt
<1>4. ExportersAt(e)'
  BY <1>1, <1>2 DEF DirAt, ExportersAt
<1>5. ImportersAt(e)'
  BY <1>1, <1>2 DEF DirAt, ImportersAt
<1>6. DirectoryAt(e)'
  BY <1>1, <1>2 DEF DirAt, DirectoryAt
<1>7. FutureAt(e)'
  BY <1>1, <1>2 DEF DirAt, FutureAt
<1> QED
  BY <1>3, <1>4, <1>5, <1>6, <1>7 DEF DirAt

-----------------------------------------------------------------------------
(* A record that gets more fields *)

(* Fields whose setting changes a command's role or place. *)
PlaceFlags == {"CutoverToTargetRequested", "CutoverToSourceRequested",
               "CutoverToSourceReplicaRequested", "FallbackEnabled"}

TurningFlags == PlaceFlags \cup {"FallForwardEnabled"}

SourceExporterFlags == {"CutoverDetectedBySourceExporter", "CutoverProcessedBySourceExporter",
                        "ExportDataDone"}

TargetExporterFlags == {"CutoverDetectedByTargetFBExporter", "CutoverDetectedByTargetFFExporter",
                        "CutoverToSourceProcessedByTargetExporter",
                        "CutoverToSourceReplicaProcessedByTargetExporter",
                        "ExportFromTargetFallBackStarted", "ExportFromTargetFallForwardStarted"}

LEMMA SourceExporterMore ==
  ASSUME NEW l, NEW f, NEW fs, NEW g, g = f \cup fs, fs \cap SourceExporterFlags = {}, NEW there, NEW open, NEW type
  PROVE  /\ SourceExporterCutover(l, f) => SourceExporterCutover(l, g)
         /\ SourceExporterSlot(l, f, there, open) => SourceExporterSlot(l, g, there, open)
         /\ SourceExporterSnapshot(l, f, type) => SourceExporterSnapshot(l, g, type)
<1>1. /\ "CutoverDetectedBySourceExporter" \notin fs /\ "CutoverProcessedBySourceExporter" \notin fs
      /\ "ExportDataDone" \notin fs
  BY DEF SourceExporterFlags
<1>2. SourceExporterCutover(l, f) => SourceExporterCutover(l, g)
  BY <1>1 DEF SourceExporterCutover
<1>3. SourceExporterSlot(l, f, there, open) => SourceExporterSlot(l, g, there, open)
  BY <1>1 DEF SourceExporterSlot
<1>4. SourceExporterSnapshot(l, f, type) => SourceExporterSnapshot(l, g, type)
  BY <1>1 DEF SourceExporterSnapshot
<1> QED
  BY <1>2, <1>3, <1>4

LEMMA TargetExporterMore ==
  ASSUME NEW l, NEW f, NEW fs, NEW g, g = f \cup fs, fs \cap TargetExporterFlags = {}, "FallbackEnabled" \notin fs,
         NEW there, NEW open
  PROVE  /\ TargetExporterCutover(l, f) => TargetExporterCutover(l, g)
         /\ TargetExporterSlot(l, f, there, open) => TargetExporterSlot(l, g, there, open)
<1>1. /\ TargetDetected(g) <=> TargetDetected(f)
      /\ TargetProcessed(g) <=> TargetProcessed(f)
      /\ TargetStreamed(g) <=> TargetStreamed(f)
      /\ WayBack(f) => WayBack(g)
      /\ \A fb, ff : ByRole(f, fb, ff) => ByRole(g, fb, ff)
  BY DEF TargetExporterFlags, TargetDetected, TargetProcessed, TargetStreamed, WayBack, ByRole
<1>2. TargetExporterCutover(l, f) => TargetExporterCutover(l, g)
  BY <1>1 DEF TargetExporterCutover
<1>3. TargetExporterSlot(l, f, there, open) => TargetExporterSlot(l, g, there, open)
  BY <1>1 DEF TargetExporterSlot
<1> QED
  BY <1>2, <1>3

LEMMA ImporterMore ==
  ASSUME NEW l, NEW f, NEW fs, NEW g, g = f \cup fs, NEW x, NEW y, x \notin fs \/ l # "stream",
         ImporterKnows(l, f, x, y)
  PROVE  ImporterKnows(l, g, x, y)
BY DEF ImporterKnows

LEMMA SetUpMore ==
  ASSUME NEW d, NEW l, NEW f, NEW fs, NEW g, g = f \cup fs, NEW n, NextIterationSetUp(d, l, f, n)
  PROVE  NextIterationSetUp(d, l, g, n)
BY DEF NextIterationSetUp

LEMMA EventsMore ==
  ASSUME NEW q, NEW f, NEW fs, NEW g, g = f \cup fs, EventsRequested(q, f)
  PROVE  EventsRequested(q, g)
BY DEF EventsRequested

LEMMA StatusFileMore ==
  ASSUME NEW l, NEW f, NEW fs, NEW g, g = f \cup fs, NEW dir, NEW q, NEW open, StatusFile(l, f, dir, q, open),
         "ExportDataFromSourceStarted" \notin fs
  PROVE  StatusFile(l, g, dir, q, open)
BY DEF StatusFile

-----------------------------------------------------------------------------
(* Running commands *)

(* Command c in directory d goes on, or fails and will be run again. *)
Continues(d, c, l) ==
  /\ PcAt(d, c, l) /\ pc[d][c] # "off"
  /\ \/ l # "off" /\ toRun' = toRun
     \/ l = "off" /\ toRun' = toRun \cup {c}

(* Command c ends, for good. *)
Ends(d, c) == PcAt(d, c, "off") /\ pc[d][c] # "off" /\ toRun' = toRun

LEMMA OnlyMoves ==
  ASSUME Control, NEW d \in Dirs, NEW c \in Commands, NEW l, Continues(d, c, l)
  PROVE  \A e \in Dirs, k \in Commands : pc'[e][k] # "off" => pc[e][k] # "off"
BY DEF Continues, PcAt

LEMMA AliveKept ==
  ASSUME Control, NEW d \in Dirs, NEW c \in Commands, NEW l, Continues(d, c, l)
  PROVE  \A k \in Commands : Alive(k)' = Alive(k)
BY DEF Continues, PcAt, Alive

LEMMA OnePlace ==
  ASSUME Control
  PROVE  \A c \in {ES, IS, IT, ET} : \A d, e \in Dirs :
           pc[d][c] # "off" /\ pc[e][c] # "off" => d = e
<1>1. Places
  BY DEF Control
<1>2. ASSUME NEW c \in {ES, IS, IT, ET}, NEW d \in Dirs, NEW e \in Dirs,
             pc[d][c] # "off", pc[e][c] # "off"
      PROVE  d = e
  <2>1. CASE c = ES
    BY <1>1, <1>2, <2>1 DEF Places
  <2>2. CASE c = IS
    BY <1>1, <1>2, <2>2 DEF Places
  <2>3. CASE c = IT
    BY <1>1, <1>2, <2>3 DEF Places
  <2>4. CASE c = ET
    BY <1>1, <1>2, <2>4 DEF Places
  <2> QED
    BY <2>1, <2>2, <2>3, <2>4
<1> QED
  BY <1>2

LEMMA ChainsKept ==
  ASSUME Control, NEW d \in Dirs, NEW c \in Commands, NEW l, Continues(d, c, l) \/ Ends(d, c)
  PROVE  Chains'
<1>1. ASSUME NEW a \in {ES, IS, IT, ET}, NEW b \in {ES, IS, IT, ET}, a # b, Alone(a, b)
      PROVE  Alone(a, b)'
  <2>1. \A e \in Dirs, k \in Commands : pc'[e][k] # "off" => pc[e][k] # "off"
    BY CommandNames DEF Continues, PcAt, Ends
  <2>2. \A e, x \in Dirs : pc'[e][a] # "off" => pc'[x][b] = "off"
    BY <1>1, <2>1, CommandNames DEF Alone
  <2>3. CASE toRun' = toRun
    BY <1>1, <2>1, <2>2, <2>3, CommandNames DEF Alone
  <2>4. CASE c \notin {a, b} /\ toRun' = toRun \cup {c}
    BY <1>1, <2>1, <2>2, <2>4, CommandNames DEF Alone
  <2>5. CASE c \in {a, b} /\ toRun' = toRun \cup {c} /\ PcAt(d, c, "off") /\ pc[d][c] # "off"
    <3>0. \A e \in Dirs : e # d => pc[e][c] = "off"
      <4>1. c \in {ES, IS, IT, ET}
        BY <1>1, <2>5
      <4>2. pc[d][c] # "off"
        BY <2>5
      <4> QED
        BY <4>1, <4>2, OnePlace
    <3>1. \A e \in Dirs : pc'[e][a] = "off" /\ pc'[e][b] = "off"
      <4>1. pc'[d][c] = "off"
        BY <2>5 DEF PcAt
      <4>2. \A e \in Dirs : pc'[e][c] = "off"
        BY <2>1, <3>0, <4>1
      <4>3. pc[d][c] # "off"
        BY <2>5
      <4>4. a \in Commands /\ b \in Commands
        BY <1>1, CommandNames
      <4>5. CASE c = a
        BY <1>1, <2>1, <4>2, <4>3, <4>4, <4>5 DEF Alone
      <4>6. CASE c = b
        BY <1>1, <2>1, <4>2, <4>3, <4>4, <4>6 DEF Alone
      <4> QED
        BY <2>5, <4>5, <4>6
    <3>2. a \notin toRun /\ b \notin toRun
      BY <1>1, <2>5 DEF Alone
    <3> QED
      BY <1>1, <2>5, <3>1, <3>2 DEF Alone
  <2> QED
    BY <2>3, <2>4, <2>5 DEF Continues, Ends
<1> QED
  BY <1>1 DEF Chains, Control

LEMMA DirsFacts ==
  /\ 0 \in Dirs
  /\ \A d \in Dirs : d \in Nat /\ d >= 0 /\ d <= MaxIteration
  /\ \A d \in Nat : d <= MaxIteration => d \in Dirs
BY MaxIterationAssumption DEF Dirs

LEMMA DirPositive ==
  ASSUME NEW d \in Dirs
  PROVE  (d > 0 => d # 0) /\ (d # 0 => d > 0)
<1>1. d \in Nat
  BY DirsFacts
<1> QED
  BY <1>1

LEMMA Mates ==
  ASSUME Control, NEW d \in Dirs
  PROVE  /\ pc[d][ES] # "off" => d = latest /\ ~Alive(IS)
         /\ pc[d][IS] # "off" => d = FbDir /\ ~Alive(ES)
         /\ pc[d][IT] # "off" => d = latest /\ ~Alive(ET)
         /\ pc[d][ET] # "off" => d = FbDir /\ ~Alive(IT)
         /\ pc[d][SR] # "off" => d = 0
<1>1. /\ pc[d][ES] # "off" => d = latest
      /\ pc[d][IS] # "off" => d = FbDir
      /\ pc[d][IT] # "off" => d = latest
      /\ pc[d][ET] # "off" => d = FbDir
  BY DEF Control, Places
<1>2. /\ pc[d][ES] # "off" => ~Alive(IS)
      /\ pc[d][IS] # "off" => ~Alive(ES)
  BY DEF Control, Chains, Alone, Alive
<1>3. /\ pc[d][IT] # "off" => ~Alive(ET)
      /\ pc[d][ET] # "off" => ~Alive(IT)
  BY DEF Control, Chains, Alone, Alive
<1>4. pc[d][SR] # "off" => d = 0
  <2>1. d > 0 => pc[d][SR] = "off"
    BY DEF Control, DirAt, DirectoryAt
  <2>2. d \in Nat
    BY DirsFacts
  <2>3. d > 0 \/ d = 0
    BY <2>2
  <2> QED
    BY <2>1, <2>3
<1> QED
  BY <1>1, <1>2, <1>3, <1>4

LEMMA FbDirType ==
  ASSUME Control
  PROVE  /\ latest \in Dirs /\ FbDir \in Dirs /\ FbDir <= latest /\ latest <= FbDir + 1
         /\ FbDir < latest <=> latest > 0 /\ "CutoverToTargetRequested" \notin msr[latest]
BY MaxIterationAssumption DEF Control, TypeOK, MSRTypeOK, FbDir, Dirs

LEMMA FbDirKept ==
  ASSUME Control, NEW d \in Dirs, NEW fs, MsrAt(d, fs), fs \cap PlaceFlags = {}, latest' = latest
  PROVE  FbDir' = FbDir
BY FbDirType DEF FbDir, MsrAt, PlaceFlags

LEMMA MsrGrows ==
  ASSUME NEW d \in Dirs, NEW fs, MsrAt(d, fs)
  PROVE  \A e \in Dirs : msr[e] \subseteq msr'[e] /\ msr'[e] \subseteq msr[e] \cup fs
BY DEF MsrAt

(* What a command may write to its record without a change of place. *)
ModestStep(d, c, fs) ==
  /\ MsrAt(d, fs) /\ fs \cap PlaceFlags = {}
  /\ "FallForwardEnabled" \in fs => app.at # "target"
  /\ TargetStreamed(fs) => c = ET
  /\ "ImportDataToTargetStarted" \in fs => c = IT
  /\ c = IT /\ fs # {} => "ExportDataDone" \in msr[d]
  /\ c \in Importers => dataDir' = dataDir /\ queue' = queue
  /\ latest' = latest /\ app' = app /\ ending' = ending /\ ended' = ended
  /\ Elsewhere(d)

LEMMA PlacesKept ==
  ASSUME Control, NEW d \in Dirs, NEW c \in Commands, NEW l, NEW fs,
         Continues(d, c, l) \/ Ends(d, c), ModestStep(d, c, fs)
  PROVE  Places'
<1>0. /\ \A e \in Dirs, k \in Commands : pc'[e][k] # "off" => pc[e][k] # "off"
      /\ \A k \in Commands : Alive(k)' => Alive(k)
      /\ pc[d][c] # "off"
  BY DEF Continues, Ends, PcAt, Alive
<1>1. FbDir' = FbDir /\ FbDir \in Dirs /\ latest \in Dirs /\ latest' = latest
  BY FbDirKept, FbDirType DEF ModestStep
<1>2. \A e \in Dirs : msr[e] \subseteq msr'[e] /\ msr'[e] \subseteq msr[e] \cup fs
  BY MsrGrows DEF ModestStep
<1>3. \A e \in Dirs : e # d => msr'[e] = msr[e] /\ dataDir'[e] = dataDir[e] /\ queue'[e] = queue[e]
  BY DEF ModestStep, Elsewhere
<1>4. \A e \in Dirs : /\ pc'[e][ES] # "off" => e = latest'
                      /\ pc'[e][IS] # "off" => e = FbDir'
                      /\ pc'[e][IT] # "off" => e = latest'
                      /\ pc'[e][ET] # "off" => e = FbDir'
  BY <1>0, <1>1, CommandNames DEF Control, Places
<1>5. ASSUME Alive(IS)'
      PROVE  /\ "CutoverProcessedBySourceExporter" \in msr'[FbDir']
             /\ FbDir' < latest' => /\ msr'[latest'] \subseteq {"ParentExportDir"}
                                    /\ dataDir'[latest'] = "empty"
                                    /\ queue'[latest'] = <<>>
  <2>1. /\ "CutoverProcessedBySourceExporter" \in msr[FbDir]
        /\ FbDir < latest => /\ msr[latest] \subseteq {"ParentExportDir"}
                             /\ dataDir[latest] = "empty"
                             /\ queue[latest] = <<>>
    BY <1>5, <1>0, CommandNames DEF Control, Places
  <2>2. "CutoverProcessedBySourceExporter" \in msr'[FbDir']
    BY <2>1, <1>1, <1>2
  <2>3. CASE d # latest
    BY <2>1, <2>2, <2>3, <1>1, <1>3
  <2>4. CASE d = latest /\ FbDir < latest
    <3>1. c = IT
      <4>1. Alive(IS)
        BY <1>0, <1>5, CommandNames
      <4>2. d # FbDir /\ d # 0
        BY <2>4, <1>1, DirsFacts
      <4> QED
        BY <4>1, <4>2, <1>0, Mates, CommandNames
    <3>2. fs = {} /\ dataDir' = dataDir /\ queue' = queue
      BY <2>1, <2>4, <3>1, CommandNames DEF ModestStep
    <3> QED
      BY <2>1, <2>2, <2>4, <3>2, <1>1 DEF ModestStep, MsrAt
  <2> QED
    BY <2>2, <2>3, <2>4, <1>1
<1>6. ASSUME Alive(IT)' PROVE ~TargetStreamed(msr'[latest'])
  <2>1. ~TargetStreamed(msr[latest]) /\ c # ET
    BY <1>6, <1>0, Mates, CommandNames DEF Control, Places
  <2> QED
    BY <2>1, <1>1, <1>2 DEF ModestStep, TargetStreamed
<1>7. ASSUME Alive(ET)'
      PROVE  /\ "CutoverProcessedByTargetImporter" \in msr'[FbDir']
             /\ FbDir' < latest' => /\ "ImportDataToTargetStarted" \notin msr'[latest']
                                    /\ "CutoverToTargetRequested" \notin msr'[latest']
                                    /\ ~TargetStreamed(msr'[latest'])
  <2>1. /\ "CutoverProcessedByTargetImporter" \in msr[FbDir] /\ c # IT
        /\ FbDir < latest => /\ "ImportDataToTargetStarted" \notin msr[latest]
                             /\ "CutoverToTargetRequested" \notin msr[latest]
                             /\ ~TargetStreamed(msr[latest])
    BY <1>7, <1>0, Mates, CommandNames DEF Control, Places
  <2>2. CASE d # latest \/ ~(FbDir < latest)
    BY <2>1, <2>2, <1>1, <1>2, <1>3
  <2>3. CASE d = latest /\ FbDir < latest
    <3>1. c # ET
      <4>1. d # FbDir
        BY <2>3, <1>1, DirsFacts
      <4> QED
        BY <4>1, <1>0, Mates
    <3>2. ~TargetStreamed(fs) /\ "ImportDataToTargetStarted" \notin fs
          /\ "CutoverToTargetRequested" \notin fs
      BY <2>1, <3>1 DEF ModestStep, PlaceFlags
    <3> QED
      BY <2>1, <2>3, <3>2, <1>1, <1>2 DEF TargetStreamed
  <2> QED
    BY <2>2, <2>3
<1> QED
  BY <1>4, <1>5, <1>6, <1>7 DEF Places

(* Only an exporter creates or drops a slot, its own. *)
OwnSlot(d, c) ==
  /\ c # ES => slot'[d]["source"].exists = slot[d]["source"].exists
  /\ c # ET => slot'[d]["target"].exists = slot[d]["target"].exists

LEMMA OwnersKept ==
  ASSUME Control, NEW d \in Dirs, NEW c \in Commands, NEW l, NEW fs,
         Continues(d, c, l), ModestStep(d, c, fs), OwnSlot(d, c)
  PROVE  Owners'
<1>1. FbDir' = FbDir /\ latest' = latest /\ Open' = Open
  BY FbDirKept DEF ModestStep, Open
<1>2. \A k \in Commands : Alive(k)' = Alive(k)
  BY AliveKept
<1>3. Alive(ES)' = Alive(ES) /\ Alive(ET)' = Alive(ET) /\ Alive(IS)' = Alive(IS) /\ Alive(IT)' = Alive(IT)
  BY <1>2, CommandNames
<1>4. ASSUME NEW e \in Dirs, slot'[e]["source"].exists
      PROVE  e = latest /\ ~Alive(IS) /\ (Open => Alive(ES))
  <2>1. CASE e = d /\ c = ES
    BY <2>1, Mates DEF Continues, Alive
  <2>2. CASE ~(e = d /\ c = ES)
    <3>1. slot'[e]["source"].exists = slot[e]["source"].exists
      BY <2>2 DEF OwnSlot, ModestStep, Elsewhere, SlotsStay
    <3> QED
      BY <1>4, <3>1 DEF Control, Owners
  <2> QED
    BY <2>1, <2>2
<1>5. ASSUME NEW e \in Dirs, slot'[e]["target"].exists
      PROVE  e = FbDir /\ ~Alive(IT) /\ (Open => Alive(ET))
  <2>1. CASE e = d /\ c = ET
    BY <2>1, Mates DEF Continues, Alive
  <2>2. CASE ~(e = d /\ c = ET)
    <3>1. slot'[e]["target"].exists = slot[e]["target"].exists
      BY <2>2 DEF OwnSlot, ModestStep, Elsewhere, SlotsStay
    <3> QED
      BY <1>5, <3>1 DEF Control, Owners
  <2> QED
    BY <2>1, <2>2
<1> QED
  BY <1>1, <1>3, <1>4, <1>5 DEF Owners

LEMMA AppPlaceKept ==
  ASSUME Control, NEW d \in Dirs, NEW fs, NEW c, ModestStep(d, c, fs)
  PROVE  AppPlace'
<1>1. FbDir' = FbDir /\ app' = app /\ app.dir \in Dirs /\ 0 \in Dirs
  <2>1. app.dir \in Dirs
    BY DEF Control, TypeOK
  <2>2. FbDir' = FbDir /\ app' = app
    BY FbDirKept DEF ModestStep
  <2> QED
    BY <2>1, <2>2, DirsFacts
<1>2. \A e \in Dirs : msr[e] \subseteq msr'[e] /\ msr'[e] \subseteq msr[e] \cup fs
  BY MsrGrows DEF ModestStep
<1>3. /\ "CutoverToSourceRequested" \notin fs /\ "CutoverToSourceReplicaRequested" \notin fs
      /\ "FallbackEnabled" \notin fs /\ ("FallForwardEnabled" \in fs => app.at # "target")
  BY DEF ModestStep, PlaceFlags
<1>4. \A e \in Dirs : TargetStreamed(msr[e]) => TargetStreamed(msr'[e])
  BY <1>2 DEF TargetStreamed
<1>5. app.at = "target" => \A e \in Dirs : WayBack(msr'[e]) => WayBack(msr[e])
  BY <1>2, <1>3 DEF WayBack
<1> QED
  BY <1>1, <1>2, <1>3, <1>4, <1>5 DEF Control, AppPlace

LEMMA ReplicaKept ==
  ASSUME Control, NEW d \in Dirs, NEW c \in Commands, NEW l, NEW fs,
         Continues(d, c, l) \/ Ends(d, c), ModestStep(d, c, fs),
         c = SR => \/ l \in {"off", "init", "enable"} \/ pc[d][c] \notin {"off", "init", "enable"}
                   \/ "FallForwardEnabled" \in msr'[d]
  PROVE  Replica'
<1>1. 0 \in Dirs /\ msr[0] \subseteq msr'[0] /\ msr'[0] \subseteq msr[0] \cup fs
      /\ "CutoverToTargetRequested" \notin fs
  <2>1. MsrAt(d, fs) /\ "CutoverToTargetRequested" \notin fs
    BY DEF ModestStep, PlaceFlags
  <2> QED
    BY <2>1, MsrGrows, DirsFacts
<1>2. CASE c # SR
  <2>1. pc'[0][SR] = pc[0][SR] /\ (SR \in toRun' => SR \in toRun)
    BY <1>1, <1>2, CommandNames DEF Continues, Ends, PcAt
  <2> QED
    BY <1>1, <2>1 DEF Control, Replica
<1>3. CASE c = SR
  <2>1. d = 0 /\ pc[0][SR] # "off"
    BY <1>3, Mates DEF Continues, Ends
  <2>2. "CutoverToTargetRequested" \in msr'[0] => "FallForwardEnabled" \in msr'[0]
    BY <1>1, <2>1 DEF Control, Replica
  <2>3. pc'[0][SR] \notin {"off", "init", "enable"} => "FallForwardEnabled" \in msr'[0]
    BY <1>1, <1>3, <2>1 DEF Control, Replica, Continues, Ends, PcAt
  <2> QED
    BY <2>2, <2>3 DEF Replica
<1> QED
  BY <1>2, <1>3

(* A command that goes on in its directory. *)
LEMMA StepKept ==
  ASSUME Control, Open, NEW d \in Dirs, NEW c \in Commands, NEW l, NEW fs,
         Continues(d, c, l), ModestStep(d, c, fs), OwnSlot(d, c),
         c = SR => \/ l \in {"off", "init", "enable"} \/ pc[d][c] \notin {"off", "init", "enable"}
                   \/ "FallForwardEnabled" \in msr'[d],
         TypeOK', DirAt(d)'
  PROVE  Control'
<1>1. Chains' /\ Replica' /\ Places' /\ Owners' /\ AppPlace'
  BY ChainsKept, ReplicaKept, PlacesKept, OwnersKept, AppPlaceKept
<1>2. \A e \in Dirs : e # d => DirAt(e)'
  BY ElsewhereKept DEF ModestStep, Open
<1>3. Ending'
  BY DEF Control, Ending, Open, ModestStep
<1> QED
  BY <1>1, <1>2, <1>3 DEF Control

-----------------------------------------------------------------------------
(* Fields that are set one by one *)

(* All the implications between fields hold in record f of directory d. *)
Consistent(d, f, n) ==
  ForwardFlags(f) /\ BackFlags(f) /\ OnwardFlags(f) /\ IterationFlags(d, f, n)

(* Fields that nothing is concluded from. *)
UnwatchedFlags ==
  {"PGReplicationSlotName", "YBReplicationSlotName", "ExportDataSourceDebeziumStarted",
   "ExportDataTargetDebeziumStarted", "ExportFromTargetFallBackStarted",
   "ExportFromTargetFallForwardStarted", "ImportDataToSourceStarted",
   "ImportDataToTargetStarted", "ParentExportDir"}

LEMMA UnwatchedSet ==
  ASSUME NEW d, NEW n, NEW f, NEW fs, NEW g, g = f \cup fs, fs \subseteq UnwatchedFlags,
         Consistent(d, f, n)
  PROVE  Consistent(d, g, n)
<1>1. ForwardFlags(g)
  BY DEF Consistent, ForwardFlags, UnwatchedFlags
<1>2. BackFlags(g)
  BY DEF Consistent, BackFlags, UnwatchedFlags
<1>3. OnwardFlags(g)
  BY DEF Consistent, OnwardFlags, UnwatchedFlags
<1>4. IterationFlags(d, g, n)
  BY DEF Consistent, IterationFlags, UnwatchedFlags
<1> QED
  BY <1>1, <1>2, <1>3, <1>4 DEF Consistent

(* What must hold before field x is set. *)
Justified(x, f) ==
  /\ x = "ExportDataDone" => "PGReplicationSlotName" \in f
  /\ x = "ExportDataFromSourceStarted" => "ExportDataDone" \in f
  /\ x = "CutoverDetectedBySourceExporter" => "CutoverToTargetRequested" \in f
  /\ x = "CutoverProcessedBySourceExporter" => "CutoverDetectedBySourceExporter" \in f
  /\ x = "CutoverDetectedByTargetImporter" => "CutoverToTargetRequested" \in f
  /\ x = "CutoverProcessedByTargetImporter" => "CutoverDetectedByTargetImporter" \in f
  /\ x = "CutoverDetectedByTargetFBExporter" => "CutoverToSourceRequested" \in f
  /\ x = "CutoverToSourceProcessedByTargetExporter" => "CutoverDetectedByTargetFBExporter" \in f
  /\ x = "CutoverDetectedBySourceImporter" => "CutoverToSourceRequested" \in f
  /\ x = "CutoverToSourceProcessedBySourceImporter" => "CutoverDetectedBySourceImporter" \in f
  /\ x = "CutoverDetectedByTargetFFExporter" => "CutoverToSourceReplicaRequested" \in f
  /\ x = "CutoverToSourceReplicaProcessedByTargetExporter" =>
       "CutoverDetectedByTargetFFExporter" \in f
  /\ x = "CutoverDetectedBySourceReplicaImporter" => "CutoverToSourceReplicaRequested" \in f
  /\ x = "CutoverToSourceReplicaProcessedBySRImporter" =>
       "CutoverDetectedBySourceReplicaImporter" \in f

LEMMA JustifiedSet ==
  ASSUME NEW d, NEW n, NEW f, NEW x, NEW g, g = f \cup {x}, Consistent(d, f, n), Justified(x, f),
         x \notin TurningFlags, x # "RestartDataMigrationSourceTargetNextIteration",
         x = "NextIterationInitialized" => d < n
  PROVE  Consistent(d, g, n)
<1>1. ForwardFlags(g)
  BY DEF Consistent, ForwardFlags, Justified, TurningFlags, PlaceFlags
<1>2. BackFlags(g)
  BY DEF Consistent, BackFlags, Justified, TurningFlags, PlaceFlags
<1>3. OnwardFlags(g)
  BY DEF Consistent, OnwardFlags, Justified, TurningFlags, PlaceFlags
<1>4. IterationFlags(d, g, n)
  BY DEF Consistent, IterationFlags, TurningFlags, PlaceFlags
<1> QED
  BY <1>1, <1>2, <1>3, <1>4 DEF Consistent

LEMMA RecordsConsistent ==
  ASSUME Control, NEW d \in Dirs
  PROVE  Consistent(d, msr[d], latest)
BY DEF Control, DirAt, FlagsAt, Consistent

(* What follows from a consistent record. *)
LEMMA ConsistentFacts ==
  ASSUME NEW d, NEW n, NEW f, Consistent(d, f, n)
  PROVE  /\ "CutoverToTargetRequested" \in f => "ExportDataDone" \in f
         /\ "CutoverProcessedBySourceExporter" \in f => "CutoverToTargetRequested" \in f
         /\ "CutoverProcessedByTargetImporter" \in f => "CutoverToTargetRequested" \in f
         /\ TargetProcessed(f) => TargetDetected(f)
         /\ TargetDetected(f) => /\ WayBack(f) /\ "ExportDataDone" \in f
                                 /\ "CutoverToTargetRequested" \in f
                                 /\ "CutoverProcessedBySourceExporter" \in f
                                 /\ "CutoverProcessedByTargetImporter" \in f
         /\ "CutoverDetectedByTargetFBExporter" \in f => "FallbackEnabled" \in f
         /\ "CutoverDetectedByTargetFFExporter" \in f => "FallbackEnabled" \notin f
<1>1. ForwardFlags(f) /\ BackFlags(f) /\ OnwardFlags(f)
  BY DEF Consistent
<1>2. /\ "CutoverToTargetRequested" \in f => "ExportDataDone" \in f
      /\ "CutoverProcessedBySourceExporter" \in f => "CutoverToTargetRequested" \in f
      /\ "CutoverProcessedByTargetImporter" \in f => "CutoverToTargetRequested" \in f
  BY <1>1 DEF ForwardFlags
<1>3. TargetProcessed(f) => TargetDetected(f)
  BY <1>1 DEF BackFlags, OnwardFlags, TargetProcessed, TargetDetected
<1>4. TargetDetected(f) => /\ WayBack(f) /\ "CutoverProcessedBySourceExporter" \in f
                           /\ "CutoverProcessedByTargetImporter" \in f
  BY <1>1 DEF BackFlags, OnwardFlags, WayBack, TargetDetected
<1>5. /\ "CutoverDetectedByTargetFBExporter" \in f => "FallbackEnabled" \in f
      /\ "CutoverDetectedByTargetFFExporter" \in f => "FallbackEnabled" \notin f
  BY <1>1 DEF ForwardFlags, BackFlags, OnwardFlags
<1> QED
  BY <1>2, <1>3, <1>4, <1>5

(* What a command knows of its own step; x is the directory's slots. *)
OwnStep(d, c, l, f, x, type) ==
  /\ l \in StepsOf(c)
  /\ c = ES => /\ SourceExporterCutover(l, f)
               /\ SourceExporterSlot(l, f, x["source"].exists, TRUE)
               /\ SourceExporterSnapshot(l, f, type)
  /\ c = ET => /\ TargetExporterCutover(l, f)
               /\ TargetExporterSlot(l, f, x["target"].exists, TRUE)
  /\ c \in Importers => ImporterKnows(l, f, DetectedBy(c), ProcessedBy(c))
  /\ c = IS => NextIterationSetUp(d, l, f, latest)

(* What a command sets in its record, as far as the others can tell. *)
OwnFlags(c, fs) ==
  /\ c # ES => fs \cap SourceExporterFlags = {} /\ "ExportDataFromSourceStarted" \notin fs
  /\ c # ET => fs \cap TargetExporterFlags = {}
  /\ \A k \in Importers : k # c => DetectedBy(k) \notin fs
  /\ "FallbackEnabled" \notin fs

(* What a command sets in its record, without a change of place. *)
ModestFlags(d, c, fs) ==
  /\ fs \subseteq Flags /\ fs \cap PlaceFlags = {} /\ OwnFlags(c, fs)
  /\ "FallForwardEnabled" \in fs => app.at # "target"
  /\ TargetStreamed(fs) => c = ET
  /\ "ImportDataToTargetStarted" \in fs => c = IT
  /\ c = IT /\ fs # {} => "ExportDataDone" \in msr[d]

(* Command c goes on to step l, or exits to be run again. *)
GoesTo(d, c, l) ==
  /\ Goto(d, c, l) /\ l \in ExporterLabels \cup ImporterLabels
  /\ pc[d][c] \notin {"off", "stream", "streaming"}
  /\ (l # "off" /\ toRun' = toRun) \/ (l = "off" /\ toRun' = toRun \cup {c})
  /\ c = SR => \/ l \in {"off", "init", "enable"} \/ pc[d][c] \notin {"off", "init", "enable"}
             \/ "FallForwardEnabled" \in msr'[d]

LEMMA AtMostLatest ==
  ASSUME Control, NEW d \in Dirs, NEW c \in Commands, pc[d][c] # "off"
  PROVE  d <= latest /\ ~(d > latest) /\ latest \in Nat /\ d \in Nat
<1>1. latest \in Nat /\ FbDir <= latest /\ 0 <= latest /\ d \in Nat
  BY FbDirType, DirsFacts
<1>2. d = latest \/ d = FbDir \/ d = 0
  BY Mates, CommandNames
<1> QED
  BY <1>1, <1>2

LEMMA OpenSteps ==
  ASSUME Control, NEW d \in Dirs, NEW c \in Commands, pc[d][c] \notin {"off", "stream", "streaming"}
  PROVE  Open
BY DEF Control, Ending, SettledCommands

LEMMA DirectoryKept ==
  ASSUME Control, Open, Open', NEW d \in Dirs, NEW c \in Commands, NEW l, NEW fs,
         PcAt(d, c, l), pc[d][c] # "off", MsrAt(d, fs), latest' = latest,
         OwnStep(d, c, l, msr'[d], slot'[d], exportType'[d]), OwnFlags(c, fs), OwnSlot(d, c),
         c # ES => exportType'[d] = exportType[d],
         d > 0 => exportType'[d] # SNAPSHOT_AND_CHANGES, d = 0 => exportType'[d] # CHANGES_ONLY,
         FlagsAt(d)',
         StatusFile(pc'[d][ES], msr'[d], dataDir'[d], queue'[d], TRUE),
         EventsRequested(queue'[d], msr'[d])
  PROVE  DirAt(d)'
<1>0. DirAt(d) /\ Open = TRUE /\ Open' = TRUE
  BY DEF Control, Open
<1>1. msr'[d] = msr[d] \cup fs /\ pc'[d][c] = l /\ \A k \in Commands : k # c => pc'[d][k] = pc[d][k]
  BY DEF MsrAt, PcAt
<1>3. /\ SourceExporterCutover(pc'[d][ES], msr'[d])
      /\ SourceExporterSlot(pc'[d][ES], msr'[d], slot'[d]["source"].exists, TRUE)
      /\ SourceExporterSnapshot(pc'[d][ES], msr'[d], exportType'[d])
  <2>1. CASE c = ES
    BY <2>1, <1>1 DEF OwnStep
  <2>2. CASE c # ES
    <3>1. /\ pc'[d][ES] = pc[d][ES] /\ fs \cap SourceExporterFlags = {}
          /\ SourceExporterCutover(pc[d][ES], msr[d])
          /\ SourceExporterSlot(pc[d][ES], msr[d], slot[d]["source"].exists, TRUE)
          /\ SourceExporterSnapshot(pc[d][ES], msr[d], exportType[d])
      BY <2>2, <1>0, <1>1, CommandNames DEF OwnFlags, DirAt, ExportersAt
    <3>2. slot'[d]["source"].exists = slot[d]["source"].exists /\ exportType'[d] = exportType[d]
      BY <2>2 DEF OwnSlot
    <3> QED
      BY <3>1, <3>2, <1>1, SourceExporterMore
  <2> QED
    BY <2>1, <2>2
<1>4. /\ TargetExporterCutover(pc'[d][ET], msr'[d])
      /\ TargetExporterSlot(pc'[d][ET], msr'[d], slot'[d]["target"].exists, TRUE)
  <2>1. CASE c = ET
    BY <2>1, <1>1 DEF OwnStep
  <2>2. CASE c # ET
    <3>1. /\ pc'[d][ET] = pc[d][ET] /\ fs \cap TargetExporterFlags = {} /\ "FallbackEnabled" \notin fs
          /\ TargetExporterCutover(pc[d][ET], msr[d])
          /\ TargetExporterSlot(pc[d][ET], msr[d], slot[d]["target"].exists, TRUE)
      BY <2>2, <1>0, <1>1, CommandNames DEF OwnFlags, DirAt, ExportersAt
    <3>2. slot'[d]["target"].exists = slot[d]["target"].exists
      BY <2>2 DEF OwnSlot
    <3> QED
      BY <3>1, <3>2, <1>1, TargetExporterMore
  <2> QED
    BY <2>1, <2>2
<1>5. ASSUME NEW k \in Importers
      PROVE  ImporterKnows(pc'[d][k], msr'[d], DetectedBy(k), ProcessedBy(k))
  <2>1. CASE k = c
    BY <2>1, <1>1 DEF OwnStep
  <2>2. CASE k # c
    <3>1. /\ pc'[d][k] = pc[d][k] /\ DetectedBy(k) \notin fs
          /\ ImporterKnows(pc[d][k], msr[d], DetectedBy(k), ProcessedBy(k))
      BY <2>2, <1>0, <1>1, CommandNames DEF OwnFlags, DirAt, ImportersAt
    <3> QED
      BY <3>1, <1>1, ImporterMore
  <2> QED
    BY <2>1, <2>2
<1>6. NextIterationSetUp(d, pc'[d][IS], msr'[d], latest')
  <2>1. CASE c = IS
    BY <2>1, <1>1 DEF OwnStep
  <2>2. CASE c # IS
    <3>1. pc'[d][IS] = pc[d][IS] /\ NextIterationSetUp(d, pc[d][IS], msr[d], latest)
      BY <2>2, <1>0, <1>1, CommandNames DEF DirAt, ImportersAt
    <3> QED
      BY <3>1, <1>1, SetUpMore
  <2> QED
    BY <2>1, <2>2
<1>7. ExportersAt(d)'
  BY <1>0, <1>3, <1>4 DEF ExportersAt
<1>8. ImportersAt(d)'
  BY <1>5, <1>6 DEF ImportersAt
<1>9. DirectoryAt(d)'
  <2>1. \A k \in Commands : pc'[d][k] \in StepsOf(k)
    BY <1>0, <1>1 DEF OwnStep, DirAt, DirectoryAt
  <2>2. d > 0 => c # SR /\ pc[d][SR] = "off"
    BY <1>0 DEF DirAt, DirectoryAt
  <2>3. d > 0 => pc'[d][SR] = "off"
    BY <2>2, <1>1, CommandNames
  <2> QED
    BY <2>1, <2>3, <1>0 DEF DirectoryAt
<1>10. FutureAt(d)'
  <2>1. ~(d > latest)
    BY AtMostLatest
  <2> QED
    BY <2>1 DEF FutureAt
<1> QED
  BY <1>7, <1>8, <1>9, <1>10 DEF DirAt

(* A step that leaves the data as they are, and maybe adds to its record.  *)
(* g is the record afterwards.                                             *)
LEMMA RecordStep ==
  ASSUME Control, NEW d \in Dirs, NEW c \in Commands, NEW l, NEW fs, NEW g,
         GoesTo(d, c, l), Set(d, fs), g = msr[d] \cup fs, ModestFlags(d, c, fs),
         UNCHANGED <<exportType, latest, importType, kills, dataVars, userVars>>,
         OwnStep(d, c, l, g, slot[d], exportType[d]), Consistent(d, g, latest),
         c = ES => StatusFile(l, g, dataDir[d], queue[d], TRUE)
  PROVE  Control'
<1>1. /\ TypeOK /\ exportType' = exportType /\ latest' = latest
      /\ dataDir' = dataDir /\ files' = files /\ queue' = queue /\ done' = done /\ db' = db
      /\ slot' = slot /\ app' = app /\ written' = written /\ ending' = ending /\ ended' = ended
      /\ importType' = importType /\ kills' = kills
  BY DEF Control, dataVars, userVars, endVars
<1>2. PcAt(d, c, l) /\ Continues(d, c, l)
  BY <1>1, GotoAt DEF Continues, GoesTo
<1>3. MsrAt(d, fs) /\ msr'[d] = g
  BY <1>1, SetAt DEF MsrAt
<1>4. OwnSlot(d, c) /\ \A e \in Dirs : SlotsStay(e)
  BY <1>1 DEF SlotsStay, OwnSlot
<1>5. Elsewhere(d)
  BY <1>1, <1>2, <1>3, <1>4 DEF Elsewhere, PcAt, MsrAt
<1>6. ModestStep(d, c, fs)
  BY <1>1, <1>3, <1>5 DEF ModestStep, ModestFlags
<1>7. Open = TRUE /\ Open' = TRUE
  BY <1>1, OpenSteps DEF Open, GoesTo
<1>8. TypeOK'
  <2>1. pc' \in [Dirs -> [Commands -> ExporterLabels \cup ImporterLabels]]
    BY <1>1 DEF TypeOK, Goto, GoesTo
  <2>2. toRun' \subseteq Commands
    BY <1>1 DEF TypeOK, GoesTo
  <2>3. msr' \in [Dirs -> SUBSET Flags]
    BY <1>1 DEF TypeOK, MSRTypeOK, Set, ModestFlags
  <2> QED
    BY <1>1, <2>1, <2>2, <2>3 DEF TypeOK, MSRTypeOK, EndTypeOK
<1>9. FlagsAt(d)'
  BY <1>1, <1>3 DEF FlagsAt, Consistent
<1>10. EventsRequested(queue'[d], msr'[d])
  <2>1. EventsRequested(queue[d], msr[d])
    BY DEF Control, DirAt, DirectoryAt
  <2> QED
    BY <1>1, <1>3, <2>1, EventsMore
<1>11. StatusFile(pc'[d][ES], msr'[d], dataDir'[d], queue'[d], TRUE)
  <2>1. CASE c = ES
    BY <2>1, <1>1, <1>2, <1>3 DEF PcAt
  <2>2. CASE c # ES
    <3>1. StatusFile(pc[d][ES], msr[d], dataDir[d], queue[d], TRUE)
      BY <1>7 DEF Control, DirAt, DirectoryAt
    <3>2. pc'[d][ES] = pc[d][ES] /\ "ExportDataFromSourceStarted" \notin fs
      BY <2>2, <1>2, CommandNames DEF PcAt, ModestFlags, OwnFlags
    <3> QED
      BY <3>1, <3>2, <1>1, <1>3, StatusFileMore
  <2> QED
    BY <2>1, <2>2
<1>12. DirAt(d)'
  <2>1. (d > 0 => exportType[d] # SNAPSHOT_AND_CHANGES) /\ (d = 0 => exportType[d] # CHANGES_ONLY)
    BY DEF Control, DirAt, DirectoryAt
  <2> QED
    BY <1>1, <1>2, <1>3, <1>4, <1>7, <1>9, <1>10, <1>11, <2>1, DirectoryKept DEF Continues, ModestFlags
<1> QED
  BY <1>2, <1>4, <1>6, <1>7, <1>8, <1>12, StepKept DEF GoesTo

(* A step that leaves the records and the data as they are. *)
LEMMA PlainStep ==
  ASSUME Control, NEW d \in Dirs, NEW c \in Commands, NEW l,
         GoesTo(d, c, l), UNCHANGED <<msrVars, importType, kills, dataVars, userVars>>,
         OwnStep(d, c, l, msr[d], slot[d], exportType[d]),
         c = ES => StatusFile(l, msr[d], dataDir[d], queue[d], TRUE)
  PROVE  Control'
<1>1. msr' = msr /\ msr \in [Dirs -> SUBSET Flags]
  BY DEF msrVars, Control, TypeOK, MSRTypeOK
<1>2. Set(d, {}) /\ msr[d] = msr[d] \cup {}
  BY <1>1 DEF Set
<1>3. Consistent(d, msr[d], latest)
  BY RecordsConsistent
<1>4. ModestFlags(d, c, {})
  BY DEF ModestFlags, OwnFlags, TargetStreamed
<1>5. UNCHANGED <<exportType, latest, importType, kills, dataVars, userVars>>
  BY DEF msrVars
<1> QED
  BY <1>2, <1>3, <1>4, <1>5, RecordStep

(* The data of the other directories are left alone. *)
DataElsewhere(d) ==
  \A e \in Dirs : e # d =>
    /\ exportType'[e] = exportType[e] /\ dataDir'[e] = dataDir[e] /\ queue'[e] = queue[e]
    /\ done'[e] = done[e] /\ SlotsStay(e)

(* A step of an exporter that works on the data of its directory. *)
LEMMA DataStep ==
  ASSUME Control, Open, NEW d \in Dirs, NEW c \in Exporters, NEW l, NEW fs, NEW g,
         Continues(d, c, l), MsrAt(d, fs), g = msr[d] \cup fs, ModestFlags(d, c, fs),
         latest' = latest, UNCHANGED userVars, DataElsewhere(d), OwnSlot(d, c),
         c # ES => exportType'[d] = exportType[d],
         d > 0 => exportType'[d] # SNAPSHOT_AND_CHANGES, d = 0 => exportType'[d] # CHANGES_ONLY,
         OwnStep(d, c, l, g, slot'[d], exportType'[d]), Consistent(d, g, latest),
         StatusFile(pc'[d][ES], g, dataDir'[d], queue'[d], TRUE), EventsRequested(queue'[d], g),
         TypeOK'
  PROVE  Control'
<1>1. /\ app' = app /\ ending' = ending /\ ended' = ended /\ c \in Commands /\ c \notin Importers
      /\ c # SR /\ c # IT
  BY CommandNames DEF userVars, endVars
<1>2. PcAt(d, c, l) /\ pc[d][c] # "off" /\ msr'[d] = g
  BY DEF Continues, MsrAt
<1>3. Elsewhere(d)
  BY <1>2 DEF Elsewhere, DataElsewhere, PcAt, MsrAt
<1>4. ModestStep(d, c, fs)
  BY <1>1, <1>3 DEF ModestStep, ModestFlags
<1>5. Open' = TRUE
  BY <1>1 DEF Open
<1>6. FlagsAt(d)'
  BY <1>2 DEF FlagsAt, Consistent
<1>7. DirAt(d)'
  BY <1>1, <1>2, <1>5, <1>6, DirectoryKept DEF ModestFlags
<1> QED
  BY <1>1, <1>4, <1>7, StepKept

-----------------------------------------------------------------------------
(* Export data from source *)

(* What is known of 'export data from source' where it runs. *)
LEMMA SourceExporterThere ==
  ASSUME Control, NEW d \in Dirs, pc[d][ES] \notin {"off", "stream", "streaming"}
  PROVE  /\ SourceExporterCutover(pc[d][ES], msr[d])
         /\ SourceExporterSlot(pc[d][ES], msr[d], slot[d]["source"].exists, TRUE)
         /\ SourceExporterSnapshot(pc[d][ES], msr[d], exportType[d])
         /\ StatusFile(pc[d][ES], msr[d], dataDir[d], queue[d], TRUE)
         /\ Consistent(d, msr[d], latest) /\ Open
<1>1. Open = TRUE
  BY OpenSteps, CommandNames DEF Open
<1>2. DirAt(d) /\ Consistent(d, msr[d], latest)
  BY RecordsConsistent DEF Control
<1> QED
  BY <1>1, <1>2 DEF DirAt, ExportersAt, DirectoryAt

LEMMA SourceSavesSlotName ==
  ASSUME Control, NEW d \in Dirs, SaveSlotName(d, ES), UNCHANGED userVars
  PROVE  Control'
<1>f. PICK fs : fs = {"PGReplicationSlotName"}
  OBVIOUS
<1>g. PICK g : g = msr[d] \cup fs
  OBVIOUS
<1>1. pc[d][ES] \in {"save"} /\ Set(d, fs)
      /\ toRun' = toRun /\ UNCHANGED <<exportType, latest, importType, kills, dataVars, userVars>>
  BY <1>f, RoleFacts, ExporterFlagFacts DEF SaveSlotName
<1>2. PICK l \in {"dump", "exported"} : Goto(d, ES, l)
  BY DEF SaveSlotName
<1>3. /\ SourceExporterCutover(pc[d][ES], msr[d])
      /\ SourceExporterSlot(pc[d][ES], msr[d], slot[d]["source"].exists, TRUE)
      /\ SourceExporterSnapshot(pc[d][ES], msr[d], exportType[d])
      /\ StatusFile(pc[d][ES], msr[d], dataDir[d], queue[d], TRUE)
      /\ Consistent(d, msr[d], latest)
  BY <1>1, SourceExporterThere
<1>4. Consistent(d, g, latest)
  <2>1. fs \subseteq UnwatchedFlags
    BY <1>f DEF UnwatchedFlags
  <2> QED
    BY <1>g, <1>3, <2>1, UnwatchedSet
<1>5. OwnStep(d, ES, l, g, slot[d], exportType[d])
  <2>1. SourceExporterCutover(l, g)
    BY <1>f, <1>g, <1>1, <1>2, <1>3 DEF SourceExporterCutover
  <2>2. SourceExporterSlot(l, g, slot[d]["source"].exists, TRUE)
    BY <1>f, <1>g, <1>1, <1>2, <1>3 DEF SourceExporterSlot, SourceExporterCutover, WithSlot
  <2>3. SourceExporterSnapshot(l, g, exportType[d])
    BY <1>f, <1>g, <1>1, <1>2, <1>3 DEF SourceExporterSnapshot, WithSlot
  <2> QED
    BY <1>2, <2>1, <2>2, <2>3, StepsFacts DEF OwnStep, Importers, ExporterLabels
<1>6. StatusFile(l, g, dataDir[d], queue[d], TRUE)
  BY <1>f, <1>g, <1>1, <1>2, <1>3 DEF StatusFile, SourceExporterSnapshot
<1>7. ModestFlags(d, ES, fs)
  BY <1>f, ImporterFlagFacts, CommandNames
  DEF ModestFlags, OwnFlags, TargetStreamed, PlaceFlags, TargetExporterFlags, Flags
<1>8. GoesTo(d, ES, l)
  BY <1>1, <1>2 DEF GoesTo, ExporterLabels
<1> QED
  BY <1>g, <1>1, <1>4, <1>5, <1>6, <1>7, <1>8, CommandNames, RecordStep

LEMMA SourceIsExported ==
  ASSUME Control, NEW d \in Dirs, SetDataIsExported(d, ES), UNCHANGED userVars
  PROVE  Control'
<1>f. PICK fs : fs = {"ExportDataDone"}
  OBVIOUS
<1>g. PICK g : g = msr[d] \cup fs
  OBVIOUS
<1>1. pc[d][ES] \in {"exported"} /\ Set(d, fs)
      /\ toRun' = toRun /\ UNCHANGED <<exportType, latest, importType, kills, dataVars, userVars>>
  BY <1>f, RoleFacts, ExporterFlagFacts DEF SetDataIsExported
<1>2. PICK l \in {"debezium"} : Goto(d, ES, l)
  BY DEF SetDataIsExported
<1>3. /\ SourceExporterCutover(pc[d][ES], msr[d])
      /\ SourceExporterSlot(pc[d][ES], msr[d], slot[d]["source"].exists, TRUE)
      /\ SourceExporterSnapshot(pc[d][ES], msr[d], exportType[d])
      /\ StatusFile(pc[d][ES], msr[d], dataDir[d], queue[d], TRUE)
      /\ Consistent(d, msr[d], latest)
  BY <1>1, SourceExporterThere
<1>4. Consistent(d, g, latest)
  <2>0. PICK x : x = "ExportDataDone"
    OBVIOUS
  <2>1. Justified(x, msr[d])
    BY <2>0, <1>1, <1>3 DEF Justified, SourceExporterCutover, SourceExporterSnapshot
  <2>2. g = msr[d] \cup {x}
    BY <2>0, <1>1, <1>3, <1>f, <1>g, ConsistentFacts DEF SourceExporterCutover, Consistent, ForwardFlags
  <2>3. x \notin TurningFlags /\ x # "RestartDataMigrationSourceTargetNextIteration"
        /\ x # "NextIterationInitialized"
    BY <2>0 DEF TurningFlags, PlaceFlags
  <2> QED
    BY <1>3, <2>1, <2>2, <2>3, JustifiedSet
<1>5. OwnStep(d, ES, l, g, slot[d], exportType[d])
  <2>1. SourceExporterCutover(l, g)
    BY <1>f, <1>g, <1>1, <1>2, <1>3 DEF SourceExporterCutover
  <2>2. SourceExporterSlot(l, g, slot[d]["source"].exists, TRUE)
    BY <1>f, <1>g, <1>1, <1>2, <1>3 DEF SourceExporterSlot, SourceExporterCutover, WithSlot
  <2>3. SourceExporterSnapshot(l, g, exportType[d])
    BY <1>f, <1>g, <1>1, <1>2, <1>3 DEF SourceExporterSnapshot, WithSlot
  <2> QED
    BY <1>2, <2>1, <2>2, <2>3, StepsFacts DEF OwnStep, Importers, ExporterLabels
<1>6. StatusFile(l, g, dataDir[d], queue[d], TRUE)
  BY <1>f, <1>g, <1>1, <1>2, <1>3 DEF StatusFile, SourceExporterSnapshot
<1>7. ModestFlags(d, ES, fs)
  BY <1>f, ImporterFlagFacts, CommandNames
  DEF ModestFlags, OwnFlags, TargetStreamed, PlaceFlags, TargetExporterFlags, Flags
<1>8. GoesTo(d, ES, l)
  BY <1>1, <1>2 DEF GoesTo, ExporterLabels
<1> QED
  BY <1>g, <1>1, <1>4, <1>5, <1>6, <1>7, <1>8, CommandNames, RecordStep

LEMMA SourceStreams ==
  ASSUME Control, NEW d \in Dirs, HandleSnapshotComplete(d, ES), UNCHANGED userVars
  PROVE  Control'
<1>f. PICK fs : fs = {"ExportDataFromSourceStarted"}
  OBVIOUS
<1>g. PICK g : g = msr[d] \cup fs
  OBVIOUS
<1>1. pc[d][ES] \in {"reached", "exitedReached"} /\ Set(d, fs)
      /\ toRun' = toRun /\ UNCHANGED <<exportType, latest, importType, kills, dataVars, userVars>>
  BY <1>f, RoleFacts, ExporterFlagFacts DEF HandleSnapshotComplete, StartedFlag
<1>2. PICK l \in {"streaming", "exited"} : Goto(d, ES, l) /\ (pc[d][ES] = "reached" => l = "streaming") /\ (pc[d][ES] = "exitedReached" => l = "exited")
  BY DEF HandleSnapshotComplete
<1>3. /\ SourceExporterCutover(pc[d][ES], msr[d])
      /\ SourceExporterSlot(pc[d][ES], msr[d], slot[d]["source"].exists, TRUE)
      /\ SourceExporterSnapshot(pc[d][ES], msr[d], exportType[d])
      /\ StatusFile(pc[d][ES], msr[d], dataDir[d], queue[d], TRUE)
      /\ Consistent(d, msr[d], latest)
  BY <1>1, SourceExporterThere
<1>4. Consistent(d, g, latest)
  <2>0. PICK x : x = "ExportDataFromSourceStarted"
    OBVIOUS
  <2>1. Justified(x, msr[d])
    BY <2>0, <1>1, <1>3 DEF Justified, SourceExporterCutover, SourceExporterSnapshot
  <2>2. g = msr[d] \cup {x}
    BY <2>0, <1>1, <1>3, <1>f, <1>g, ConsistentFacts DEF SourceExporterCutover, Consistent, ForwardFlags
  <2>3. x \notin TurningFlags /\ x # "RestartDataMigrationSourceTargetNextIteration"
        /\ x # "NextIterationInitialized"
    BY <2>0 DEF TurningFlags, PlaceFlags
  <2> QED
    BY <1>3, <2>1, <2>2, <2>3, JustifiedSet
<1>5. OwnStep(d, ES, l, g, slot[d], exportType[d])
  <2>1. SourceExporterCutover(l, g)
    BY <1>f, <1>g, <1>1, <1>2, <1>3 DEF SourceExporterCutover
  <2>2. SourceExporterSlot(l, g, slot[d]["source"].exists, TRUE)
    BY <1>f, <1>g, <1>1, <1>2, <1>3 DEF SourceExporterSlot, SourceExporterCutover, WithSlot
  <2>3. SourceExporterSnapshot(l, g, exportType[d])
    BY <1>f, <1>g, <1>1, <1>2, <1>3 DEF SourceExporterSnapshot, WithSlot
  <2> QED
    BY <1>2, <2>1, <2>2, <2>3, StepsFacts DEF OwnStep, Importers, ExporterLabels
<1>6. StatusFile(l, g, dataDir[d], queue[d], TRUE)
  BY <1>f, <1>g, <1>1, <1>2, <1>3 DEF StatusFile, SourceExporterSnapshot
<1>7. ModestFlags(d, ES, fs)
  BY <1>f, ImporterFlagFacts, CommandNames
  DEF ModestFlags, OwnFlags, TargetStreamed, PlaceFlags, TargetExporterFlags, Flags
<1>8. GoesTo(d, ES, l)
  BY <1>1, <1>2 DEF GoesTo, ExporterLabels
<1> QED
  BY <1>g, <1>1, <1>4, <1>5, <1>6, <1>7, <1>8, CommandNames, RecordStep

LEMMA SourceDetectsCutover ==
  ASSUME Control, NEW d \in Dirs, UpdateCutoverDetectedFlag(d, ES), UNCHANGED userVars
  PROVE  Control'
<1>f. PICK fs : fs = {"CutoverDetectedBySourceExporter"}
  OBVIOUS
<1>g. PICK g : g = msr[d] \cup fs
  OBVIOUS
<1>1. pc[d][ES] \in {"exited"} /\ Set(d, fs)
      /\ toRun' = toRun /\ UNCHANGED <<exportType, latest, importType, kills, dataVars, userVars>>
  BY <1>f, RoleFacts, ExporterFlagFacts DEF UpdateCutoverDetectedFlag
<1>2. PICK l \in {"drop"} : Goto(d, ES, l)
  BY DEF UpdateCutoverDetectedFlag
<1>3. /\ SourceExporterCutover(pc[d][ES], msr[d])
      /\ SourceExporterSlot(pc[d][ES], msr[d], slot[d]["source"].exists, TRUE)
      /\ SourceExporterSnapshot(pc[d][ES], msr[d], exportType[d])
      /\ StatusFile(pc[d][ES], msr[d], dataDir[d], queue[d], TRUE)
      /\ Consistent(d, msr[d], latest)
  BY <1>1, SourceExporterThere
<1>4. Consistent(d, g, latest)
  <2>0. PICK x : x = "CutoverDetectedBySourceExporter"
    OBVIOUS
  <2>1. Justified(x, msr[d])
    BY <2>0, <1>1, <1>3 DEF Justified, SourceExporterCutover, SourceExporterSnapshot
  <2>2. g = msr[d] \cup {x}
    BY <2>0, <1>1, <1>3, <1>f, <1>g, ConsistentFacts DEF SourceExporterCutover, Consistent, ForwardFlags
  <2>3. x \notin TurningFlags /\ x # "RestartDataMigrationSourceTargetNextIteration"
        /\ x # "NextIterationInitialized"
    BY <2>0 DEF TurningFlags, PlaceFlags
  <2> QED
    BY <1>3, <2>1, <2>2, <2>3, JustifiedSet
<1>5. OwnStep(d, ES, l, g, slot[d], exportType[d])
  <2>1. SourceExporterCutover(l, g)
    BY <1>f, <1>g, <1>1, <1>2, <1>3 DEF SourceExporterCutover
  <2>2. SourceExporterSlot(l, g, slot[d]["source"].exists, TRUE)
    BY <1>f, <1>g, <1>1, <1>2, <1>3 DEF SourceExporterSlot, SourceExporterCutover, WithSlot
  <2>3. SourceExporterSnapshot(l, g, exportType[d])
    BY <1>f, <1>g, <1>1, <1>2, <1>3 DEF SourceExporterSnapshot, WithSlot
  <2> QED
    BY <1>2, <2>1, <2>2, <2>3, StepsFacts DEF OwnStep, Importers, ExporterLabels
<1>6. StatusFile(l, g, dataDir[d], queue[d], TRUE)
  BY <1>f, <1>g, <1>1, <1>2, <1>3 DEF StatusFile, SourceExporterSnapshot
<1>7. ModestFlags(d, ES, fs)
  BY <1>f, ImporterFlagFacts, CommandNames
  DEF ModestFlags, OwnFlags, TargetStreamed, PlaceFlags, TargetExporterFlags, Flags
<1>8. GoesTo(d, ES, l)
  BY <1>1, <1>2 DEF GoesTo, ExporterLabels
<1> QED
  BY <1>g, <1>1, <1>4, <1>5, <1>6, <1>7, <1>8, CommandNames, RecordStep

LEMMA SourceProcessedCutover ==
  ASSUME Control, NEW d \in Dirs, MarkProcessedByExporter(d, ES), UNCHANGED userVars
  PROVE  Control'
<1>f. PICK fs : fs = {"CutoverProcessedBySourceExporter", "ExportDataDone"}
  OBVIOUS
<1>g. PICK g : g = msr[d] \cup fs
  OBVIOUS
<1>1. pc[d][ES] \in {"mark"} /\ Set(d, fs)
      /\ toRun' = toRun /\ UNCHANGED <<exportType, latest, importType, kills, dataVars, userVars>>
  BY <1>f, RoleFacts, ExporterFlagFacts DEF MarkProcessedByExporter
<1>2. PICK l \in {"further"} : Goto(d, ES, l)
  BY DEF MarkProcessedByExporter
<1>3. /\ SourceExporterCutover(pc[d][ES], msr[d])
      /\ SourceExporterSlot(pc[d][ES], msr[d], slot[d]["source"].exists, TRUE)
      /\ SourceExporterSnapshot(pc[d][ES], msr[d], exportType[d])
      /\ StatusFile(pc[d][ES], msr[d], dataDir[d], queue[d], TRUE)
      /\ Consistent(d, msr[d], latest)
  BY <1>1, SourceExporterThere
<1>4. Consistent(d, g, latest)
  <2>0. PICK x : x = "CutoverProcessedBySourceExporter"
    OBVIOUS
  <2>1. Justified(x, msr[d])
    BY <2>0, <1>1, <1>3 DEF Justified, SourceExporterCutover, SourceExporterSnapshot
  <2>2. g = msr[d] \cup {x}
    BY <2>0, <1>1, <1>3, <1>f, <1>g, ConsistentFacts DEF SourceExporterCutover, Consistent, ForwardFlags
  <2>3. x \notin TurningFlags /\ x # "RestartDataMigrationSourceTargetNextIteration"
        /\ x # "NextIterationInitialized"
    BY <2>0 DEF TurningFlags, PlaceFlags
  <2> QED
    BY <1>3, <2>1, <2>2, <2>3, JustifiedSet
<1>5. OwnStep(d, ES, l, g, slot[d], exportType[d])
  <2>1. SourceExporterCutover(l, g)
    BY <1>f, <1>g, <1>1, <1>2, <1>3 DEF SourceExporterCutover
  <2>2. SourceExporterSlot(l, g, slot[d]["source"].exists, TRUE)
    BY <1>f, <1>g, <1>1, <1>2, <1>3 DEF SourceExporterSlot, SourceExporterCutover, WithSlot
  <2>3. SourceExporterSnapshot(l, g, exportType[d])
    BY <1>f, <1>g, <1>1, <1>2, <1>3 DEF SourceExporterSnapshot, WithSlot
  <2> QED
    BY <1>2, <2>1, <2>2, <2>3, StepsFacts DEF OwnStep, Importers, ExporterLabels
<1>6. StatusFile(l, g, dataDir[d], queue[d], TRUE)
  BY <1>f, <1>g, <1>1, <1>2, <1>3 DEF StatusFile, SourceExporterSnapshot
<1>7. ModestFlags(d, ES, fs)
  BY <1>f, ImporterFlagFacts, CommandNames
  DEF ModestFlags, OwnFlags, TargetStreamed, PlaceFlags, TargetExporterFlags, Flags
<1>8. GoesTo(d, ES, l)
  BY <1>1, <1>2 DEF GoesTo, ExporterLabels
<1> QED
  BY <1>g, <1>1, <1>4, <1>5, <1>6, <1>7, <1>8, CommandNames, RecordStep


LEMMA NoRecordChange ==
  ASSUME TypeOK, NEW d \in Dirs, msr' = msr
  PROVE  MsrAt(d, {}) /\ msr[d] = msr[d] \cup {}
BY DEF MsrAt

LEMMA NoFlags ==
  ASSUME NEW d, NEW c
  PROVE  ModestFlags(d, c, {})
BY DEF ModestFlags, OwnFlags, TargetStreamed

(* The types after a step of a command, from those of what it changes. *)
LEMMA TypesKept ==
  ASSUME TypeOK, NEW d \in Dirs, NEW c \in Commands, NEW l \in ExporterLabels \cup ImporterLabels,
         Goto(d, c, l), toRun' \subseteq Commands,
         msr' \in [Dirs -> SUBSET Flags], exportType' \in [Dirs -> ExportTypes], latest' = latest,
         dataDir' \in [Dirs -> {"empty", "partial", "streaming"}], files' \subseteq Writes,
         queue' \in [Dirs -> Seq([by : Exporters, event : {"change"} \cup CutoverEvents,
                                  write : 0 .. MaxWrites])],
         done' = done, \A e \in Dirs, k \in Importers : done[e][k] <= Len(queue'[e]),
         slot' \in [Dirs -> [{"source", "target"} -> [exists : BOOLEAN, pending : SUBSET Writes]]],
         db' = db, importType' = importType, kills' = kills, UNCHANGED userVars
  PROVE  TypeOK'
<1>1. pc' \in [Dirs -> [Commands -> ExporterLabels \cup ImporterLabels]]
  BY DEF TypeOK, Goto
<1>2. app' = app /\ written' = written /\ ending' = ending /\ ended' = ended
  BY DEF userVars, endVars
<1> QED
  BY <1>1, <1>2 DEF TypeOK, MSRTypeOK, EndTypeOK

LEMMA DataTypes ==
  ASSUME TypeOK
  PROVE  /\ msr \in [Dirs -> SUBSET Flags] /\ exportType \in [Dirs -> ExportTypes]
         /\ dataDir \in [Dirs -> {"empty", "partial", "streaming"}] /\ files \subseteq Writes
         /\ queue \in [Dirs -> Seq([by : Exporters, event : {"change"} \cup CutoverEvents,
                                    write : 0 .. MaxWrites])]
         /\ done \in [Dirs -> [Importers -> Nat]]
         /\ \A e \in Dirs, k \in Importers : done[e][k] <= Len(queue[e])
         /\ slot \in [Dirs -> [{"source", "target"} -> [exists : BOOLEAN, pending : SUBSET Writes]]]
         /\ db \in [Databases -> SUBSET Writes] /\ toRun \subseteq Commands
BY DEF TypeOK, MSRTypeOK

LEMMA TypesOfRecord ==
  ASSUME TypeOK, NEW d \in Dirs, NEW fs \in SUBSET Flags, Set(d, fs)
  PROVE  msr' \in [Dirs -> SUBSET Flags]
BY DEF TypeOK, MSRTypeOK, Set

(* pg_dump fills the data directory. *)
LEMMA SourceDumps ==
  ASSUME Control, NEW d \in Dirs, ExportSnapshot(d, ES), UNCHANGED userVars
  PROVE  Control'
<1>1. /\ pc[d][ES] = "dump" /\ Goto(d, ES, "exported") /\ toRun' = toRun /\ msr' = msr
      /\ exportType' = exportType /\ latest' = latest /\ importType' = importType /\ kills' = kills
      /\ files' = files /\ queue' = queue /\ done' = done /\ db' = db /\ slot' = slot
      /\ dataDir' = [dataDir EXCEPT ![d] = "partial"]
  BY DEF ExportSnapshot, msrVars
<1>2. TypeOK /\ DirAt(d)
  BY DEF Control
<1>3. /\ SourceExporterCutover("dump", msr[d])
      /\ SourceExporterSlot("dump", msr[d], slot[d]["source"].exists, TRUE)
      /\ SourceExporterSnapshot("dump", msr[d], exportType[d])
      /\ StatusFile("dump", msr[d], dataDir[d], queue[d], TRUE)
      /\ Consistent(d, msr[d], latest) /\ Open
  BY <1>1, SourceExporterThere
<1>4. PcAt(d, ES, "exported") /\ Continues(d, ES, "exported")
  BY <1>1, <1>2, GotoAt, CommandNames DEF Continues
<1>5. dataDir'[d] = "partial" /\ \A e \in Dirs : e # d => dataDir'[e] = dataDir[e]
  BY <1>1, <1>2, DataTypes
<1>6. DataElsewhere(d) /\ OwnSlot(d, ES)
  BY <1>1, <1>5 DEF DataElsewhere, OwnSlot, SlotsStay
<1>7. OwnStep(d, ES, "exported", msr[d], slot[d], exportType[d])
  BY <1>3, StepsFacts, CommandNames DEF OwnStep, SourceExporterCutover, SourceExporterSlot,
     SourceExporterSnapshot, WithSlot, ExporterLabels
<1>8. StatusFile("exported", msr[d], "partial", queue[d], TRUE)
  BY <1>3 DEF StatusFile, SourceExporterSnapshot
<1>9. TypeOK'
  <2>1. dataDir' \in [Dirs -> {"empty", "partial", "streaming"}]
    BY <1>1, <1>2, DataTypes
  <2> QED
    BY <1>1, <1>2, <2>1, DataTypes, TypesKept, CommandNames DEF ExporterLabels
<1>10. EventsRequested(queue[d], msr[d]) /\ (d > 0 => exportType[d] # SNAPSHOT_AND_CHANGES)
       /\ (d = 0 => exportType[d] # CHANGES_ONLY)
  BY <1>2 DEF DirAt, DirectoryAt
<1>11. StatusFile(pc'[d][ES], msr[d], dataDir'[d], queue'[d], TRUE)
  BY <1>1, <1>4, <1>5, <1>8 DEF PcAt
<1>12. MsrAt(d, {}) /\ msr[d] = msr[d] \cup {} /\ ModestFlags(d, ES, {})
  BY <1>1, <1>2, NoRecordChange, NoFlags
<1>13. OwnStep(d, ES, "exported", msr[d], slot'[d], exportType'[d])
       /\ EventsRequested(queue'[d], msr[d]) /\ (d > 0 => exportType'[d] # SNAPSHOT_AND_CHANGES)
       /\ (d = 0 => exportType'[d] # CHANGES_ONLY)
  BY <1>1, <1>7, <1>10
<1> QED
  BY <1>1, <1>3, <1>4, <1>6, <1>9, <1>11, <1>12, <1>13, CommandNames, DataStep

-----------------------------------------------------------------------------
(* Both exporters *)

LEMMA TargetExporterThere ==
  ASSUME Control, NEW d \in Dirs, pc[d][ET] # "off"
  PROVE  /\ TargetExporterCutover(pc[d][ET], msr[d])
         /\ TargetExporterSlot(pc[d][ET], msr[d], slot[d]["target"].exists, Open)
         /\ Consistent(d, msr[d], latest)
         /\ "CutoverProcessedByTargetImporter" \in msr[d]
         /\ "CutoverToTargetRequested" \in msr[d] /\ "ExportDataDone" \in msr[d]
         /\ "ExportDataFromSourceStarted" \in msr[d]
         /\ Open => dataDir[d] = "streaming"
<1>1. d = FbDir /\ Alive(ET)
  BY Mates DEF Alive
<1>2. "CutoverProcessedByTargetImporter" \in msr[d]
  BY <1>1 DEF Control, Places
<1>3. Consistent(d, msr[d], latest)
  BY RecordsConsistent
<1>4. "CutoverToTargetRequested" \in msr[d] /\ "ExportDataDone" \in msr[d]
      /\ "ExportDataFromSourceStarted" \in msr[d]
  BY <1>2, <1>3 DEF Consistent, ForwardFlags
<1>5. /\ TargetExporterCutover(pc[d][ET], msr[d])
      /\ TargetExporterSlot(pc[d][ET], msr[d], slot[d]["target"].exists, Open)
      /\ StatusFile(pc[d][ES], msr[d], dataDir[d], queue[d], Open)
  BY DEF Control, DirAt, ExportersAt, DirectoryAt
<1>6. Open => dataDir[d] = "streaming"
  BY <1>4, <1>5 DEF StatusFile
<1> QED
  BY <1>2, <1>3, <1>4, <1>5, <1>6

(* What is known of a running exporter, unless it streams. *)
LEMMA ExporterThere ==
  ASSUME Control, NEW d \in Dirs, NEW c \in Exporters, pc[d][c] \notin {"off", "stream", "streaming"}
  PROVE  /\ OwnStep(d, c, pc[d][c], msr[d], slot[d], exportType[d])
         /\ StatusFile(pc[d][ES], msr[d], dataDir[d], queue[d], TRUE)
         /\ EventsRequested(queue[d], msr[d])
         /\ Consistent(d, msr[d], latest) /\ Open
         /\ d > 0 => exportType[d] # SNAPSHOT_AND_CHANGES
         /\ d = 0 => exportType[d] # CHANGES_ONLY
         /\ c = ET => "ExportDataDone" \in msr[d] /\ dataDir[d] = "streaming"
<1>1. Open = TRUE /\ c \in Commands
  BY OpenSteps, CommandNames DEF Open
<1>2. DirAt(d) /\ Consistent(d, msr[d], latest)
  BY RecordsConsistent DEF Control
<1>3. pc[d][c] \in StepsOf(c)
  BY <1>1, <1>2 DEF DirAt, DirectoryAt
<1>4. OwnStep(d, c, pc[d][c], msr[d], slot[d], exportType[d])
  BY <1>1, <1>2, <1>3, CommandNames DEF OwnStep, DirAt, ExportersAt
<1>5. c = ET => "ExportDataDone" \in msr[d] /\ dataDir[d] = "streaming"
  BY <1>1, TargetExporterThere
<1> QED
  BY <1>1, <1>2, <1>4, <1>5 DEF DirAt, DirectoryAt

(* The first flush of the status file. *)
LEMMA DebeziumConnected ==
  ASSUME Control, NEW d \in Dirs, NEW c \in Exporters, DebeziumConnects(d, c), UNCHANGED userVars
  PROVE  Control'
<1>1. /\ pc[d][c] = "boot" /\ Goto(d, c, "reached") /\ toRun' = toRun /\ msr' = msr
      /\ exportType' = exportType /\ latest' = latest /\ importType' = importType /\ kills' = kills
      /\ files' = files /\ queue' = queue /\ done' = done /\ db' = db /\ slot' = slot
      /\ dataDir' = [dataDir EXCEPT ![d] = "streaming"]
  BY DEF DebeziumConnects, msrVars
<1>2. TypeOK /\ c \in Commands
  BY CommandNames DEF Control
<1>3. /\ OwnStep(d, c, "boot", msr[d], slot[d], exportType[d])
      /\ EventsRequested(queue'[d], msr[d]) /\ Consistent(d, msr[d], latest) /\ Open
      /\ d > 0 => exportType'[d] # SNAPSHOT_AND_CHANGES
      /\ d = 0 => exportType'[d] # CHANGES_ONLY
      /\ c = ET => "ExportDataDone" \in msr[d]
  BY <1>1, ExporterThere
<1>4. PcAt(d, c, "reached") /\ Continues(d, c, "reached")
  BY <1>1, <1>2, GotoAt DEF Continues
<1>5. dataDir'[d] = "streaming" /\ \A e \in Dirs : e # d => dataDir'[e] = dataDir[e]
  BY <1>1, <1>2, DataTypes
<1>6. DataElsewhere(d) /\ OwnSlot(d, c)
  BY <1>1, <1>5 DEF DataElsewhere, OwnSlot, SlotsStay
<1>7. OwnStep(d, c, "reached", msr[d], slot'[d], exportType'[d]) /\ "ExportDataDone" \in msr[d]
  <2>1. CASE c = ES
    BY <2>1, <1>1, <1>3, StepsFacts, CommandNames DEF OwnStep, SourceExporterCutover,
       SourceExporterSlot, SourceExporterSnapshot, WithSlot, ExporterLabels
  <2>2. CASE c = ET
    BY <2>2, <1>1, <1>3, StepsFacts, CommandNames DEF OwnStep, TargetExporterCutover,
       TargetExporterSlot, WithSlot, ExporterLabels
  <2> QED
    BY <2>1, <2>2, CommandNames
<1>8. StatusFile(pc'[d][ES], msr[d], dataDir'[d], queue'[d], TRUE)
  BY <1>5, <1>7 DEF StatusFile
<1>9. TypeOK'
  <2>1. dataDir' \in [Dirs -> {"empty", "partial", "streaming"}]
    BY <1>1, <1>2, DataTypes
  <2> QED
    BY <1>1, <1>2, <2>1, DataTypes, TypesKept DEF ExporterLabels
<1>10. MsrAt(d, {}) /\ msr[d] = msr[d] \cup {} /\ ModestFlags(d, c, {})
  BY <1>1, <1>2, NoRecordChange, NoFlags
<1> QED
  BY <1>1, <1>3, <1>4, <1>6, <1>7, <1>8, <1>9, <1>10, DataStep

(* Debezium is spawned. *)
LEMMA DebeziumSpawned ==
  ASSUME Control, NEW d \in Dirs, NEW c \in Exporters, StartDebezium(d, c), UNCHANGED userVars
  PROVE  Control'
<1>f. PICK fs : fs = {IF c = ES THEN "ExportDataSourceDebeziumStarted"
                                ELSE "ExportDataTargetDebeziumStarted"}
  OBVIOUS
<1>g. PICK g : g = msr[d] \cup fs
  OBVIOUS
<1>1. /\ pc[d][c] = "debezium" /\ Goto(d, c, "boot") /\ toRun' = toRun /\ Set(d, fs)
      /\ exportType' = exportType /\ latest' = latest /\ importType' = importType /\ kills' = kills
      /\ files' = files /\ queue' = queue /\ done' = done /\ db' = db /\ slot' = slot
      /\ dataDir' = [dataDir EXCEPT ![d] = IF @ = "empty" THEN "partial" ELSE @]
  BY <1>f DEF StartDebezium
<1>2. TypeOK /\ c \in Commands
  BY CommandNames DEF Control
<1>3. /\ OwnStep(d, c, "debezium", msr[d], slot[d], exportType[d])
      /\ StatusFile(pc[d][ES], msr[d], dataDir[d], queue[d], TRUE)
      /\ EventsRequested(queue'[d], msr[d]) /\ Consistent(d, msr[d], latest) /\ Open
      /\ d > 0 => exportType'[d] # SNAPSHOT_AND_CHANGES
      /\ d = 0 => exportType'[d] # CHANGES_ONLY
  BY <1>1, ExporterThere
<1>4. PcAt(d, c, "boot") /\ Continues(d, c, "boot")
  BY <1>1, <1>2, GotoAt DEF Continues
<1>5. /\ dataDir'[d] = IF dataDir[d] = "empty" THEN "partial" ELSE dataDir[d]
      /\ \A e \in Dirs : e # d => dataDir'[e] = dataDir[e]
  BY <1>1, <1>2, DataTypes
<1>6. DataElsewhere(d) /\ OwnSlot(d, c) /\ MsrAt(d, fs)
  BY <1>1, <1>2, <1>5, SetAt DEF DataElsewhere, OwnSlot, SlotsStay
<1>7. OwnStep(d, c, "boot", g, slot'[d], exportType'[d])
  <2>1. CASE c = ES
    <3>1. fs \cap SourceExporterFlags = {}
      BY <1>f, <2>1 DEF SourceExporterFlags
    <3>2. OwnStep(d, c, "boot", msr[d], slot[d], exportType[d])
      BY <2>1, <1>3, StepsFacts, CommandNames DEF OwnStep, SourceExporterCutover,
         SourceExporterSlot, SourceExporterSnapshot, WithSlot, ExporterLabels
    <3> QED
      BY <2>1, <3>1, <3>2, <1>g, <1>1, SourceExporterMore, CommandNames DEF OwnStep
  <2>2. CASE c = ET
    <3>1. fs \cap TargetExporterFlags = {} /\ "FallbackEnabled" \notin fs
      BY <1>f, <2>2 DEF TargetExporterFlags
    <3>2. OwnStep(d, c, "boot", msr[d], slot[d], exportType[d])
      BY <2>2, <1>3, StepsFacts, CommandNames DEF OwnStep, TargetExporterCutover,
         TargetExporterSlot, WithSlot, ExporterLabels
    <3> QED
      BY <2>2, <3>1, <3>2, <1>g, <1>1, TargetExporterMore, CommandNames DEF OwnStep
  <2> QED
    BY <2>1, <2>2, CommandNames
<1>8. StatusFile(pc'[d][ES], g, dataDir'[d], queue'[d], TRUE)
  <2>1. pc'[d][ES] = pc[d][ES] \/ pc'[d][ES] = "boot"
    BY <1>4, CommandNames DEF PcAt
  <2>2. "ExportDataFromSourceStarted" \notin fs
    BY <1>f
  <2>3. dataDir'[d] = "streaming" <=> dataDir[d] = "streaming"
    BY <1>5
  <2>4. queue'[d] = queue[d] /\ StatusFile(pc[d][ES], msr[d], dataDir[d], queue[d], TRUE)
    BY <1>1, <1>3
  <2>5. "boot" \notin {"reached", "streaming", "exitedReached", "exited"}
    OBVIOUS
  <2>6. dataDir'[d] = "streaming" => "ExportDataDone" \in g
    BY <1>g, <2>3, <2>4 DEF StatusFile
  <2>7. "ExportDataFromSourceStarted" \in g => "ExportDataFromSourceStarted" \in msr[d]
    BY <1>g, <2>2
  <2>8. CASE pc'[d][ES] = pc[d][ES]
    BY <2>3, <2>4, <2>6, <2>7, <2>8 DEF StatusFile
  <2>9. CASE pc'[d][ES] = "boot"
    BY <2>3, <2>4, <2>5, <2>6, <2>7, <2>9 DEF StatusFile
  <2> QED
    BY <2>1, <2>8, <2>9
<1>9. ModestFlags(d, c, fs) /\ fs \in SUBSET Flags
  BY <1>f, ImporterFlagFacts, CommandNames DEF ModestFlags, OwnFlags, TargetStreamed,
     PlaceFlags, TargetExporterFlags, SourceExporterFlags, Flags
<1>10. TypeOK'
  <2>1. dataDir' \in [Dirs -> {"empty", "partial", "streaming"}]
    BY <1>1, <1>2, DataTypes
  <2>2. msr' \in [Dirs -> SUBSET Flags]
    BY <1>1, <1>2, <1>9, TypesOfRecord
  <2> QED
    BY <1>1, <1>2, <2>1, <2>2, DataTypes, TypesKept DEF ExporterLabels
<1>11. Consistent(d, g, latest) /\ EventsRequested(queue'[d], g)
  <2>1. fs \subseteq UnwatchedFlags
    BY <1>f DEF UnwatchedFlags
  <2> QED
    BY <1>g, <1>3, <2>1, UnwatchedSet, EventsMore
<1> QED
  BY <1>g, <1>1, <1>3, <1>4, <1>6, <1>7, <1>8, <1>9, <1>10, <1>11, DataStep

SlotValue == [exists : BOOLEAN, pending : SUBSET Writes]

(* A slot is created or dropped in directory d, on database s. *)
LEMMA SlotSet ==
  ASSUME TypeOK, NEW d \in Dirs, NEW c \in Exporters, NEW v \in SlotValue,
         NEW s, s = SourceOf(c), slot' = [slot EXCEPT ![d][s] = v]
  PROVE  /\ slot' \in [Dirs -> [{"source", "target"} -> SlotValue]]
         /\ c = ES => slot'[d]["source"] = v
         /\ c = ET => slot'[d]["target"] = v
         /\ OwnSlot(d, c) /\ \A e \in Dirs : e # d => SlotsStay(e)
<1>e. PICK E : E = {"source", "target"}
  OBVIOUS
<1>1. slot \in [Dirs -> [E -> SlotValue]]
  BY <1>e, DataTypes DEF SlotValue
<1>2. s \in E /\ (c = ES => s = "source") /\ (c = ET => s = "target")
  BY <1>e DEF SourceOf
<1>3. slot' \in [Dirs -> [E -> SlotValue]]
  BY <1>1, <1>2
<1>4. slot'[d][s] = v /\ \A e \in E : e # s => slot'[d][e] = slot[d][e]
  BY <1>1, <1>2
<1>5. \A e \in Dirs : e # d => slot'[e] = slot[e]
  BY <1>1, <1>2
<1>6. c = ES \/ c = ET
  BY CommandNames
<1> QED
  BY <1>e, <1>2, <1>3, <1>4, <1>5, <1>6 DEF OwnSlot, SlotsStay

LEMMA SlotValues ==
  /\ NoSlot \in SlotValue /\ ~NoSlot.exists
  /\ NewSlot \in SlotValue /\ NewSlot.exists
BY DEF NoSlot, NewSlot, SlotValue

LEMMA SlotCreated ==
  ASSUME Control, NEW d \in Dirs, NEW c \in Exporters, CreateReplicationSlot(d, c), UNCHANGED userVars
  PROVE  Control'
<1>1. /\ pc[d][c] = "slot" /\ Goto(d, c, "save") /\ toRun' = toRun /\ msr' = msr
      /\ exportType' = exportType /\ latest' = latest /\ importType' = importType /\ kills' = kills
      /\ dataDir' = dataDir /\ queue' = queue /\ done' = done /\ db' = db
      /\ slot' = [slot EXCEPT ![d][SourceOf(c)] = CreateSlot(d, c)]
      /\ files' = db["source"] \/ files' = files
  BY DEF CreateReplicationSlot, msrVars
<1>2. TypeOK /\ c \in Commands
  BY CommandNames DEF Control
<1>3. /\ OwnStep(d, c, "slot", msr[d], slot[d], exportType[d])
      /\ StatusFile(pc[d][ES], msr[d], dataDir[d], queue[d], TRUE)
      /\ EventsRequested(queue'[d], msr[d]) /\ Consistent(d, msr[d], latest) /\ Open
      /\ d > 0 => exportType'[d] # SNAPSHOT_AND_CHANGES
      /\ d = 0 => exportType'[d] # CHANGES_ONLY
  BY <1>1, ExporterThere
<1>4. PcAt(d, c, "save") /\ Continues(d, c, "save")
  BY <1>1, <1>2, GotoAt DEF Continues
<1>5. CreateSlot(d, c) \in SlotValue /\ CreateSlot(d, c).exists
  <2>1. slot[d]["target"] \in SlotValue
    BY <1>2, DataTypes DEF SlotValue
  <2> QED
    BY <2>1, SlotValues DEF CreateSlot
<1>6. /\ slot' \in [Dirs -> [{"source", "target"} -> SlotValue]]
      /\ c = ES => slot'[d]["source"].exists
      /\ c = ET => slot'[d]["target"].exists
      /\ OwnSlot(d, c) /\ \A e \in Dirs : e # d => SlotsStay(e)
  <2>1. PICK v \in SlotValue : v = CreateSlot(d, c)
    BY <1>5
  <2>2. slot' = [slot EXCEPT ![d][SourceOf(c)] = v] /\ v.exists
    BY <2>1, <1>1, <1>5
  <2> QED
    BY <1>2, <2>2, SlotSet
<1>7. DataElsewhere(d)
  BY <1>1, <1>6 DEF DataElsewhere
<1>8. OwnStep(d, c, "save", msr[d], slot'[d], exportType'[d])
  <2>1. CASE c = ES
    <3>1. SourceExporterCutover("save", msr[d]) /\ "CutoverProcessedBySourceExporter" \notin msr[d]
      BY <2>1, <1>3 DEF OwnStep, SourceExporterCutover, Consistent, ForwardFlags
    <3>2. SourceExporterSlot("save", msr[d], slot'[d]["source"].exists, TRUE)
      BY <2>1, <1>6, <3>1 DEF SourceExporterSlot
    <3>3. SourceExporterSnapshot("save", msr[d], exportType'[d])
      BY <2>1, <1>1, <1>3 DEF OwnStep, SourceExporterSnapshot
    <3> QED
      BY <2>1, <3>1, <3>2, <3>3, StepsFacts, CommandNames DEF OwnStep, ExporterLabels
  <2>2. CASE c = ET
    <3>1. TargetExporterCutover("save", msr[d]) /\ ~TargetProcessed(msr[d])
      BY <2>2, <1>3, ConsistentFacts DEF OwnStep, TargetExporterCutover
    <3>2. TargetExporterSlot("save", msr[d], slot'[d]["target"].exists, TRUE)
      BY <2>2, <1>6, <3>1 DEF TargetExporterSlot
    <3> QED
      BY <2>2, <3>1, <3>2, StepsFacts, CommandNames DEF OwnStep, ExporterLabels
  <2> QED
    BY <2>1, <2>2, CommandNames
<1>9. StatusFile(pc'[d][ES], msr[d], dataDir'[d], queue'[d], TRUE)
  <2>1. pc'[d][ES] = pc[d][ES] \/ pc'[d][ES] = "save"
    BY <1>4, CommandNames DEF PcAt
  <2> QED
    BY <2>1, <1>1, <1>3 DEF StatusFile
<1>10. TypeOK'
  <2>1. files' \subseteq Writes
    BY <1>1, <1>2, DataTypes DEF Databases
  <2>2. "save" \in ExporterLabels \cup ImporterLabels
    BY DEF ExporterLabels
  <2> QED
    BY <1>1, <1>2, <1>6, <2>1, <2>2, DataTypes, TypesKept DEF SlotValue
<1>11. MsrAt(d, {}) /\ msr[d] = msr[d] \cup {} /\ ModestFlags(d, c, {})
  BY <1>1, <1>2, NoRecordChange, NoFlags
<1> QED
  BY <1>1, <1>3, <1>4, <1>6, <1>7, <1>8, <1>9, <1>10, <1>11, DataStep

LEMMA SlotDropped ==
  ASSUME Control, NEW d \in Dirs, NEW c \in Exporters, DeleteReplicationSlot(d, c), UNCHANGED userVars
  PROVE  Control'
<1>1. /\ pc[d][c] = "drop" /\ Goto(d, c, "mark") /\ toRun' = toRun /\ msr' = msr
      /\ exportType' = exportType /\ latest' = latest /\ importType' = importType /\ kills' = kills
      /\ dataDir' = dataDir /\ files' = files /\ queue' = queue /\ done' = done /\ db' = db
      /\ slot' = [slot EXCEPT ![d][SourceOf(c)] = NoSlot]
  BY DEF DeleteReplicationSlot, DroppedSlot, msrVars
<1>2. TypeOK /\ c \in Commands
  BY CommandNames DEF Control
<1>3. /\ OwnStep(d, c, "drop", msr[d], slot[d], exportType[d])
      /\ StatusFile(pc[d][ES], msr[d], dataDir[d], queue[d], TRUE)
      /\ EventsRequested(queue'[d], msr[d]) /\ Consistent(d, msr[d], latest) /\ Open
      /\ d > 0 => exportType'[d] # SNAPSHOT_AND_CHANGES
      /\ d = 0 => exportType'[d] # CHANGES_ONLY
  BY <1>1, ExporterThere
<1>4. PcAt(d, c, "mark") /\ Continues(d, c, "mark")
  BY <1>1, <1>2, GotoAt DEF Continues
<1>6. /\ slot' \in [Dirs -> [{"source", "target"} -> SlotValue]]
      /\ c = ES => ~slot'[d]["source"].exists
      /\ c = ET => ~slot'[d]["target"].exists
      /\ OwnSlot(d, c) /\ \A e \in Dirs : e # d => SlotsStay(e)
  BY <1>1, <1>2, SlotSet, SlotValues
<1>7. DataElsewhere(d)
  BY <1>1, <1>6 DEF DataElsewhere
<1>8. OwnStep(d, c, "mark", msr[d], slot'[d], exportType'[d])
  <2>1. CASE c = ES
    <3>1. SourceExporterCutover("mark", msr[d]) /\ "CutoverDetectedBySourceExporter" \in msr[d]
      BY <2>1, <1>3 DEF OwnStep, SourceExporterCutover
    <3>2. SourceExporterSlot("mark", msr[d], slot'[d]["source"].exists, TRUE)
      BY <2>1, <1>6, <3>1 DEF SourceExporterSlot, WithSlot
    <3>3. SourceExporterSnapshot("mark", msr[d], exportType'[d])
      BY <2>1, <1>1, <1>3 DEF OwnStep, SourceExporterSnapshot, WithSlot
    <3> QED
      BY <2>1, <3>1, <3>2, <3>3, StepsFacts, CommandNames DEF OwnStep, ExporterLabels
  <2>2. CASE c = ET
    <3>1. TargetExporterCutover("mark", msr[d]) /\ TargetDetected(msr[d])
      BY <2>2, <1>3 DEF OwnStep, TargetExporterCutover, ByRole, TargetDetected
    <3>2. TargetExporterSlot("mark", msr[d], slot'[d]["target"].exists, TRUE)
      BY <2>2, <1>6, <3>1 DEF TargetExporterSlot, WithSlot
    <3> QED
      BY <2>2, <3>1, <3>2, StepsFacts, CommandNames DEF OwnStep, ExporterLabels
  <2> QED
    BY <2>1, <2>2, CommandNames
<1>9. StatusFile(pc'[d][ES], msr[d], dataDir'[d], queue'[d], TRUE)
  <2>1. pc'[d][ES] = pc[d][ES] \/ pc'[d][ES] = "mark"
    BY <1>4, CommandNames DEF PcAt
  <2> QED
    BY <2>1, <1>1, <1>3 DEF StatusFile
<1>10. TypeOK'
  <2>1. files' \subseteq Writes
    BY <1>1, <1>2, DataTypes
  <2>2. "mark" \in ExporterLabels \cup ImporterLabels
    BY DEF ExporterLabels
  <2> QED
    BY <1>1, <1>2, <1>6, <2>1, <2>2, DataTypes, TypesKept DEF SlotValue
<1>11. MsrAt(d, {}) /\ msr[d] = msr[d] \cup {} /\ ModestFlags(d, c, {})
  BY <1>1, <1>2, NoRecordChange, NoFlags
<1> QED
  BY <1>1, <1>3, <1>4, <1>6, <1>7, <1>8, <1>9, <1>10, <1>11, DataStep

-----------------------------------------------------------------------------
(* Export data from target *)

(* The name of the slot is saved once the slot is there. *)
LEMMA TargetSavesSlotName ==
  ASSUME Control, NEW d \in Dirs, SaveSlotName(d, ET), UNCHANGED userVars
  PROVE  Control'
<1>x. PICK x : x = "YBReplicationSlotName"
  OBVIOUS
<1>f. PICK fs : fs = {x}
  OBVIOUS
<1>g. PICK g : g = msr[d] \cup fs
  OBVIOUS
<1>1. pc[d][ET] \in {"save"} /\ toRun' = toRun
      /\ UNCHANGED <<exportType, latest, importType, kills, dataVars, userVars>>
  BY DEF SaveSlotName
<1>2. PICK l \in {"debezium"} : Goto(d, ET, l)
  BY DEF SaveSlotName
<1>3. /\ OwnStep(d, ET, pc[d][ET], msr[d], slot[d], exportType[d])
      /\ Consistent(d, msr[d], latest) /\ "ExportDataDone" \in msr[d]
      /\ TargetExporterCutover(pc[d][ET], msr[d])
      /\ TargetExporterSlot(pc[d][ET], msr[d], slot[d]["target"].exists, TRUE)
  <2>1. ET \in Exporters /\ pc[d][ET] \notin {"off", "stream", "streaming"}
    BY <1>1, CommandNames
  <2>2. OwnStep(d, ET, pc[d][ET], msr[d], slot[d], exportType[d])
        /\ Consistent(d, msr[d], latest) /\ "ExportDataDone" \in msr[d]
    BY <2>1, ExporterThere
  <2> QED
    BY <2>2 DEF OwnStep
<1>4. Set(d, fs)
  BY <1>x, <1>f, RoleFacts, ExporterFlagFacts DEF SaveSlotName
<1>5. Consistent(d, g, latest)
  <2>1. fs \subseteq UnwatchedFlags
    BY <1>x, <1>f DEF UnwatchedFlags
  <2> QED
    BY <1>g, <1>3, <2>1, UnwatchedSet
<1>6. TargetExporterCutover(l, g)
  BY <1>x, <1>f, <1>g, <1>1, <1>2, <1>3
  DEF TargetExporterCutover, ByRole, WayBack, TargetDetected
<1>7. TargetExporterSlot(l, g, slot[d]["target"].exists, TRUE)
  <2>1. ~TargetProcessed(msr[d]) \/ ~slot[d]["target"].exists
    BY <1>3 DEF TargetExporterSlot
  <2> QED
    BY <1>x, <1>f, <1>g, <1>1, <1>2, <1>3, <2>1
    DEF TargetExporterSlot, TargetExporterCutover, TargetProcessed, TargetDetected, TargetStreamed,
        ByRole, WithSlot
<1>8. OwnStep(d, ET, l, g, slot[d], exportType[d])
  BY <1>2, <1>6, <1>7, StepsFacts DEF OwnStep, Importers, ExporterLabels
<1>9. ModestFlags(d, ET, fs)
  BY <1>x, <1>f, ImporterFlagFacts, CommandNames
  DEF ModestFlags, OwnFlags, TargetStreamed, PlaceFlags, SourceExporterFlags, Flags
<1>10. GoesTo(d, ET, l)
  BY <1>1, <1>2 DEF GoesTo, ExporterLabels
<1> QED
  BY <1>g, <1>1, <1>4, <1>5, <1>8, <1>9, <1>10, CommandNames, RecordStep

(* Streaming has begun. *)
LEMMA TargetStreams ==
  ASSUME Control, NEW d \in Dirs, HandleSnapshotComplete(d, ET), UNCHANGED userVars
  PROVE  Control'
<1>x. PICK x : \/ "FallbackEnabled" \in msr[d] /\ x = "ExportFromTargetFallBackStarted"
               \/ "FallbackEnabled" \notin msr[d] /\ x = "ExportFromTargetFallForwardStarted"
  OBVIOUS
<1>f. PICK fs : fs = {x}
  OBVIOUS
<1>g. PICK g : g = msr[d] \cup fs
  OBVIOUS
<1>1. pc[d][ET] \in {"reached", "exitedReached"} /\ toRun' = toRun
      /\ UNCHANGED <<exportType, latest, importType, kills, dataVars, userVars>>
  BY DEF HandleSnapshotComplete
<1>2. PICK l \in {"streaming", "exited"} : Goto(d, ET, l) /\ (pc[d][ET] = "reached" => l = "streaming") /\ (pc[d][ET] = "exitedReached" => l = "exited")
  BY DEF HandleSnapshotComplete
<1>3. /\ OwnStep(d, ET, pc[d][ET], msr[d], slot[d], exportType[d])
      /\ Consistent(d, msr[d], latest) /\ "ExportDataDone" \in msr[d]
      /\ TargetExporterCutover(pc[d][ET], msr[d])
      /\ TargetExporterSlot(pc[d][ET], msr[d], slot[d]["target"].exists, TRUE)
  <2>1. ET \in Exporters /\ pc[d][ET] \notin {"off", "stream", "streaming"}
    BY <1>1, CommandNames
  <2>2. OwnStep(d, ET, pc[d][ET], msr[d], slot[d], exportType[d])
        /\ Consistent(d, msr[d], latest) /\ "ExportDataDone" \in msr[d]
    BY <2>1, ExporterThere
  <2> QED
    BY <2>2 DEF OwnStep
<1>4. Set(d, fs)
  BY <1>x, <1>f, RoleFacts, ExporterFlagFacts DEF HandleSnapshotComplete, StartedFlag
<1>5. Consistent(d, g, latest)
  <2>1. fs \subseteq UnwatchedFlags
    BY <1>x, <1>f DEF UnwatchedFlags
  <2> QED
    BY <1>g, <1>3, <2>1, UnwatchedSet
<1>6. TargetExporterCutover(l, g)
  BY <1>x, <1>f, <1>g, <1>1, <1>2, <1>3
  DEF TargetExporterCutover, ByRole, WayBack, TargetDetected
<1>7. TargetExporterSlot(l, g, slot[d]["target"].exists, TRUE)
  <2>1. ~TargetProcessed(msr[d]) \/ ~slot[d]["target"].exists
    BY <1>3 DEF TargetExporterSlot
  <2> QED
    BY <1>x, <1>f, <1>g, <1>1, <1>2, <1>3, <2>1
    DEF TargetExporterSlot, TargetExporterCutover, TargetProcessed, TargetDetected, TargetStreamed,
        ByRole, WithSlot
<1>8. OwnStep(d, ET, l, g, slot[d], exportType[d])
  BY <1>2, <1>6, <1>7, StepsFacts DEF OwnStep, Importers, ExporterLabels
<1>9. ModestFlags(d, ET, fs)
  BY <1>x, <1>f, ImporterFlagFacts, CommandNames
  DEF ModestFlags, OwnFlags, TargetStreamed, PlaceFlags, SourceExporterFlags, Flags
<1>10. GoesTo(d, ET, l)
  BY <1>1, <1>2 DEF GoesTo, ExporterLabels
<1> QED
  BY <1>g, <1>1, <1>4, <1>5, <1>8, <1>9, <1>10, CommandNames, RecordStep

(* Debezium has stopped at the cutover. *)
LEMMA TargetDetectsCutover ==
  ASSUME Control, NEW d \in Dirs, UpdateCutoverDetectedFlag(d, ET), UNCHANGED userVars
  PROVE  Control'
<1>x. PICK x : \/ "FallbackEnabled" \in msr[d] /\ x = "CutoverDetectedByTargetFBExporter"
               \/ "FallbackEnabled" \notin msr[d] /\ x = "CutoverDetectedByTargetFFExporter"
  OBVIOUS
<1>f. PICK fs : fs = {x}
  OBVIOUS
<1>g. PICK g : g = msr[d] \cup fs
  OBVIOUS
<1>1. pc[d][ET] \in {"exited"} /\ toRun' = toRun
      /\ UNCHANGED <<exportType, latest, importType, kills, dataVars, userVars>>
  BY DEF UpdateCutoverDetectedFlag
<1>2. PICK l \in {"drop"} : Goto(d, ET, l)
  BY DEF UpdateCutoverDetectedFlag
<1>3. /\ OwnStep(d, ET, pc[d][ET], msr[d], slot[d], exportType[d])
      /\ Consistent(d, msr[d], latest) /\ "ExportDataDone" \in msr[d]
      /\ TargetExporterCutover(pc[d][ET], msr[d])
      /\ TargetExporterSlot(pc[d][ET], msr[d], slot[d]["target"].exists, TRUE)
  <2>1. ET \in Exporters /\ pc[d][ET] \notin {"off", "stream", "streaming"}
    BY <1>1, CommandNames
  <2>2. OwnStep(d, ET, pc[d][ET], msr[d], slot[d], exportType[d])
        /\ Consistent(d, msr[d], latest) /\ "ExportDataDone" \in msr[d]
    BY <2>1, ExporterThere
  <2> QED
    BY <2>2 DEF OwnStep
<1>4. Set(d, fs)
  BY <1>x, <1>f, RoleFacts, ExporterFlagFacts DEF UpdateCutoverDetectedFlag
<1>5. Consistent(d, g, latest)
  <2>1. Justified(x, msr[d])
    BY <1>x, <1>1, <1>3 DEF Justified, TargetExporterCutover, ByRole
  <2>2. g = msr[d] \cup {x} /\ x \notin TurningFlags
        /\ x # "RestartDataMigrationSourceTargetNextIteration" /\ x # "NextIterationInitialized"
    BY <1>x, <1>f, <1>g DEF TurningFlags, PlaceFlags
  <2> QED
    BY <1>3, <2>1, <2>2, JustifiedSet
<1>6. TargetExporterCutover(l, g)
  BY <1>x, <1>f, <1>g, <1>1, <1>2, <1>3
  DEF TargetExporterCutover, ByRole, WayBack, TargetDetected
<1>7. TargetExporterSlot(l, g, slot[d]["target"].exists, TRUE)
  <2>1. ~TargetProcessed(msr[d]) \/ ~slot[d]["target"].exists
    BY <1>3 DEF TargetExporterSlot
  <2> QED
    BY <1>x, <1>f, <1>g, <1>1, <1>2, <1>3, <2>1
    DEF TargetExporterSlot, TargetExporterCutover, TargetProcessed, TargetDetected, TargetStreamed,
        ByRole, WithSlot
<1>8. OwnStep(d, ET, l, g, slot[d], exportType[d])
  BY <1>2, <1>6, <1>7, StepsFacts DEF OwnStep, Importers, ExporterLabels
<1>9. ModestFlags(d, ET, fs)
  BY <1>x, <1>f, ImporterFlagFacts, CommandNames
  DEF ModestFlags, OwnFlags, TargetStreamed, PlaceFlags, SourceExporterFlags, Flags
<1>10. GoesTo(d, ET, l)
  BY <1>1, <1>2 DEF GoesTo, ExporterLabels
<1> QED
  BY <1>g, <1>1, <1>4, <1>5, <1>8, <1>9, <1>10, CommandNames, RecordStep

(* The slot is gone and the cutover processed. *)
LEMMA TargetProcessedCutover ==
  ASSUME Control, NEW d \in Dirs, MarkProcessedByExporter(d, ET), UNCHANGED userVars
  PROVE  Control'
<1>x. PICK x : \/ "FallbackEnabled" \in msr[d] /\ x = "CutoverToSourceProcessedByTargetExporter"
               \/ "FallbackEnabled" \notin msr[d] /\ x = "CutoverToSourceReplicaProcessedByTargetExporter"
  OBVIOUS
<1>f. PICK fs : fs = {x}
  OBVIOUS
<1>g. PICK g : g = msr[d] \cup fs
  OBVIOUS
<1>1. pc[d][ET] \in {"mark"} /\ toRun' = toRun
      /\ UNCHANGED <<exportType, latest, importType, kills, dataVars, userVars>>
  BY DEF MarkProcessedByExporter
<1>2. PICK l \in {"further"} : Goto(d, ET, l)
  BY DEF MarkProcessedByExporter
<1>3. /\ OwnStep(d, ET, pc[d][ET], msr[d], slot[d], exportType[d])
      /\ Consistent(d, msr[d], latest) /\ "ExportDataDone" \in msr[d]
      /\ TargetExporterCutover(pc[d][ET], msr[d])
      /\ TargetExporterSlot(pc[d][ET], msr[d], slot[d]["target"].exists, TRUE)
  <2>1. ET \in Exporters /\ pc[d][ET] \notin {"off", "stream", "streaming"}
    BY <1>1, CommandNames
  <2>2. OwnStep(d, ET, pc[d][ET], msr[d], slot[d], exportType[d])
        /\ Consistent(d, msr[d], latest) /\ "ExportDataDone" \in msr[d]
    BY <2>1, ExporterThere
  <2> QED
    BY <2>2 DEF OwnStep
<1>4. Set(d, fs)
  <2>1. Set(d, {x, "ExportDataDone"})
    BY <1>x, RoleFacts, ExporterFlagFacts DEF MarkProcessedByExporter
  <2>2. msr[d] \cup {x, "ExportDataDone"} = msr[d] \cup fs
    BY <1>f, <1>3
  <2> QED
    BY <2>1, <2>2 DEF Set
<1>5. Consistent(d, g, latest)
  <2>1. Justified(x, msr[d])
    BY <1>x, <1>1, <1>3 DEF Justified, TargetExporterCutover, ByRole
  <2>2. g = msr[d] \cup {x} /\ x \notin TurningFlags
        /\ x # "RestartDataMigrationSourceTargetNextIteration" /\ x # "NextIterationInitialized"
    BY <1>x, <1>f, <1>g DEF TurningFlags, PlaceFlags
  <2> QED
    BY <1>3, <2>1, <2>2, JustifiedSet
<1>6. TargetExporterCutover(l, g)
  BY <1>x, <1>f, <1>g, <1>1, <1>2, <1>3
  DEF TargetExporterCutover, ByRole, WayBack, TargetDetected
<1>7. TargetExporterSlot(l, g, slot[d]["target"].exists, TRUE)
  <2>1. ~TargetProcessed(msr[d]) \/ ~slot[d]["target"].exists
    BY <1>3 DEF TargetExporterSlot
  <2> QED
    BY <1>x, <1>f, <1>g, <1>1, <1>2, <1>3, <2>1
    DEF TargetExporterSlot, TargetExporterCutover, TargetProcessed, TargetDetected, TargetStreamed,
        ByRole, WithSlot
<1>8. OwnStep(d, ET, l, g, slot[d], exportType[d])
  BY <1>2, <1>6, <1>7, StepsFacts DEF OwnStep, Importers, ExporterLabels
<1>9. ModestFlags(d, ET, fs)
  BY <1>x, <1>f, ImporterFlagFacts, CommandNames
  DEF ModestFlags, OwnFlags, TargetStreamed, PlaceFlags, SourceExporterFlags, Flags
<1>10. GoesTo(d, ET, l)
  BY <1>1, <1>2 DEF GoesTo, ExporterLabels
<1> QED
  BY <1>g, <1>1, <1>4, <1>5, <1>8, <1>9, <1>10, CommandNames, RecordStep

-----------------------------------------------------------------------------
(* Commands that start and end *)

(* Commands of directory e are where they were, at the start or gone. *)
Rests(e) ==
  /\ \A k \in Commands : pc'[e][k] \in {pc[e][k], "off", "init"}
  /\ e > 0 => pc'[e][SR] = "off"
  /\ e > latest => \A k \in Commands : pc'[e][k] = "off"

(* Nothing but processes changes. *)
OnlyProcesses ==
  /\ msr' = msr /\ exportType' = exportType /\ latest' = latest
  /\ dataDir' = dataDir /\ queue' = queue /\ done' = done /\ slot' = slot
  /\ app' = app /\ ending' = ending /\ ended' = ended

LEMMA RestsKept ==
  ASSUME Control, NEW e \in Dirs, Rests(e), OnlyProcesses
  PROVE  DirAt(e)'
<1>1. DirAt(e) /\ Open' = Open /\ \A k \in Commands : pc'[e][k] \in {pc[e][k], "off", "init"}
  BY DEF Control, Open, Rests, OnlyProcesses
<1>2. FlagsAt(e)'
  BY <1>1 DEF DirAt, FlagsAt, OnlyProcesses
<1>3. SourceExporterCutover(pc'[e][ES], msr[e])
      /\ SourceExporterSlot(pc'[e][ES], msr[e], slot[e]["source"].exists, Open)
      /\ SourceExporterSnapshot(pc'[e][ES], msr[e], exportType[e])
  <2>1. /\ SourceExporterCutover(pc[e][ES], msr[e])
        /\ SourceExporterSlot(pc[e][ES], msr[e], slot[e]["source"].exists, Open)
        /\ SourceExporterSnapshot(pc[e][ES], msr[e], exportType[e])
        /\ pc'[e][ES] \in {pc[e][ES], "off", "init"}
    BY <1>1, CommandNames DEF DirAt, ExportersAt
  <2>2. CASE pc'[e][ES] = pc[e][ES]
    BY <2>1, <2>2
  <2>3. CASE pc'[e][ES] \in {"off", "init"}
    BY <2>1, <2>3 DEF SourceExporterCutover, SourceExporterSlot, SourceExporterSnapshot, WithSlot
  <2> QED
    BY <2>1, <2>2, <2>3
<1>4. TargetExporterCutover(pc'[e][ET], msr[e])
      /\ TargetExporterSlot(pc'[e][ET], msr[e], slot[e]["target"].exists, Open)
  <2>1. /\ TargetExporterCutover(pc[e][ET], msr[e])
        /\ TargetExporterSlot(pc[e][ET], msr[e], slot[e]["target"].exists, Open)
        /\ pc'[e][ET] \in {pc[e][ET], "off", "init"}
    BY <1>1, CommandNames DEF DirAt, ExportersAt
  <2>2. CASE pc'[e][ET] = pc[e][ET]
    BY <2>1, <2>2
  <2>3. CASE pc'[e][ET] \in {"off", "init"}
    BY <2>1, <2>3 DEF TargetExporterCutover, TargetExporterSlot, WithSlot
  <2> QED
    BY <2>1, <2>2, <2>3
<1>5. ExportersAt(e)'
  BY <1>1, <1>3, <1>4 DEF ExportersAt, OnlyProcesses
<1>6. ImportersAt(e)'
  <2>1. ASSUME NEW k \in Importers
        PROVE  ImporterKnows(pc'[e][k], msr[e], DetectedBy(k), ProcessedBy(k))
    <3>1. ImporterKnows(pc[e][k], msr[e], DetectedBy(k), ProcessedBy(k))
          /\ pc'[e][k] \in {pc[e][k], "off", "init"}
      BY <1>1, CommandNames DEF DirAt, ImportersAt
    <3> QED
      BY <3>1 DEF ImporterKnows
  <2>2. NextIterationSetUp(e, pc'[e][IS], msr[e], latest)
    <3>1. NextIterationSetUp(e, pc[e][IS], msr[e], latest) /\ pc'[e][IS] \in {pc[e][IS], "off", "init"}
      BY <1>1, CommandNames DEF DirAt, ImportersAt
    <3> QED
      BY <3>1 DEF NextIterationSetUp
  <2> QED
    BY <2>1, <2>2 DEF ImportersAt, OnlyProcesses
<1>7. DirectoryAt(e)'
  <2>1. \A k \in Commands : pc'[e][k] \in StepsOf(k)
    <3>1. \A k \in Commands : "off" \in StepsOf(k) /\ "init" \in StepsOf(k)
      BY CommandNames, StepsFacts DEF ExporterLabels, ImporterLabels
    <3> QED
      BY <1>1, <3>1 DEF DirAt, DirectoryAt
  <2>2. StatusFile(pc'[e][ES], msr[e], dataDir[e], queue[e], Open)
    <3>1. StatusFile(pc[e][ES], msr[e], dataDir[e], queue[e], Open)
          /\ pc'[e][ES] \in {pc[e][ES], "off", "init"}
      BY <1>1, CommandNames DEF DirAt, DirectoryAt
    <3> QED
      BY <3>1 DEF StatusFile
  <2>3. /\ e > 0 => exportType[e] # SNAPSHOT_AND_CHANGES
        /\ e = 0 => exportType[e] # CHANGES_ONLY
        /\ EventsRequested(queue[e], msr[e])
    BY <1>1 DEF DirAt, DirectoryAt
  <2>4. e > 0 => pc'[e][SR] = "off"
    BY DEF Rests
  <2> QED
    BY <1>1, <2>1, <2>2, <2>3, <2>4 DEF DirectoryAt, OnlyProcesses
<1>8. FutureAt(e)'
  BY <1>1 DEF DirAt, FutureAt, OnlyProcesses, Rests
<1> QED
  BY <1>2, <1>5, <1>6, <1>7, <1>8 DEF DirAt

(* An exporter that ends for good has dropped its slot. *)
LEMMA EndsKept ==
  ASSUME Control, Open, NEW d \in Dirs, NEW c \in Commands, Exit(d, c), pc[d][c] # "off",
         c = ES => ~slot[d]["source"].exists, c = ET => ~slot[d]["target"].exists,
         UNCHANGED <<msrVars, importType, kills, dataVars, userVars>>
  PROVE  Control'
<1>0. /\ TypeOK /\ msr' = msr /\ exportType' = exportType /\ latest' = latest
      /\ dataDir' = dataDir /\ files' = files /\ queue' = queue /\ done' = done /\ db' = db
      /\ slot' = slot /\ app' = app /\ written' = written /\ ending' = ending /\ ended' = ended
      /\ importType' = importType /\ kills' = kills /\ toRun' = toRun /\ Goto(d, c, "off")
  BY DEF Control, msrVars, dataVars, userVars, endVars, Exit
<1>1. PcAt(d, c, "off") /\ Ends(d, c)
  BY <1>0, GotoAt DEF Ends
<1>2. MsrAt(d, {})
  BY <1>0, NoRecordChange
<1>3. Elsewhere(d)
  BY <1>0, <1>1 DEF Elsewhere, SlotsStay, PcAt
<1>4. ModestStep(d, c, {})
  BY <1>0, <1>2, <1>3, NoFlags DEF ModestStep, ModestFlags
<1>5. Chains' /\ Places' /\ AppPlace'
  BY <1>1, <1>4, ChainsKept, PlacesKept, AppPlaceKept
<1>6. Replica'
  <2>1. PICK l : l = "off"
    OBVIOUS
  <2>2. c = SR => \/ l \in {"off", "init", "enable"} \/ pc[d][c] \notin {"off", "init", "enable"}
                   \/ "FallForwardEnabled" \in msr'[d]
    BY <2>1
  <2> QED
    BY <1>1, <1>4, <2>2, ReplicaKept
<1>7. Owners'
  <2>1. FbDir' = FbDir /\ latest' = latest /\ Open' = Open
    BY <1>0 DEF FbDir, Open
  <2>2. \A k \in Commands : (Alive(k)' => Alive(k)) /\ (k # c /\ Alive(k) => Alive(k)')
    BY <1>0, <1>1 DEF PcAt, Alive
  <2>3. ASSUME NEW e \in Dirs, slot[e]["source"].exists
        PROVE  e = latest /\ ~Alive(IS)' /\ Alive(ES)'
    <3>1. e = latest /\ ~Alive(IS) /\ Alive(ES)
      BY <2>3 DEF Control, Owners
    <3>2. c # ES
      BY <2>3, <3>1, Mates
    <3> QED
      BY <3>1, <3>2, <2>2, CommandNames
  <2>4. ASSUME NEW e \in Dirs, slot[e]["target"].exists
        PROVE  e = FbDir /\ ~Alive(IT)' /\ Alive(ET)'
    <3>1. e = FbDir /\ ~Alive(IT) /\ Alive(ET)
      BY <2>4 DEF Control, Owners
    <3>2. c # ET
      BY <2>4, <3>1, Mates
    <3> QED
      BY <3>1, <3>2, <2>2, CommandNames
  <2> QED
    BY <1>0, <2>1, <2>3, <2>4 DEF Owners
<1>8. Ending'
  BY <1>0 DEF Control, Ending, Open
<1>9. ASSUME NEW e \in Dirs PROVE DirAt(e)'
  <2>1. DirAt(e)
    BY DEF Control
  <2>2. Rests(e)
    BY <1>0, <1>1, <2>1, CommandNames DEF Rests, PcAt, DirAt, DirectoryAt, FutureAt
  <2> QED
    BY <1>0, <2>2, RestsKept DEF OnlyProcesses
<1>10. TypeOK'
  <2>1. "off" \in ExporterLabels \cup ImporterLabels
    BY DEF ExporterLabels
  <2> QED
    BY <1>0, <2>1, DataTypes, TypesKept
<1> QED
  BY <1>5, <1>6, <1>7, <1>8, <1>9, <1>10 DEF Control

LEMMA OwnStepOff ==
  ASSUME NEW d, NEW c \in Commands, NEW l, NEW f, NEW x, NEW type, OwnStep(d, c, l, f, x, type)
  PROVE  OwnStep(d, c, "off", f, x, type)
<1>1. "off" \in StepsOf(c)
  BY CommandNames, StepsFacts DEF ExporterLabels, ImporterLabels
<1>2. CASE c = ES
  BY <1>1, <1>2, CommandNames DEF OwnStep, SourceExporterCutover, SourceExporterSlot,
     SourceExporterSnapshot, WithSlot
<1>3. CASE c = ET
  BY <1>1, <1>3, CommandNames DEF OwnStep, TargetExporterCutover, TargetExporterSlot, WithSlot
<1>4. CASE c \in Importers
  BY <1>1, <1>4, CommandNames DEF OwnStep, ImporterKnows, NextIterationSetUp
<1> QED
  BY <1>2, <1>3, <1>4, CommandNames

LEMMA StatusFileOff ==
  ASSUME NEW l, NEW f, NEW dir, NEW q, NEW open, StatusFile(l, f, dir, q, open)
  PROVE  StatusFile("off", f, dir, q, open)
BY DEF StatusFile

(* An exporter that asks to be run again. *)
LEMMA ExporterFails ==
  ASSUME Control, NEW d \in Dirs, NEW c \in Exporters, pc[d][c] \notin {"off", "stream", "streaming"},
         ErrExit(d, c), UNCHANGED <<msrVars, importType, kills, dataVars, userVars>>
  PROVE  Control'
<1>1. /\ OwnStep(d, c, pc[d][c], msr[d], slot[d], exportType[d]) /\ c \in Commands
      /\ StatusFile(pc[d][ES], msr[d], dataDir[d], queue[d], TRUE)
  BY ExporterThere, CommandNames
<1>2. GoesTo(d, c, "off")
  BY DEF ErrExit, GoesTo, ExporterLabels
<1> QED
  BY <1>1, <1>2, OwnStepOff, StatusFileOff, PlainStep

(* An exporter's rerun after its cutover was processed. *)
LEMMA ExporterProcessed ==
  ASSUME Control, NEW d \in Dirs, NEW c \in Exporters, pc[d][c] \notin {"off", "stream", "streaming"},
         ProcessedFlag(Role(d, c)) \in msr[d]
  PROVE  /\ c = ES => ~slot[d]["source"].exists /\ "CutoverProcessedBySourceExporter" \in msr[d]
         /\ c = ET => /\ ~slot[d]["target"].exists
                      /\ ByRole(msr[d], "CutoverToSourceProcessedByTargetExporter",
                                        "CutoverToSourceReplicaProcessedByTargetExporter")
<1>1. OwnStep(d, c, pc[d][c], msr[d], slot[d], exportType[d])
  BY ExporterThere
<1>2. ASSUME c = ES
      PROVE  ~slot[d]["source"].exists /\ "CutoverProcessedBySourceExporter" \in msr[d]
  <2>1. "CutoverProcessedBySourceExporter" \in msr[d]
    BY <1>2, RoleFacts, ExporterFlagFacts
  <2> QED
    BY <1>1, <1>2, <2>1 DEF OwnStep, SourceExporterSlot
<1>3. ASSUME c = ET
      PROVE  /\ ~slot[d]["target"].exists
             /\ ByRole(msr[d], "CutoverToSourceProcessedByTargetExporter",
                               "CutoverToSourceReplicaProcessedByTargetExporter")
  <2>1. ByRole(msr[d], "CutoverToSourceProcessedByTargetExporter",
                       "CutoverToSourceReplicaProcessedByTargetExporter")
    BY <1>3, RoleFacts, ExporterFlagFacts DEF ByRole
  <2>2. TargetProcessed(msr[d])
    BY <2>1 DEF ByRole, TargetProcessed
  <2> QED
    BY <1>1, <1>3, <2>1, <2>2 DEF OwnStep, TargetExporterSlot
<1> QED
  BY <1>2, <1>3

(* A target exporter that is not refused has a way back. *)
LEMMA ExporterGoesFurther ==
  ASSUME Control, NEW d \in Dirs, NEW c \in Exporters, pc[d][c] \notin {"off", "stream", "streaming"},
         ProcessedFlag(Role(d, c)) \in msr[d], c = ET => WayBack(msr[d]),
         NEW l, l = "further" \/ (c = ET /\ l = "waitNext"), Goto(d, c, l), toRun' = toRun,
         UNCHANGED <<msrVars, importType, kills, dataVars, userVars>>
  PROVE  Control'
<1>1. /\ OwnStep(d, c, pc[d][c], msr[d], slot[d], exportType[d]) /\ c \in Commands
      /\ StatusFile(pc[d][ES], msr[d], dataDir[d], queue[d], TRUE)
  BY ExporterThere, CommandNames
<1>2. GoesTo(d, c, l)
  BY CommandNames DEF GoesTo, ExporterLabels
<1>3. CASE c = ES
  <2>1. ~slot[d]["source"].exists /\ "CutoverProcessedBySourceExporter" \in msr[d] /\ l = "further"
    BY <1>3, ExporterProcessed
  <2>2. SourceExporterCutover(l, msr[d]) /\ SourceExporterSlot(l, msr[d], slot[d]["source"].exists, TRUE)
        /\ SourceExporterSnapshot(l, msr[d], exportType[d])
    BY <1>1, <1>3, <2>1 DEF OwnStep, SourceExporterCutover, SourceExporterSlot,
       SourceExporterSnapshot, WithSlot
  <2>3. OwnStep(d, c, l, msr[d], slot[d], exportType[d])
    BY <1>3, <2>1, <2>2, StepsFacts, CommandNames DEF OwnStep, ExporterLabels
  <2>4. StatusFile(l, msr[d], dataDir[d], queue[d], TRUE)
    BY <1>1, <2>1 DEF StatusFile
  <2> QED
    BY <1>1, <1>2, <2>3, <2>4, PlainStep
<1>4. CASE c = ET
  <2>1. ~slot[d]["target"].exists
        /\ ByRole(msr[d], "CutoverToSourceProcessedByTargetExporter",
                          "CutoverToSourceReplicaProcessedByTargetExporter")
    BY <1>4, ExporterProcessed
  <2>2. TargetExporterCutover(l, msr[d]) /\ TargetExporterSlot(l, msr[d], slot[d]["target"].exists, TRUE)
    BY <1>1, <1>4, <2>1 DEF OwnStep, TargetExporterCutover, TargetExporterSlot, WithSlot
  <2>3. OwnStep(d, c, l, msr[d], slot[d], exportType[d])
    BY <1>4, <2>2, StepsFacts, CommandNames DEF OwnStep, ExporterLabels
  <2> QED
    BY <1>1, <1>2, <1>4, <2>3, PlainStep
<1> QED
  BY <1>3, <1>4, CommandNames

LEMMA FirstStepKnows ==
  ASSUME Control, NEW d \in Dirs, NEW c \in Exporters, pc[d][c] = "init",
         c = ET => WayBack(msr[d]), NEW type, type # ""
  PROVE  /\ FirstStep(d, c) \in {"drop", "debezium", "slot"}
         /\ OwnStep(d, c, FirstStep(d, c), msr[d], slot[d], type)
<1>1. /\ OwnStep(d, c, "init", msr[d], slot[d], exportType[d]) /\ Consistent(d, msr[d], latest)
  BY ExporterThere
<1>2. CASE c = ES
  <2>1. DetectedFlag(Role(d, c)) = "CutoverDetectedBySourceExporter"
    BY <1>2, RoleFacts, ExporterFlagFacts
  <2>2. SourceExporterSlot("init", msr[d], slot[d]["source"].exists, TRUE) /\ ForwardFlags(msr[d])
    BY <1>1, <1>2 DEF OwnStep, Consistent
  <2>3. CASE "CutoverDetectedBySourceExporter" \in msr[d]
    <3>1. FirstStep(d, c) = "drop"
      BY <2>1, <2>3 DEF FirstStep
    <3>2. SourceExporterCutover("drop", msr[d])
          /\ SourceExporterSlot("drop", msr[d], slot[d]["source"].exists, TRUE)
          /\ SourceExporterSnapshot("drop", msr[d], type)
      BY <2>2, <2>3 DEF SourceExporterCutover, SourceExporterSlot, SourceExporterSnapshot, WithSlot
    <3> QED
      BY <1>2, <3>1, <3>2, StepsFacts, CommandNames DEF OwnStep, ExporterLabels
  <2>4. CASE "CutoverDetectedBySourceExporter" \notin msr[d] /\ "ExportDataDone" \in msr[d]
    <3>1. FirstStep(d, c) = "debezium"
      BY <1>2, <2>1, <2>4 DEF FirstStep
    <3>2. SourceExporterCutover("debezium", msr[d])
          /\ SourceExporterSlot("debezium", msr[d], slot[d]["source"].exists, TRUE)
          /\ SourceExporterSnapshot("debezium", msr[d], type)
      BY <2>2, <2>4 DEF SourceExporterCutover, SourceExporterSlot, SourceExporterSnapshot, WithSlot,
         ForwardFlags
    <3> QED
      BY <1>2, <3>1, <3>2, StepsFacts, CommandNames DEF OwnStep, ExporterLabels
  <2>5. CASE "CutoverDetectedBySourceExporter" \notin msr[d] /\ "ExportDataDone" \notin msr[d]
    <3>1. FirstStep(d, c) = "slot"
      BY <1>2, <2>1, <2>5 DEF FirstStep
    <3>2. SourceExporterCutover("slot", msr[d])
          /\ SourceExporterSlot("slot", msr[d], slot[d]["source"].exists, TRUE)
          /\ SourceExporterSnapshot("slot", msr[d], type)
      BY <2>2, <2>5 DEF SourceExporterCutover, SourceExporterSlot, SourceExporterSnapshot, WithSlot
    <3> QED
      BY <1>2, <3>1, <3>2, StepsFacts, CommandNames DEF OwnStep, ExporterLabels
  <2> QED
    BY <2>3, <2>4, <2>5
<1>3. CASE c = ET
  <2>1. TargetDetected(msr[d]) <=> DetectedFlag(Role(d, c)) \in msr[d]
    BY <1>1, <1>3, RoleFacts, ExporterFlagFacts, ConsistentFacts DEF TargetDetected
  <2>2. DetectedFlag(Role(d, c)) \in msr[d] =>
          ByRole(msr[d], "CutoverDetectedByTargetFBExporter", "CutoverDetectedByTargetFFExporter")
    BY <1>3, RoleFacts, ExporterFlagFacts DEF ByRole
  <2>3. TargetExporterSlot("init", msr[d], slot[d]["target"].exists, TRUE)
    BY <1>1, <1>3 DEF OwnStep
  <2>4. PICK l : l = IF DetectedFlag(Role(d, c)) \in msr[d] THEN "drop" ELSE "slot"
    OBVIOUS
  <2>5. FirstStep(d, c) = l
    BY <1>3, <2>4 DEF FirstStep
  <2>6. TargetExporterCutover(l, msr[d]) /\ TargetExporterSlot(l, msr[d], slot[d]["target"].exists, TRUE)
    BY <1>3, <2>1, <2>2, <2>3, <2>4 DEF TargetExporterCutover, TargetExporterSlot, WithSlot
  <2> QED
    BY <1>3, <2>4, <2>5, <2>6, StepsFacts, CommandNames DEF OwnStep, ExporterLabels
<1> QED
  BY <1>2, <1>3, CommandNames

(* The export starts where the last one left it. *)
LEMMA ExportStarts ==
  ASSUME Control, NEW d \in Dirs, NEW c \in Exporters, pc[d][c] = "init", c = ET => WayBack(msr[d]),
         Goto(d, c, FirstStep(d, c)), toRun' = toRun, msr' = msr, latest' = latest,
         exportType' = IF c = ES THEN [exportType EXCEPT ![d] = TypeToExport(d)] ELSE exportType,
         UNCHANGED <<dataVars, importType, kills, userVars>>
  PROVE  Control'
<1>l. PICK l : l = FirstStep(d, c)
  OBVIOUS
<1>1. /\ dataDir' = dataDir /\ files' = files /\ queue' = queue /\ done' = done /\ db' = db
      /\ slot' = slot /\ importType' = importType /\ kills' = kills
  BY DEF dataVars
<1>2. TypeOK /\ c \in Commands
  BY CommandNames DEF Control
<1>3. /\ StatusFile(pc[d][ES], msr[d], dataDir[d], queue[d], TRUE)
      /\ EventsRequested(queue'[d], msr[d]) /\ Consistent(d, msr[d], latest) /\ Open
      /\ d > 0 => exportType[d] # SNAPSHOT_AND_CHANGES
      /\ d = 0 => exportType[d] # CHANGES_ONLY
  BY <1>1, ExporterThere
<1>t. /\ TypeToExport(d) \in ExportTypes /\ TypeToExport(d) # ""
      /\ d > 0 => TypeToExport(d) # SNAPSHOT_AND_CHANGES
      /\ d = 0 => TypeToExport(d) # CHANGES_ONLY
  <2>1. d > 0 => d # 0
    BY DirPositive
  <2> QED
    BY <2>1 DEF TypeToExport, ExportTypes, SNAPSHOT_AND_CHANGES, CHANGES_ONLY
<1>4. /\ exportType' \in [Dirs -> ExportTypes]
      /\ \A e \in Dirs : e # d => exportType'[e] = exportType[e]
      /\ c = ES => exportType'[d] = TypeToExport(d)
      /\ c # ES => exportType'[d] = exportType[d]
  BY <1>2, <1>t, DataTypes
<1>5. /\ d > 0 => exportType'[d] # SNAPSHOT_AND_CHANGES
      /\ d = 0 => exportType'[d] # CHANGES_ONLY
  BY <1>3, <1>4, <1>t
<1>6. l \in {"drop", "debezium", "slot"} /\ OwnStep(d, c, l, msr[d], slot[d], exportType'[d])
  <2>1. CASE c = ES
    BY <1>l, <1>4, <1>t, <2>1, FirstStepKnows
  <2>2. CASE c = ET
    <3>1. l \in {"drop", "debezium", "slot"} /\ OwnStep(d, c, l, msr[d], slot[d], "any")
      BY <1>l, FirstStepKnows
    <3> QED
      BY <2>2, <3>1, CommandNames DEF OwnStep
  <2> QED
    BY <2>1, <2>2, CommandNames
<1>7. PcAt(d, c, l) /\ Continues(d, c, l)
  BY <1>l, <1>2, <1>6, GotoAt DEF Continues
<1>8. DataElsewhere(d) /\ OwnSlot(d, c)
  BY <1>1, <1>4 DEF DataElsewhere, OwnSlot, SlotsStay
<1>9. StatusFile(pc'[d][ES], msr[d], dataDir'[d], queue'[d], TRUE)
  <2>1. pc'[d][ES] = pc[d][ES] \/ pc'[d][ES] \in {"drop", "debezium", "slot"}
    BY <1>6, <1>7, CommandNames DEF PcAt
  <2> QED
    BY <2>1, <1>1, <1>3 DEF StatusFile
<1>10. TypeOK'
  <2>1. l \in ExporterLabels \cup ImporterLabels
    BY <1>6 DEF ExporterLabels
  <2> QED
    BY <1>l, <1>1, <1>2, <1>4, <2>1, DataTypes, TypesKept
<1>11. MsrAt(d, {}) /\ msr[d] = msr[d] \cup {} /\ ModestFlags(d, c, {})
  BY <1>2, NoRecordChange, NoFlags
<1>12. OwnStep(d, c, l, msr[d], slot'[d], exportType'[d])
  BY <1>1, <1>6
<1> QED
  BY <1>3, <1>4, <1>5, <1>7, <1>8, <1>9, <1>10, <1>11, <1>12, DataStep

LEMMA ExportInitKept ==
  ASSUME Control, NEW d \in Dirs, NEW c \in Exporters, ExportInit(d, c), UNCHANGED userVars
  PROVE  Control'
<1>1. pc[d][c] = "init" /\ UNCHANGED <<dataVars, importType, kills, userVars>> /\ c \in Commands
  BY CommandNames DEF ExportInit
<1>2. PICK refused : refused = \/ /\ c = ET
                                  /\ {"FallbackEnabled", "FallForwardEnabled"} \cap msr[d] = {}
                               \/ c = ES /\ d > 0 /\ IsParentMigration(d)
  OBVIOUS
<1>3. ~refused => (c = ET => WayBack(msr[d]))
  BY <1>2 DEF WayBack
<1>4. isCutoverAlreadyProcessed(d, Role(d, c)) => ProcessedFlag(Role(d, c)) \in msr[d]
  BY DEF isCutoverAlreadyProcessed
<1>5. Open
  BY <1>1, OpenSteps
<1>6. \/ ErrExit(d, c) /\ UNCHANGED msrVars
      \/ isCutoverAlreadyProcessed(d, Role(d, c)) /\ Exit(d, c) /\ UNCHANGED msrVars
      \/ /\ ~refused /\ isCutoverAlreadyProcessed(d, Role(d, c))
         /\ Goto(d, c, "further") /\ UNCHANGED <<toRun, msrVars>>
      \/ /\ ~refused /\ Goto(d, c, FirstStep(d, c)) /\ UNCHANGED <<toRun, msr, latest>>
         /\ exportType' = IF c = ES THEN [exportType EXCEPT ![d] = TypeToExport(d)] ELSE exportType
  BY <1>2 DEF ExportInit
<1>7. CASE ErrExit(d, c) /\ UNCHANGED msrVars
  BY <1>1, <1>7, ExporterFails
<1>8. CASE isCutoverAlreadyProcessed(d, Role(d, c)) /\ Exit(d, c) /\ UNCHANGED msrVars
  BY <1>1, <1>4, <1>5, <1>8, ExporterProcessed, EndsKept
<1>9. CASE /\ ~refused /\ isCutoverAlreadyProcessed(d, Role(d, c))
           /\ Goto(d, c, "further") /\ UNCHANGED <<toRun, msrVars>>
  BY <1>1, <1>3, <1>4, <1>9, ExporterGoesFurther
<1>10. CASE /\ ~refused /\ Goto(d, c, FirstStep(d, c)) /\ UNCHANGED <<toRun, msr, latest>>
            /\ exportType' = IF c = ES THEN [exportType EXCEPT ![d] = TypeToExport(d)] ELSE exportType
  BY <1>1, <1>3, <1>10, ExportStarts
<1> QED
  BY <1>6, <1>7, <1>8, <1>9, <1>10

-----------------------------------------------------------------------------
(* Steps that move data and no command *)

LEMMA QuietStep ==
  ASSUME Control, TypeOK', pc' = pc, msr' = msr, exportType' = exportType, latest' = latest,
         toRun' = toRun, dataDir' = dataDir, app' = app, ending' = ending, ended' = ended,
         \A e \in Dirs : SlotsStay(e),
         NEW d \in Dirs, ~(d > latest),
         \A e \in Dirs : e # d => queue'[e] = queue[e] /\ done'[e] = done[e],
         \/ queue'[d] = queue[d]
         \/ /\ StatusFile(pc[d][ES], msr[d], dataDir[d], queue'[d], Open)
            /\ EventsRequested(queue'[d], msr[d])
            /\ ~(Alive(IS) /\ FbDir < latest /\ d = latest),
         done'[d] = done[d] \/ \E c \in Commands : pc[d][c] # "off"
  PROVE  Control'
<1>1. Open' = Open /\ FbDir' = FbDir /\ \A k \in Commands : Alive(k)' = Alive(k)
  BY DEF Open, FbDir, Alive
<1>2. /\ \A e \in Dirs : slot'[e]["source"].exists = slot[e]["source"].exists
      /\ \A e \in Dirs : slot'[e]["target"].exists = slot[e]["target"].exists
  BY DEF SlotsStay
<1>3. ASSUME NEW e \in Dirs PROVE DirAt(e)'
  <2>1. DirAt(e)
    BY DEF Control
  <2>2. FlagsAt(e)'
    BY <2>1 DEF DirAt, FlagsAt
  <2>3. ExportersAt(e)'
    BY <1>1, <1>2, <2>1 DEF DirAt, ExportersAt
  <2>4. ImportersAt(e)'
    BY <2>1 DEF DirAt, ImportersAt
  <2>5. StatusFile(pc[e][ES], msr[e], dataDir[e], queue'[e], Open) /\ EventsRequested(queue'[e], msr[e])
    BY <2>1 DEF DirAt, DirectoryAt
  <2>6. DirectoryAt(e)'
    BY <1>1, <2>1, <2>5 DEF DirAt, DirectoryAt
  <2>7. FutureAt(e)'
    <3>1. CASE e = d
      BY <3>1 DEF FutureAt
    <3>2. CASE e # d
      BY <1>2, <2>1, <3>2 DEF DirAt, FutureAt
    <3> QED
      BY <3>1, <3>2
  <2> QED
    BY <2>2, <2>3, <2>4, <2>6, <2>7 DEF DirAt
<1>4. Chains' /\ Replica' /\ AppPlace'
  BY <1>1 DEF Control, Chains, Alone, Replica, AppPlace
<1>5. Places'
  <2>1. Alive(IS) /\ FbDir < latest => queue'[latest] = queue[latest]
    BY FbDirType
  <2>2. Alive(IS)' = Alive(IS) /\ Alive(IT)' = Alive(IT) /\ Alive(ET)' = Alive(ET)
    BY <1>1, CommandNames
  <2> QED
    BY <1>1, <2>1, <2>2 DEF Control, Places
<1>6. Owners'
  <2>1. /\ Alive(ES)' = Alive(ES) /\ Alive(ET)' = Alive(ET)
        /\ Alive(IS)' = Alive(IS) /\ Alive(IT)' = Alive(IT)
    BY <1>1, CommandNames
  <2> QED
    BY <1>1, <1>2, <2>1 DEF Control, Owners
<1>7. Ending'
  <2>1. CASE Open
    BY <1>1, <2>1 DEF Control, Ending
  <2>2. CASE ~Open
    <3>0. SettledCommands /\ KnownSlots /\ EndOrder /\ EndProgress /\ ending.dir \in Dirs
      BY <2>2 DEF Control, Ending, TypeOK, EndTypeOK
    <3>1. \A e \in Dirs, c \in Commands : Role(e, c)' = Role(e, c)
      BY DEF Role
    <3>2. SettledCommands'
      BY <3>0, <3>1 DEF SettledCommands
    <3>3. KnownSlots'
      BY <3>0, <1>2 DEF KnownSlots, DeletesYBSlot
    <3>4. EndOrder'
      BY <3>0 DEF EndOrder
    <3>5. EndProgress'
      BY <3>0, <1>2, CommandNames DEF EndProgress
    <3> QED
      BY <1>1, <2>2, <3>2, <3>3, <3>4, <3>5 DEF Ending
  <2> QED
    BY <2>1, <2>2
<1> QED
  BY <1>3, <1>4, <1>5, <1>6, <1>7 DEF Control

(* The types after a step that moves data. *)
LEMMA TypesMoved ==
  ASSUME TypeOK, pc' = pc, msr' = msr, exportType' = exportType, latest' = latest,
         toRun' = toRun, dataDir' = dataDir, files' = files, importType' = importType, kills' = kills,
         app' = app, written' \in 0 .. MaxWrites, ending' = ending, ended' = ended,
         queue' \in [Dirs -> Seq([by : Exporters, event : {"change"} \cup CutoverEvents,
                                  write : 0 .. MaxWrites])],
         done' \in [Dirs -> [Importers -> Nat]],
         \A e \in Dirs, k \in Importers : done'[e][k] <= Len(queue'[e]),
         slot' \in [Dirs -> [{"source", "target"} -> SlotValue]],
         db' \in [Databases -> SUBSET Writes]
  PROVE  TypeOK'
BY DEF TypeOK, MSRTypeOK, EndTypeOK, SlotValue

QueueItems == [by : Exporters, event : {"change"} \cup CutoverEvents, write : 0 .. MaxWrites]

(* One more item in the queue of directory d. *)
LEMMA QueueGrows ==
  ASSUME TypeOK, NEW d \in Dirs, NEW x \in QueueItems, queue' = [queue EXCEPT ![d] = Append(@, x)]
  PROVE  /\ queue' \in [Dirs -> Seq(QueueItems)]
         /\ \A e \in Dirs : e # d => queue'[e] = queue[e]
         /\ queue'[d] = Append(queue[d], x) /\ queue[d] \in Seq(QueueItems)
         /\ \A e \in Dirs, k \in Importers : done[e][k] <= Len(queue'[e])
<1>1. queue \in [Dirs -> Seq(QueueItems)]
  BY DataTypes DEF QueueItems
<1>2. queue[d] \in Seq(QueueItems) /\ Append(queue[d], x) \in Seq(QueueItems)
  BY <1>1
<1>3. queue' = [queue EXCEPT ![d] = Append(queue[d], x)]
  OBVIOUS
<1>4. /\ queue' \in [Dirs -> Seq(QueueItems)] /\ queue'[d] = Append(queue[d], x)
      /\ \A e \in Dirs : e # d => queue'[e] = queue[e]
  <2>1. PICK y : y = Append(queue[d], x)
    OBVIOUS
  <2>2. queue' = [queue EXCEPT ![d] = y] /\ y \in Seq(QueueItems)
    BY <1>2, <1>3, <2>1
  <2> QED
    BY <1>1, <2>1, <2>2
<1>5. Len(queue'[d]) = Len(queue[d]) + 1 /\ Len(queue[d]) \in Nat
  BY <1>2, <1>4
<1>6. ASSUME NEW e \in Dirs, NEW k \in Importers PROVE done[e][k] <= Len(queue'[e])
  <2>1. done[e][k] \in Nat /\ done[e][k] <= Len(queue[e])
    BY DataTypes
  <2>2. CASE e = d
    BY <1>5, <2>1, <2>2
  <2>3. CASE e # d
    BY <1>4, <2>1, <2>3
  <2> QED
    BY <2>2, <2>3
<1> QED
  BY <1>2, <1>4, <1>6

LEMMA EventsAppended ==
  ASSUME NEW q \in Seq(QueueItems), NEW f, EventsRequested(q, f), NEW x \in QueueItems,
         x.event = "cutover.target" => "CutoverToTargetRequested" \in f,
         x.event = "cutover.source" => "CutoverToSourceRequested" \in f,
         x.event = "cutover.source_replica" => "CutoverToSourceReplicaRequested" \in f,
         x.event \notin CutoverEvents => x.write \in Writes
  PROVE  EventsRequested(Append(q, x), f) /\ Append(q, x) # <<>>
<1>1. /\ DOMAIN Append(q, x) = 1 .. Len(q) + 1 /\ DOMAIN q = 1 .. Len(q) /\ Len(q) \in Nat
      /\ Append(q, x)[Len(q) + 1] = x /\ \A i \in 1 .. Len(q) : Append(q, x)[i] = q[i]
  OBVIOUS
<1>2. Append(q, x) # <<>>
  BY <1>1
<1>3. ASSUME NEW i \in DOMAIN Append(q, x)
      PROVE  Append(q, x)[i] = x \/ (i \in DOMAIN q /\ Append(q, x)[i] = q[i])
  BY <1>1
<1>4. EventsRequested(Append(q, x), f)
  BY <1>3 DEF EventsRequested
<1> QED
  BY <1>2, <1>4

LEMMA WritesFacts ==
  /\ Writes \subseteq 0 .. MaxWrites /\ 0 \in 0 .. MaxWrites
  /\ \A w \in Writes : w \in 0 .. MaxWrites
BY MigrationBoundsAssumption DEF Writes

(* A slot whose contents change stays. *)
LEMMA SlotRewritten ==
  ASSUME TypeOK, NEW d \in Dirs, NEW c \in Exporters, NEW s, s = SourceOf(c),
         NEW v \in SlotValue, v.exists = slot[d][s].exists, slot' = [slot EXCEPT ![d][s] = v]
  PROVE  /\ slot' \in [Dirs -> [{"source", "target"} -> SlotValue]]
         /\ \A e \in Dirs : SlotsStay(e)
<1>1. /\ slot' \in [Dirs -> [{"source", "target"} -> SlotValue]]
      /\ c = ES => slot'[d]["source"] = v
      /\ c = ET => slot'[d]["target"] = v
      /\ OwnSlot(d, c) /\ \A e \in Dirs : e # d => SlotsStay(e)
  BY SlotSet
<1>2. SlotsStay(d)
  <2>1. CASE c = ES
    BY <1>1, <2>1 DEF SlotsStay, OwnSlot, SourceOf
  <2>2. CASE c = ET
    BY <1>1, <2>2 DEF SlotsStay, OwnSlot, SourceOf
  <2> QED
    BY <2>1, <2>2, CommandNames
<1> QED
  BY <1>1, <1>2

LEMMA ChangeExported ==
  ASSUME Control, NEW d \in Dirs, NEW c \in Exporters, ExportChange(d, c), UNCHANGED userVars
  PROVE  Control'
<1>1. /\ pc[d][c] \in {"reached", "streaming"} /\ msr' = msr /\ exportType' = exportType
      /\ latest' = latest /\ pc' = pc /\ importType' = importType /\ toRun' = toRun /\ kills' = kills
      /\ dataDir' = dataDir /\ files' = files /\ done' = done /\ db' = db
      /\ app' = app /\ written' = written /\ ending' = ending /\ ended' = ended
  BY DEF ExportChange, DebeziumRuns, msrVars, procVars, userVars, endVars
<1>s. PICK s : s = SourceOf(c)
  OBVIOUS
<1>2. PICK w \in slot[d][s].pending :
        /\ slot' = [slot EXCEPT ![d][s] = [slot[d][s] EXCEPT !.pending = @ \ {w}]]
        /\ queue' = [queue EXCEPT ![d] = Append(@, Change(c, w))]
  BY <1>s DEF ExportChange
<1>v. PICK v : v = [slot[d][s] EXCEPT !.pending = @ \ {w}]
  OBVIOUS
<1>3. TypeOK /\ c \in Commands
  BY CommandNames DEF Control
<1>4. /\ slot' \in [Dirs -> [{"source", "target"} -> SlotValue]] /\ w \in Writes
      /\ \A e \in Dirs : SlotsStay(e)
  <2>1. slot' = [slot EXCEPT ![d][s] = v]
    BY <1>2, <1>v
  <2>2. slot[d][s] \in SlotValue
    <3>1. s \in {"source", "target"}
      BY <1>s DEF SourceOf
    <3>2. slot \in [Dirs -> [{"source", "target"} -> SlotValue]]
      BY <1>3, DataTypes DEF SlotValue
    <3> QED
      BY <3>1, <3>2
  <2>3. v \in SlotValue /\ v.exists = slot[d][s].exists /\ w \in Writes
    BY <1>v, <2>2 DEF SlotValue
  <2> QED
    BY <1>s, <1>3, <2>1, <2>3, SlotRewritten
<1>5. PICK x : x = Change(c, w)
  OBVIOUS
<1>6. x \in QueueItems /\ x.event = "change" /\ x.write \in Writes
  BY <1>4, <1>5, WritesFacts DEF Change, QueueItems
<1>7. queue' = [queue EXCEPT ![d] = Append(@, x)]
  BY <1>2, <1>5
<1>8. /\ queue' \in [Dirs -> Seq(QueueItems)]
      /\ \A e \in Dirs : e # d => queue'[e] = queue[e]
      /\ queue'[d] = Append(queue[d], x) /\ queue[d] \in Seq(QueueItems)
      /\ \A e \in Dirs, k \in Importers : done[e][k] <= Len(queue'[e])
  BY <1>3, <1>6, <1>7, QueueGrows
<1>9. TypeOK'
  <2>1. done' \in [Dirs -> [Importers -> Nat]] /\ db' \in [Databases -> SUBSET Writes]
        /\ \A e \in Dirs, k \in Importers : done'[e][k] <= Len(queue'[e])
    BY <1>1, <1>3, <1>8, DataTypes
  <2>2. written' \in 0 .. MaxWrites
    BY <1>1, <1>3 DEF TypeOK
  <2>3. queue' \in [Dirs -> Seq([by : Exporters, event : {"change"} \cup CutoverEvents,
                                  write : 0 .. MaxWrites])]
    BY <1>8 DEF QueueItems
  <2> QED
    BY <1>1, <1>3, <1>4, <2>1, <2>2, <2>3, TypesMoved
<1>10. DirAt(d) /\ EventsRequested(queue[d], msr[d]) /\ StatusFile(pc[d][ES], msr[d], dataDir[d], queue[d], Open)
  BY DEF Control, DirAt, DirectoryAt
<1>11. EventsRequested(queue'[d], msr[d])
  BY <1>6, <1>8, <1>10, EventsAppended
<1>12. Open => dataDir[d] = "streaming"
  <2>1. CASE c = ES
    BY <1>1, <1>10, <2>1 DEF StatusFile
  <2>2. CASE c = ET
    BY <1>1, <2>2, TargetExporterThere
  <2> QED
    BY <2>1, <2>2, CommandNames
<1>13. StatusFile(pc[d][ES], msr[d], dataDir[d], queue'[d], Open)
  BY <1>10, <1>12 DEF StatusFile
<1>14. ~(Alive(IS) /\ FbDir < latest /\ d = latest)
  <2>1. CASE c = ES
    BY <1>1, <2>1, Mates
  <2>2. CASE c = ET
    <3>1. d = FbDir
      BY <1>1, <2>2, Mates
    <3>2. FbDir < latest => FbDir # latest
      BY FbDirType, DirsFacts
    <3> QED
      BY <3>1, <3>2
  <2> QED
    BY <2>1, <2>2, CommandNames
<1>15. ~(d > latest)
  BY <1>1, <1>3, AtMostLatest
<1> QED
  BY <1>1, <1>4, <1>8, <1>9, <1>11, <1>13, <1>14, <1>15, QuietStep

LEMMA CutoverExported ==
  ASSUME Control, NEW d \in Dirs, NEW c \in Exporters, SwitchOperation(d, c), UNCHANGED userVars
  PROVE  Control'
<1>1. /\ pc[d][c] \in {"reached", "streaming"} /\ RequestFlag(Role(d, c)) \in msr[d]
      /\ msr' = msr /\ exportType' = exportType /\ latest' = latest
      /\ importType' = importType /\ toRun' = toRun /\ kills' = kills
      /\ dataDir' = dataDir /\ files' = files /\ done' = done /\ db' = db /\ slot' = slot
      /\ queue' = [queue EXCEPT ![d] = Append(@, Cutover(c, CutoverEvent(Role(d, c))))]
  BY DEF SwitchOperation, DebeziumRuns, msrVars
<1>l. PICK l : l = IF pc[d][c] = "reached" THEN "exitedReached" ELSE "exited"
  OBVIOUS
<1>2. Goto(d, c, l) /\ l \in {"exitedReached", "exited"}
  BY <1>l DEF SwitchOperation
<1>3. TypeOK /\ c \in Commands /\ DirAt(d) /\ Consistent(d, msr[d], latest)
  BY CommandNames, RecordsConsistent DEF Control
<1>4. Open = TRUE
  <2>1. ~Open => RequestFlag(Role(d, c)) \notin msr[d]
    BY <1>1, <1>3 DEF Control, Ending, SettledCommands
  <2> QED
    BY <1>1, <2>1 DEF Open
<1>5. PICK x : x = Cutover(c, CutoverEvent(Role(d, c)))
  OBVIOUS
<1>6. /\ x \in QueueItems
      /\ x.event = "cutover.target" => "CutoverToTargetRequested" \in msr[d]
      /\ x.event = "cutover.source" => "CutoverToSourceRequested" \in msr[d]
      /\ x.event = "cutover.source_replica" => "CutoverToSourceReplicaRequested" \in msr[d]
      /\ x.event \in CutoverEvents
  <2>1. PICK e : e = CutoverEvent(Role(d, c))
    OBVIOUS
  <2>2. \/ e = "cutover.target" /\ "CutoverToTargetRequested" \in msr[d]
        \/ e = "cutover.source" /\ "CutoverToSourceRequested" \in msr[d]
        \/ e = "cutover.source_replica" /\ "CutoverToSourceReplicaRequested" \in msr[d]
    <3>1. RequestFlag(Role(d, c)) \in msr[d]
      BY <1>1
    <3>2. CASE c = ES
      BY <2>1, <3>1, <3>2, RoleFacts, EventFacts, RequestFacts
    <3>3. CASE c = ET
      BY <2>1, <3>1, <3>3, RoleFacts, EventFacts, RequestFacts
    <3> QED
      BY <3>2, <3>3, CommandNames
  <2>3. x \in QueueItems /\ x.event = e /\ e \in CutoverEvents
    BY <1>5, <2>1, <2>2, WritesFacts DEF Cutover, QueueItems, CutoverEvents
  <2> QED
    BY <2>2, <2>3
<1>7. queue' = [queue EXCEPT ![d] = Append(@, x)]
  BY <1>1, <1>5
<1>8. /\ queue' \in [Dirs -> Seq(QueueItems)]
      /\ \A e \in Dirs : e # d => queue'[e] = queue[e]
      /\ queue'[d] = Append(queue[d], x) /\ queue[d] \in Seq(QueueItems)
      /\ \A e \in Dirs, k \in Importers : done[e][k] <= Len(queue'[e])
  BY <1>3, <1>6, <1>7, QueueGrows
<1>9. /\ EventsRequested(queue[d], msr[d]) /\ StatusFile(pc[d][ES], msr[d], dataDir[d], queue[d], TRUE)
      /\ (d > 0 => exportType'[d] # SNAPSHOT_AND_CHANGES) /\ (d = 0 => exportType'[d] # CHANGES_ONLY)
  BY <1>1, <1>3, <1>4 DEF DirAt, DirectoryAt
<1>10. EventsRequested(queue'[d], msr[d])
  BY <1>6, <1>8, <1>9, EventsAppended
<1>11. dataDir[d] = "streaming" /\ "ExportDataDone" \in msr[d]
  <2>1. CASE c = ES
    BY <1>1, <1>9, <2>1 DEF StatusFile
  <2>2. CASE c = ET
    BY <1>1, <1>4, <2>2, TargetExporterThere
  <2> QED
    BY <2>1, <2>2, CommandNames
<1>12. StatusFile(pc'[d][ES], msr[d], dataDir'[d], queue'[d], TRUE)
  BY <1>1, <1>11 DEF StatusFile
<1>13. OwnStep(d, c, l, msr[d], slot'[d], exportType'[d])
  <2>1. CASE c = ES
    <3>1. /\ SourceExporterCutover(pc[d][ES], msr[d]) /\ "CutoverToTargetRequested" \in msr[d]
          /\ SourceExporterSlot(pc[d][ES], msr[d], slot[d]["source"].exists, TRUE)
          /\ SourceExporterSnapshot(pc[d][ES], msr[d], exportType[d])
      BY <1>1, <1>3, <1>4, <2>1, RoleFacts, RequestFacts DEF DirAt, ExportersAt
    <3>2. /\ SourceExporterCutover(l, msr[d])
          /\ SourceExporterSlot(l, msr[d], slot[d]["source"].exists, TRUE)
          /\ SourceExporterSnapshot(l, msr[d], exportType[d])
      BY <1>1, <1>2, <2>1, <3>1 DEF SourceExporterCutover, SourceExporterSlot,
         SourceExporterSnapshot, WithSlot
    <3> QED
      BY <1>1, <1>2, <2>1, <3>2, StepsFacts, CommandNames DEF OwnStep, ExporterLabels
  <2>2. CASE c = ET
    <3>1. /\ TargetExporterCutover(pc[d][ET], msr[d])
          /\ TargetExporterSlot(pc[d][ET], msr[d], slot[d]["target"].exists, TRUE)
      BY <1>3, <1>4, <2>2 DEF DirAt, ExportersAt
    <3>2. ByRole(msr[d], "CutoverToSourceRequested", "CutoverToSourceReplicaRequested")
      BY <1>1, <2>2, RoleFacts, RequestFacts DEF ByRole
    <3>3. TargetExporterCutover(l, msr[d])
      BY <1>1, <1>2, <2>2, <3>1, <3>2 DEF TargetExporterCutover
    <3>4. TargetExporterSlot(l, msr[d], slot[d]["target"].exists, TRUE)
      BY <1>l, <1>1, <2>2, <3>1 DEF TargetExporterSlot, WithSlot
    <3> QED
      BY <1>1, <1>2, <2>2, <3>3, <3>4, StepsFacts, CommandNames DEF OwnStep, ExporterLabels
  <2> QED
    BY <2>1, <2>2, CommandNames
<1>14. PcAt(d, c, l) /\ Continues(d, c, l)
  BY <1>1, <1>2, <1>3, GotoAt DEF Continues
<1>15. DataElsewhere(d) /\ OwnSlot(d, c)
  BY <1>1, <1>8 DEF DataElsewhere, OwnSlot, SlotsStay
<1>16. TypeOK'
  <2>1. l \in ExporterLabels \cup ImporterLabels
    BY <1>2 DEF ExporterLabels
  <2>2. queue' \in [Dirs -> Seq([by : Exporters, event : {"change"} \cup CutoverEvents,
                                  write : 0 .. MaxWrites])]
    BY <1>8 DEF QueueItems
  <2> QED
    BY <1>1, <1>2, <1>3, <1>8, <2>1, <2>2, DataTypes, TypesKept
<1>17. MsrAt(d, {}) /\ msr[d] = msr[d] \cup {} /\ ModestFlags(d, c, {})
  BY <1>1, <1>3, NoRecordChange, NoFlags
<1> QED
  BY <1>1, <1>3, <1>4, <1>9, <1>10, <1>12, <1>13, <1>14, <1>15, <1>16, <1>17, DataStep

-----------------------------------------------------------------------------
(* A command that turns into another *)

LEMMA StatusFacts ==
  ASSUME NEW d
  PROVE  /\ GetCutoverStatus(d) = NOT_INITIATED <=> "CutoverToTargetRequested" \notin msr[d]
         /\ GetCutoverStatus(d) = COMPLETED =>
              /\ "CutoverProcessedBySourceExporter" \in msr[d]
              /\ "CutoverProcessedByTargetImporter" \in msr[d]
              /\ WayBack(msr[d]) => TargetStreamed(msr[d])
              /\ "FallbackEnabled" \in msr[d] /\ "FallForwardEnabled" \notin msr[d] =>
                   "ExportFromTargetFallBackStarted" \in msr[d]
         /\ GetCutoverStatus(d) \in {NOT_INITIATED, INITIATED, COMPLETED}
         /\ GetCutoverToSourceStatus(d) = NOT_INITIATED <=> "CutoverToSourceRequested" \notin msr[d]
         /\ GetCutoverToSourceStatus(d) = COMPLETED =>
              /\ "CutoverToSourceProcessedByTargetExporter" \in msr[d]
              /\ isNextIterationStartedIfRequired(d)
         /\ getCutoverToSourceReplicaStatus(d) = NOT_INITIATED <=>
              "CutoverToSourceReplicaRequested" \notin msr[d]
         /\ getCutoverToSourceReplicaStatus(d) = COMPLETED =>
              "CutoverToSourceReplicaProcessedByTargetExporter" \in msr[d]
<1>1. /\ GetCutoverStatus(d) = NOT_INITIATED <=> "CutoverToTargetRequested" \notin msr[d]
      /\ GetCutoverStatus(d) \in {NOT_INITIATED, INITIATED, COMPLETED}
  BY DEF GetCutoverStatus, NOT_INITIATED, INITIATED, COMPLETED
<1>2. GetCutoverStatus(d) = COMPLETED =>
        /\ "CutoverProcessedBySourceExporter" \in msr[d]
        /\ "CutoverProcessedByTargetImporter" \in msr[d]
        /\ WayBack(msr[d]) => TargetStreamed(msr[d])
        /\ "FallbackEnabled" \in msr[d] /\ "FallForwardEnabled" \notin msr[d] =>
             "ExportFromTargetFallBackStarted" \in msr[d]
  BY DEF GetCutoverStatus, NOT_INITIATED, INITIATED, COMPLETED, WayBack, TargetStreamed
<1>3. /\ GetCutoverToSourceStatus(d) = NOT_INITIATED <=> "CutoverToSourceRequested" \notin msr[d]
      /\ GetCutoverToSourceStatus(d) = COMPLETED =>
              /\ "CutoverToSourceProcessedByTargetExporter" \in msr[d]
              /\ isNextIterationStartedIfRequired(d)
  BY DEF GetCutoverToSourceStatus, NOT_INITIATED, INITIATED, COMPLETED
<1>4. /\ getCutoverToSourceReplicaStatus(d) = NOT_INITIATED <=>
           "CutoverToSourceReplicaRequested" \notin msr[d]
      /\ getCutoverToSourceReplicaStatus(d) = COMPLETED =>
           "CutoverToSourceReplicaProcessedByTargetExporter" \in msr[d]
  BY DEF getCutoverToSourceReplicaStatus, NOT_INITIATED, INITIATED, COMPLETED
<1> QED
  BY <1>1, <1>2, <1>3, <1>4

LEMMA ResolveFacts ==
  ASSUME Control
  PROVE  /\ ResolveDir(ES) = latest /\ ResolveDir(IT) = latest
         /\ ResolveDir("initiate cutover to target") = latest
         /\ ResolveDir(IS) = FbDir /\ ResolveDir(ET) = FbDir
         /\ ResolveDir("initiate cutover to source") = FbDir
         /\ ResolveDir(SR) = 0
<1>1. latest \in Dirs
  BY FbDirType
<1>2. (latest > 0 => latest # 0) /\ (latest # 0 => latest > 0)
  BY <1>1, DirPositive
<1>3. /\ ResolveDir(ES) = latest /\ ResolveDir(IT) = latest
      /\ ResolveDir("initiate cutover to target") = latest
      /\ ResolveDir(SR) = 0
  BY DEF ResolveDir, liveMigrationIterationCommandList, fallbackPhaseCommands
<1>4. ASSUME NEW c \in fallbackPhaseCommands PROVE ResolveDir(c) = FbDir
  BY <1>2, <1>4, StatusFacts DEF ResolveDir, FbDir, liveMigrationIterationCommandList
<1>5. IS \in fallbackPhaseCommands /\ ET \in fallbackPhaseCommands
      /\ "initiate cutover to source" \in fallbackPhaseCommands
  BY DEF fallbackPhaseCommands
<1> QED
  BY <1>3, <1>4, <1>5

(* The commands that turn into each other. *)
Turning(a, b) ==
  (a = ES /\ b = IS) \/ (a = IS /\ b = ES) \/ (a = IT /\ b = ET) \/ (a = ET /\ b = IT)

PcTurn(d, a, e, b) ==
  /\ pc'[d][a] = "off" /\ pc'[e][b] = "init"
  /\ \A x \in Dirs, k \in Commands :
       ~(x = d /\ k = a) /\ ~(x = e /\ k = b) => pc'[x][k] = pc[x][k]

LEMMA TurningFacts ==
  ASSUME Control, NEW d \in Dirs, NEW a \in Commands, NEW b \in Commands, Turning(a, b),
         pc[d][a] # "off"
  PROVE  /\ a # b /\ a \in {ES, IS, IT, ET} /\ b \in {ES, IS, IT, ET}
         /\ a \notin toRun /\ b \notin toRun
         /\ \A x \in Dirs : pc[x][b] = "off"
         /\ \A x \in Dirs : x # d => pc[x][a] = "off"
<1>1. a # b /\ a \in {ES, IS, IT, ET} /\ b \in {ES, IS, IT, ET}
  BY DEF Turning
<1>2. \A x \in Dirs : x # d => pc[x][a] = "off"
  BY <1>1, OnePlace
<1>3. a \notin toRun /\ b \notin toRun /\ \A x \in Dirs : pc[x][b] = "off"
  BY <1>1 DEF Control, Chains, Alone, Turning
<1> QED
  BY <1>1, <1>2, <1>3

LEMMA ExecTurns ==
  ASSUME Control, Open, NEW d \in Dirs, NEW a \in Commands, NEW b \in Commands, Turning(a, b),
         pc[d][a] # "off", NEW e \in Dirs, e = ResolveDir(b), Exec(d, a, b)
  PROVE  /\ PcTurn(d, a, e, b) /\ toRun' = toRun
         /\ pc' \in [Dirs -> [Commands -> ExporterLabels \cup ImporterLabels]]
<1>1. a # b /\ pc[e][b] = "off"
  BY TurningFacts
<1>2. latest \notin ended
  BY DEF Control, Ending
<1>L. PICK L : L = ExporterLabels \cup ImporterLabels
  OBVIOUS
<1>3. pc \in [Dirs -> [Commands -> L]] /\ "off" \in L /\ "init" \in L
  BY <1>L DEF Control, TypeOK, ExporterLabels
<1>4. PICK p : p = [pc EXCEPT ![d][a] = "off"]
  OBVIOUS
<1>5. p \in [Dirs -> [Commands -> L]] /\ p[d][a] = "off"
      /\ \A x \in Dirs, k \in Commands : ~(x = d /\ k = a) => p[x][k] = pc[x][k]
  BY <1>3, <1>4
<1>6. p[e][b] = "off"
  BY <1>1, <1>5
<1>7. pc' = [p EXCEPT ![e][b] = "init"] /\ toRun' = toRun
  BY <1>2, <1>4, <1>6 DEF Exec
<1>8. pc' \in [Dirs -> [Commands -> L]] /\ pc'[e][b] = "init"
      /\ \A x \in Dirs, k \in Commands : ~(x = e /\ k = b) => pc'[x][k] = p[x][k]
  BY <1>3, <1>5, <1>7
<1> QED
  BY <1>L, <1>1, <1>5, <1>7, <1>8 DEF PcTurn

LEMMA LatestFacts ==
  ASSUME Control
  PROVE  latest \in Nat /\ latest <= latest /\ FbDir \in Nat /\ FbDir <= latest
<1>1. latest \in Nat /\ FbDir \in Nat /\ FbDir <= latest
  BY FbDirType, DirsFacts
<1> QED
  BY <1>1

LEMMA Below ==
  ASSUME NEW x \in Nat, NEW m \in Nat, NEW y \in Nat, y <= m
  PROVE  x > m => x # y
OBVIOUS

(* Nothing but the commands changes. *)
LEMMA TypesOfCommands ==
  ASSUME TypeOK, pc' \in [Dirs -> [Commands -> ExporterLabels \cup ImporterLabels]],
         toRun' \subseteq Commands, kills' \in 0 .. MaxKills,
         UNCHANGED <<msrVars, importType, dataVars, userVars>>
  PROVE  TypeOK' /\ OnlyProcesses
<1>1. /\ msr' = msr /\ exportType' = exportType /\ latest' = latest /\ importType' = importType
      /\ dataDir' = dataDir /\ files' = files /\ queue' = queue /\ done' = done /\ db' = db
      /\ slot' = slot /\ app' = app /\ written' = written /\ ending' = ending /\ ended' = ended
  BY DEF msrVars, dataVars, userVars, endVars
<1> QED
  BY <1>1 DEF TypeOK, MSRTypeOK, EndTypeOK, OnlyProcesses

LEMMA TurnsKept ==
  ASSUME Control, Open, NEW d \in Dirs, NEW a \in Commands, NEW b \in Commands, Turning(a, b),
         pc[d][a] # "off", NEW e \in Dirs, e = ResolveDir(b), Exec(d, a, b),
         UNCHANGED <<msrVars, importType, kills, dataVars, userVars>>,
         a = ES => ~slot[d]["source"].exists, a = ET => ~slot[d]["target"].exists,
         b = IS => "CutoverProcessedBySourceExporter" \in msr[FbDir] /\ ~(FbDir < latest),
         b = IT => ~TargetStreamed(msr[latest]),
         b = ET => "CutoverProcessedByTargetImporter" \in msr[FbDir] /\ ~(FbDir < latest)
  PROVE  Control'
<1>1. /\ PcTurn(d, a, e, b) /\ toRun' = toRun
      /\ pc' \in [Dirs -> [Commands -> ExporterLabels \cup ImporterLabels]]
  BY ExecTurns
<1>2. /\ a # b /\ a \in {ES, IS, IT, ET} /\ b \in {ES, IS, IT, ET}
      /\ a \notin toRun /\ b \notin toRun
      /\ \A x \in Dirs : pc[x][b] = "off"
      /\ \A x \in Dirs : x # d => pc[x][a] = "off"
  BY TurningFacts
<1>3. TypeOK' /\ OnlyProcesses
  <2>1. toRun' \subseteq Commands /\ kills' \in 0 .. MaxKills
        /\ UNCHANGED <<msrVars, importType, dataVars, userVars>> /\ TypeOK
    BY <1>1 DEF Control, TypeOK
  <2> QED
    BY <1>1, <2>1, TypesOfCommands
<1>4. FbDir' = FbDir /\ Open' = Open /\ latest' = latest /\ msr' = msr /\ slot' = slot
      /\ dataDir' = dataDir /\ queue' = queue /\ app' = app /\ ended' = ended
  BY <1>3 DEF OnlyProcesses, FbDir, Open
<1>5. /\ \A x \in Dirs : pc'[x][a] = "off"
      /\ \A x \in Dirs : x # e => pc'[x][b] = "off"
      /\ \A x \in Dirs, k \in Commands : k # a /\ k # b => pc'[x][k] = pc[x][k]
  BY ZenonT(40), <1>1, <1>2 DEF PcTurn
<1>6. /\ ~Alive(a)' /\ Alive(b)' /\ Alive(a) /\ ~Alive(b)
      /\ \A k \in Commands : k # a /\ k # b => Alive(k)' = Alive(k)
  <2>1. ~Alive(a)'
    BY <1>1, <1>2, <1>5 DEF Alive
  <2>2. Alive(b)'
    BY <1>1 DEF Alive, PcTurn
  <2>3. Alive(a) /\ ~Alive(b)
    BY <1>2 DEF Alive
  <2>4. \A k \in Commands : k # a /\ k # b => Alive(k)' = Alive(k)
    BY <1>1, <1>5 DEF Alive
  <2> QED
    BY <2>1, <2>2, <2>3, <2>4
<1>7. Chains'
  <2>1. ASSUME NEW x \in Commands, NEW y \in Commands, Alone(x, y), {x, y} = {a, b} \/ {x, y} \cap {a, b} = {}
        PROVE  Alone(x, y)'
    <3>1. CASE x = a /\ y = b
      BY <1>1, <1>2, <1>5, <3>1 DEF Alone
    <3>2. CASE x = b /\ y = a
      BY <1>1, <1>2, <1>5, <3>2 DEF Alone
    <3>3. CASE x # a /\ x # b /\ y # a /\ y # b
      BY <1>1, <1>5, <2>1, <3>3 DEF Alone
    <3> QED
      BY <1>2, <2>1, <3>1, <3>2, <3>3
  <2>2. Alone(ES, IS) /\ Alone(IT, ET)
    BY DEF Control, Chains
  <2>3. {ES, IS} = {a, b} \/ {ES, IS} \cap {a, b} = {}
    BY DEF Turning
  <2>4. {IT, ET} = {a, b} \/ {IT, ET} \cap {a, b} = {}
    BY DEF Turning
  <2> QED
    BY <2>1, <2>2, <2>3, <2>4, CommandNames DEF Chains
<1>8. Replica' /\ AppPlace'
  <2>1. pc'[0][SR] = pc[0][SR]
    BY <1>2, <1>5, CommandNames, DirsFacts
  <2> QED
    BY <1>1, <1>4, <2>1 DEF Control, Replica, AppPlace
<1>9. Places'
  <2>0. e = IF b \in {ES, IT} THEN latest ELSE FbDir
    BY <1>2, ResolveFacts
  <2>1. \A x \in Dirs : /\ pc'[x][ES] # "off" => x = latest'
                        /\ pc'[x][IS] # "off" => x = FbDir'
                        /\ pc'[x][IT] # "off" => x = latest'
                        /\ pc'[x][ET] # "off" => x = FbDir'
    <3>1. ASSUME NEW x \in Dirs, NEW k \in {ES, IS, IT, ET}, pc'[x][k] # "off"
          PROVE  IF k \in {ES, IT} THEN x = latest ELSE x = FbDir
      <4>1. CASE k = b
        BY <1>5, <2>0, <3>1, <4>1
      <4>2. CASE k # b
        <5>0. k # a /\ k \in Commands
          BY <1>5, <3>1, CommandNames
        <5>1. pc[x][k] # "off"
          BY <1>5, <3>1, <4>2, <5>0
        <5> QED
          BY <3>1, <5>1, Mates
      <4> QED
        BY <4>1, <4>2
    <3> QED
      BY <1>4, <3>1
  <2>2. ASSUME Alive(IS)'
        PROVE  /\ "CutoverProcessedBySourceExporter" \in msr[FbDir]
               /\ FbDir < latest => /\ msr[latest] \subseteq {"ParentExportDir"}
                                    /\ dataDir[latest] = "empty"
                                    /\ queue[latest] = <<>>
    <3>1. CASE b = IS
      BY <3>1
    <3>2. CASE b # IS
      BY <1>6, <2>2, <3>2, CommandNames DEF Control, Places
    <3> QED
      BY <3>1, <3>2
  <2>3. ASSUME Alive(IT)' PROVE ~TargetStreamed(msr[latest])
    <3>1. CASE b = IT
      BY <3>1
    <3>2. CASE b # IT
      BY <1>6, <2>3, <3>2, CommandNames DEF Control, Places
    <3> QED
      BY <3>1, <3>2
  <2>4. ASSUME Alive(ET)'
        PROVE  /\ "CutoverProcessedByTargetImporter" \in msr[FbDir]
               /\ FbDir < latest => /\ "ImportDataToTargetStarted" \notin msr[latest]
                                    /\ "CutoverToTargetRequested" \notin msr[latest]
                                    /\ ~TargetStreamed(msr[latest])
    <3>1. CASE b = ET
      BY <3>1
    <3>2. CASE b # ET
      BY <1>6, <2>4, <3>2, CommandNames DEF Control, Places
    <3> QED
      BY <3>1, <3>2
  <2> QED
    BY <1>4, <2>1, <2>2, <2>3, <2>4 DEF Places
<1>10. Owners'
  <2>1. ASSUME NEW x \in Dirs, slot[x]["source"].exists
        PROVE  x = latest /\ ~Alive(IS)' /\ Alive(ES)'
    <3>1. x = latest /\ ~Alive(IS) /\ Alive(ES)
      BY <2>1 DEF Control, Owners
    <3>2. a # ES
      BY <2>1, <3>1, Mates
    <3>3. a # IS
      BY <1>6, <3>1
    <3>4. b # ES /\ b # IS
      BY <3>2, <3>3 DEF Turning
    <3> QED
      BY <1>6, <3>1, <3>2, <3>3, <3>4, CommandNames
  <2>2. ASSUME NEW x \in Dirs, slot[x]["target"].exists
        PROVE  x = FbDir /\ ~Alive(IT)' /\ Alive(ET)'
    <3>1. x = FbDir /\ ~Alive(IT) /\ Alive(ET)
      BY <2>2 DEF Control, Owners
    <3>2. a # ET
      BY <2>2, <3>1, Mates
    <3>3. a # IT
      BY <1>6, <3>1
    <3>4. b # ET /\ b # IT
      BY <3>2, <3>3 DEF Turning
    <3> QED
      BY <1>6, <3>1, <3>2, <3>3, <3>4, CommandNames
  <2> QED
    BY <1>4, <2>1, <2>2 DEF Owners
<1>11. Ending'
  BY <1>4 DEF Control, Ending
<1>12. ASSUME NEW x \in Dirs PROVE DirAt(x)'
  <2>1. DirAt(x)
    BY DEF Control
  <2>2. \A k \in Commands : pc'[x][k] \in {pc[x][k], "off", "init"}
    BY <1>1 DEF PcTurn
  <2>3. x > 0 => pc'[x][SR] = "off"
    BY <1>2, <1>5, <2>1, CommandNames DEF DirAt, DirectoryAt
  <2>4. x > latest => \A k \in Commands : pc'[x][k] = "off"
    <3>1. x > latest => x # e
      <4>1. e = latest \/ e = FbDir
        BY <1>2, ResolveFacts
      <4>2. latest \in Nat /\ latest <= latest /\ FbDir \in Nat /\ FbDir <= latest
        BY LatestFacts
      <4>3. x \in Nat
        BY DirsFacts
      <4>4. e \in Nat /\ e <= latest
        BY <4>1, <4>2
      <4> QED
        BY <4>2, <4>3, <4>4, Below
    <3> QED
      BY <1>1, <2>1, <3>1 DEF PcTurn, DirAt, FutureAt
  <2> QED
    BY <1>3, <2>2, <2>3, <2>4, RestsKept DEF Rests
<1> QED
  BY <1>3, <1>7, <1>8, <1>9, <1>10, <1>11, <1>12 DEF Control

-----------------------------------------------------------------------------
(* The exporters, all of their steps *)

(* Where 'export data from source' is past its cutover, fall-back happens. *)
LEMMA FbDirIsLatest ==
  ASSUME Control, "CutoverToTargetRequested" \in msr[latest]
  PROVE  FbDir = latest /\ ~(FbDir < latest)
<1>1. FbDir = latest
  BY DEF FbDir
<1>2. ~(latest < latest)
  BY LatestFacts
<1> QED
  BY <1>1, <1>2

LEMMA FurtherExporter ==
  ASSUME Control, NEW d \in Dirs, NEW c \in Exporters, pc[d][c] \in {"further", "waitNext"}
  PROVE  /\ ProcessedFlag(Role(d, c)) \in msr[d] /\ (c = ET => WayBack(msr[d]))
         /\ c = ES => ~slot[d]["source"].exists
         /\ c = ET => ~slot[d]["target"].exists
<1>1. OwnStep(d, c, pc[d][c], msr[d], slot[d], exportType[d])
  BY ExporterThere
<1>2. CASE c = ES
  <2>1. "CutoverProcessedBySourceExporter" \in msr[d]
    BY <1>1, <1>2, StepsFacts DEF OwnStep, SourceExporterCutover
  <2>2. ProcessedFlag(Role(d, c)) \in msr[d]
    BY <1>2, <2>1, RoleFacts, ExporterFlagFacts
  <2> QED
    BY <1>2, <2>2, ExporterProcessed
<1>3. CASE c = ET
  <2>1. WayBack(msr[d]) /\ ByRole(msr[d], "CutoverToSourceProcessedByTargetExporter",
                                          "CutoverToSourceReplicaProcessedByTargetExporter")
    BY <1>1, <1>3 DEF OwnStep, TargetExporterCutover
  <2>2. ProcessedFlag(Role(d, c)) \in msr[d]
    BY <1>3, <2>1, RoleFacts, ExporterFlagFacts DEF ByRole
  <2> QED
    BY <1>3, <2>1, <2>2, ExporterProcessed
<1> QED
  BY <1>2, <1>3, CommandNames

LEMMA FurtherAfterExportKept ==
  ASSUME Control, NEW d \in Dirs, NEW c \in Exporters, StartFurtherAfterExport(d, c),
         UNCHANGED userVars
  PROVE  Control'
<1>1. pc[d][c] = "further" /\ UNCHANGED <<msrVars, importType, kills, dataVars, userVars>>
      /\ c \in Commands
  BY CommandNames DEF StartFurtherAfterExport
<1>2. Open
  BY <1>1, OpenSteps
<1>3. /\ ProcessedFlag(Role(d, c)) \in msr[d] /\ (c = ET => WayBack(msr[d]))
      /\ c = ES => ~slot[d]["source"].exists
      /\ c = ET => ~slot[d]["target"].exists
  BY <1>1, FurtherExporter
<1>4. CASE Exit(d, c)
  BY <1>1, <1>2, <1>3, <1>4, EndsKept
<1>5. CASE c = ES /\ FurtherAfterExport(d, Role(d, c)) /\ Exec(d, c, IS)
  <2>1. "FallbackEnabled" \in msr[d] /\ "CutoverProcessedBySourceExporter" \in msr[d]
    BY <1>3, <1>5, RoleFacts, ExporterFlagFacts DEF FurtherAfterExport
  <2>2. d = latest
    BY <1>1, <1>5, Mates
  <2>3. "CutoverToTargetRequested" \in msr[latest]
    BY <2>1, <2>2, RecordsConsistent DEF Consistent, ForwardFlags
  <2>4. FbDir = latest /\ ~(FbDir < latest)
    BY <2>3, FbDirIsLatest
  <2>5. Turning(c, IS) /\ IS \in Commands /\ d = ResolveDir(IS)
    BY <1>5, <2>2, <2>4, ResolveFacts, CommandNames DEF Turning
  <2>6. "CutoverProcessedBySourceExporter" \in msr[FbDir]
    BY <2>1, <2>2, <2>4
  <2> QED
    BY <1>1, <1>2, <1>3, <1>5, <2>4, <2>5, <2>6, TurnsKept
<1>6. CASE c = ET /\ Goto(d, c, "waitNext") /\ UNCHANGED toRun
  BY <1>1, <1>3, <1>6, ExporterGoesFurther
<1> QED
  BY <1>4, <1>5, <1>6, CommandNames DEF StartFurtherAfterExport

LEMMA NextIterationKept ==
  ASSUME Control, NEW d \in Dirs, NEW c \in Exporters, NextIterationReady(d, c), UNCHANGED userVars
  PROVE  Control'
<1>1. /\ pc[d][c] = "waitNext" /\ UNCHANGED <<msrVars, importType, kills, dataVars, userVars>>
      /\ c \in Commands /\ Exec(d, c, IT) /\ "NextIterationInitialized" \in msr[d]
  BY CommandNames DEF NextIterationReady
<1>2. Open
  BY <1>1, OpenSteps
<1>3. c = ET
  <2>1. pc[d][ES] # "waitNext"
    BY CommandNames, StepsFacts DEF Control, DirAt, DirectoryAt
  <2> QED
    BY <1>1, <2>1, CommandNames
<1>4. ~slot[d]["target"].exists
  BY <1>1, <1>3, FurtherExporter
<1>5. d < latest
  BY <1>1, RecordsConsistent DEF Consistent, IterationFlags
<1>6. d = FbDir /\ Alive(ET)
  BY <1>1, <1>3, Mates DEF Alive
<1>7. ~TargetStreamed(msr[latest])
  BY <1>5, <1>6 DEF Control, Places
<1>8. Turning(c, IT) /\ IT \in Commands /\ latest = ResolveDir(IT) /\ latest \in Dirs
  BY <1>3, ResolveFacts, FbDirType, CommandNames DEF Turning
<1> QED
  BY <1>1, <1>2, <1>3, <1>4, <1>7, <1>8, TurnsKept

LEMMA ExporterKept ==
  ASSUME Control, NEW d \in Dirs, NEW c \in Exporters,
         ExporterStep(d, c) \/ NextIterationTimeout(d, c), UNCHANGED userVars
  PROVE  Control'
<1>0. c = ES \/ c = ET
  BY CommandNames
<1>1. CASE ExportInit(d, c)
  BY <1>1, ExportInitKept
<1>2. CASE CreateReplicationSlot(d, c)
  BY <1>2, SlotCreated
<1>3. CASE SaveSlotName(d, c)
  BY <1>0, <1>3, SourceSavesSlotName, TargetSavesSlotName
<1>d. pc[d][ET] \notin {"dump", "exported"}
  BY CommandNames, StepsFacts DEF Control, DirAt, DirectoryAt
<1>4. CASE ExportSnapshot(d, c)
  <2>1. c = ES
    BY <1>0, <1>4, <1>d DEF ExportSnapshot
  <2> QED
    BY <1>4, <2>1, SourceDumps
<1>5. CASE SetDataIsExported(d, c)
  <2>1. c = ES
    BY <1>0, <1>5, <1>d DEF SetDataIsExported
  <2> QED
    BY <1>5, <2>1, SourceIsExported
<1>6. CASE StartDebezium(d, c)
  BY <1>6, DebeziumSpawned
<1>7. CASE DebeziumConnects(d, c)
  BY <1>7, DebeziumConnected
<1>8. CASE HandleSnapshotComplete(d, c)
  BY <1>0, <1>8, SourceStreams, TargetStreams
<1>9. CASE ExportChange(d, c)
  BY <1>9, ChangeExported
<1>10. CASE SwitchOperation(d, c)
  BY <1>10, CutoverExported
<1>11. CASE UpdateCutoverDetectedFlag(d, c)
  BY <1>0, <1>11, SourceDetectsCutover, TargetDetectsCutover
<1>12. CASE DeleteReplicationSlot(d, c)
  BY <1>12, SlotDropped
<1>13. CASE MarkProcessedByExporter(d, c)
  BY <1>0, <1>13, SourceProcessedCutover, TargetProcessedCutover
<1>14. CASE StartFurtherAfterExport(d, c)
  BY <1>14, FurtherAfterExportKept
<1>15. CASE NextIterationReady(d, c)
  BY <1>15, NextIterationKept
<1>16. CASE NextIterationTimeout(d, c)
  <2>1. /\ pc[d][c] = "waitNext" /\ ErrExit(d, c)
        /\ UNCHANGED <<msrVars, importType, kills, dataVars, userVars>>
    BY <1>16 DEF NextIterationTimeout
  <2> QED
    BY <2>1, ExporterFails
<1> QED
  BY <1>1, <1>2, <1>3, <1>4, <1>5, <1>6, <1>7, <1>8, <1>9, <1>10, <1>11, <1>12, <1>13, <1>14,
     <1>15, <1>16 DEF ExporterStep

-----------------------------------------------------------------------------
(* The importers *)

LEMMA ImporterOwnStep ==
  ASSUME NEW d, NEW c \in Importers, NEW l, NEW f, NEW x, NEW type
  PROVE  OwnStep(d, c, l, f, x, type) <=>
           /\ l \in StepsOf(c) /\ ImporterKnows(l, f, DetectedBy(c), ProcessedBy(c))
           /\ c = IS => NextIterationSetUp(d, l, f, latest)
BY CommandNames DEF OwnStep

(* What is known of a running importer, unless it streams. *)
LEMMA ImporterThere ==
  ASSUME Control, NEW d \in Dirs, NEW c \in Importers, pc[d][c] \notin {"off", "stream", "streaming"}
  PROVE  /\ OwnStep(d, c, pc[d][c], msr[d], slot[d], exportType[d])
         /\ pc[d][c] \in StepsOf(c)
         /\ ImporterKnows(pc[d][c], msr[d], DetectedBy(c), ProcessedBy(c))
         /\ c = IS => NextIterationSetUp(d, pc[d][IS], msr[d], latest)
         /\ Consistent(d, msr[d], latest) /\ Open /\ c \in Commands /\ c # ES /\ c # ET
<1>1. Open /\ c \in Commands /\ c # ES /\ c # ET
  BY OpenSteps, CommandNames
<1>2. DirAt(d) /\ Consistent(d, msr[d], latest)
  BY RecordsConsistent DEF Control
<1>3. /\ pc[d][c] \in StepsOf(c)
      /\ ImporterKnows(pc[d][c], msr[d], DetectedBy(c), ProcessedBy(c))
      /\ c = IS => NextIterationSetUp(d, pc[d][IS], msr[d], latest)
  BY <1>1, <1>2 DEF DirAt, DirectoryAt, ImportersAt
<1>4. OwnStep(d, c, pc[d][c], msr[d], slot[d], exportType[d])
  BY <1>3, ImporterOwnStep
<1> QED
  BY <1>1, <1>2, <1>3, <1>4

(* An importer sees a cutover that was requested, then processes it. *)
LEMMA ImporterCutover ==
  ASSUME NEW d, NEW e, NEW n, NEW f, NEW c \in Importers, Consistent(d, f, n)
  PROVE  /\ ProcessedBy(c) \in f => DetectedBy(c) \in f
         /\ DetectedBy(c) \in f => RequestFlag(Role(e, c)) \in f
<1>1. ForwardFlags(f) /\ BackFlags(f) /\ OnwardFlags(f)
  BY DEF Consistent
<1>2. CASE c = IT
  BY <1>1, <1>2, ImporterFlagFacts, RoleFacts, RequestFacts DEF ForwardFlags
<1>3. CASE c = IS
  BY <1>1, <1>3, ImporterFlagFacts, RoleFacts, RequestFacts DEF BackFlags
<1>4. CASE c = SR
  BY <1>1, <1>4, ImporterFlagFacts, RoleFacts, RequestFacts DEF OnwardFlags
<1> QED
  BY <1>2, <1>3, <1>4, CommandNames

(* A step of an importer that only moves on. *)
LEMMA ImporterMoves ==
  ASSUME Control, NEW d \in Dirs, NEW c \in Importers, NEW l,
         pc[d][c] \notin {"off", "stream", "streaming"}, pc[d][c] \in {"init", "enable"} => l \in {"off", "enable"} \/ c # SR,
         Goto(d, c, l), (l # "off" /\ toRun' = toRun) \/ (l = "off" /\ toRun' = toRun \cup {c}),
         UNCHANGED <<msrVars, importType, kills, dataVars, userVars>>,
         l \in StepsOf(c), ImporterKnows(l, msr[d], DetectedBy(c), ProcessedBy(c)),
         c = IS => NextIterationSetUp(d, l, msr[d], latest)
  PROVE  Control'
<1>1. c \in Commands /\ c # ES
  BY CommandNames
<1>2. OwnStep(d, c, l, msr[d], slot[d], exportType[d])
  BY ImporterOwnStep
<1>3. l \in ExporterLabels \cup ImporterLabels
  BY StepsFacts, CommandNames
<1>4. GoesTo(d, c, l)
  BY <1>3 DEF GoesTo
<1> QED
  BY <1>1, <1>2, <1>4, PlainStep

(* An importer that asks to be run again. *)
LEMMA ImporterFails ==
  ASSUME Control, NEW d \in Dirs, NEW c \in Importers, pc[d][c] \notin {"off", "stream", "streaming"},
         ErrExit(d, c), UNCHANGED <<msrVars, importType, kills, dataVars, userVars>>
  PROVE  Control'
<1>1. OwnStep(d, c, "off", msr[d], slot[d], exportType[d])
  BY ImporterThere, OwnStepOff
<1>2. /\ "off" \in StepsOf(c) /\ ImporterKnows("off", msr[d], DetectedBy(c), ProcessedBy(c))
      /\ c = IS => NextIterationSetUp(d, "off", msr[d], latest)
  BY <1>1, ImporterOwnStep
<1> QED
  BY <1>2, ImporterMoves DEF ErrExit

LEMMA ExportIsDoneKept ==
  ASSUME Control, NEW d \in Dirs, NEW c \in Importers, ExportDataIsDone(d, c), UNCHANGED userVars
  PROVE  Control'
<1>1. /\ pc[d][c] = "waitExport" /\ Goto(d, c, "check") /\ toRun' = toRun /\ "ExportDataDone" \in msr[d]
      /\ UNCHANGED <<msrVars, importType, kills, dataVars, userVars>>
  BY DEF ExportDataIsDone
<1>2. "check" \in StepsOf(c)
  BY StepsFacts, CommandNames DEF ImporterLabels
<1>3. ImporterKnows("check", msr[d], DetectedBy(c), ProcessedBy(c)) /\ NextIterationSetUp(d, "check", msr[d], latest)
  BY <1>1 DEF ImporterKnows, NextIterationSetUp
<1> QED
  BY <1>1, <1>2, <1>3, ImporterMoves

LEMMA ImportCheckKept ==
  ASSUME Control, NEW d \in Dirs, NEW c \in Importers, ImportCheckCutover(d, c), UNCHANGED userVars
  PROVE  Control'
<1>1. /\ pc[d][c] = "check" /\ UNCHANGED <<msrVars, importType, kills, dataVars, userVars>>
  BY DEF ImportCheckCutover
<1>2. \/ Exit(d, c)
      \/ ProcessedBy(c) \in msr[d] /\ Goto(d, c, "further") /\ toRun' = toRun
      \/ Goto(d, c, "import") /\ toRun' = toRun
  BY ImporterFlagFacts DEF ImportCheckCutover, isCutoverAlreadyProcessed
<1>3. /\ ImporterKnows("check", msr[d], DetectedBy(c), ProcessedBy(c))
      /\ Consistent(d, msr[d], latest) /\ Open /\ c \in Commands /\ c # ES /\ c # ET
  BY <1>1, ImporterThere
<1>4. CASE Exit(d, c)
  BY <1>1, <1>3, <1>4, EndsKept
<1>5. CASE ProcessedBy(c) \in msr[d] /\ Goto(d, c, "further") /\ toRun' = toRun
  <2>1. DetectedBy(c) \in msr[d]
    BY <1>3, <1>5, ImporterCutover
  <2>2. ImporterKnows("further", msr[d], DetectedBy(c), ProcessedBy(c)) /\ NextIterationSetUp(d, "further", msr[d], latest)
    BY <1>3, <1>5, <2>1 DEF ImporterKnows, NextIterationSetUp, ImporterLabels
  <2>3. "further" \in StepsOf(c)
    BY StepsFacts, CommandNames DEF ImporterLabels
  <2> QED
    BY <1>1, <1>5, <2>2, <2>3, ImporterMoves
<1>6. CASE Goto(d, c, "import") /\ toRun' = toRun
  <2>1. ImporterKnows("import", msr[d], DetectedBy(c), ProcessedBy(c)) /\ NextIterationSetUp(d, "import", msr[d], latest)
    BY <1>3 DEF ImporterKnows, NextIterationSetUp, ImporterLabels
  <2>2. "import" \in StepsOf(c)
    BY StepsFacts, CommandNames DEF ImporterLabels
  <2> QED
    BY <1>1, <1>6, <2>1, <2>2, ImporterMoves
<1> QED
  BY <1>2, <1>4, <1>5, <1>6

LEMMA DebeziumIsStartedKept ==
  ASSUME Control, NEW d \in Dirs, NEW c \in Importers, DebeziumIsStarted(d, c), UNCHANGED userVars
  PROVE  Control'
<1>1. /\ pc[d][c] = "waitDebezium" /\ toRun' = toRun
      /\ UNCHANGED <<msrVars, importType, kills, dataVars, userVars>>
  BY DEF DebeziumIsStarted
<1>2. /\ ImporterKnows("waitDebezium", msr[d], DetectedBy(c), ProcessedBy(c))
      /\ Consistent(d, msr[d], latest)
  BY <1>1, ImporterThere
<1>3. DetectedBy(c) \in msr[d] => RequestFlag(Role(d, c)) \in msr[d]
  BY <1>2, ImporterCutover
<1>4. PICK l \in {"post", "stream"} : Goto(d, c, l) /\ (l = "post" <=> DetectedBy(c) \in msr[d])
  <2>1. PICK x : x = RequestFlag(Role(d, c))
    OBVIOUS
  <2>2. DetectedFlag(Role(d, c)) = DetectedBy(c)
    BY ImporterFlagFacts
  <2>3. Goto(d, c, IF {x, DetectedBy(c)} \subseteq msr[d] THEN "post" ELSE "stream")
    BY <2>1, <2>2 DEF DebeziumIsStarted
  <2>4. {x, DetectedBy(c)} \subseteq msr[d] <=> DetectedBy(c) \in msr[d]
    BY <1>3, <2>1
  <2>5. CASE DetectedBy(c) \in msr[d]
    BY <2>3, <2>4, <2>5
  <2>6. CASE DetectedBy(c) \notin msr[d]
    BY <2>3, <2>4, <2>6
  <2> QED
    BY <2>5, <2>6
<1>5. ImporterKnows(l, msr[d], DetectedBy(c), ProcessedBy(c)) /\ NextIterationSetUp(d, l, msr[d], latest)
  BY <1>2, <1>4 DEF ImporterKnows, NextIterationSetUp, ImporterLabels
<1>6. l \in StepsOf(c) /\ l # "off"
  BY <1>4, StepsFacts, CommandNames DEF ImporterLabels
<1> QED
  BY <1>1, <1>4, <1>5, <1>6, ImporterMoves

LEMMA ExporterProcessedKept ==
  ASSUME Control, NEW d \in Dirs, NEW c \in Importers, ExporterHasProcessed(d, c), UNCHANGED userVars
  PROVE  Control'
<1>1. /\ pc[d][c] = "waitExporter" /\ Goto(d, c, "further") /\ toRun' = toRun
      /\ UNCHANGED <<msrVars, importType, kills, dataVars, userVars>>
  BY DEF ExporterHasProcessed
<1>2. ImporterKnows("waitExporter", msr[d], DetectedBy(c), ProcessedBy(c))
  BY <1>1, ImporterThere
<1>3. "further" \in StepsOf(c)
  BY StepsFacts, CommandNames DEF ImporterLabels
<1>4. ImporterKnows("further", msr[d], DetectedBy(c), ProcessedBy(c)) /\ NextIterationSetUp(d, "further", msr[d], latest)
  BY <1>2 DEF ImporterKnows, NextIterationSetUp, ImporterLabels
<1> QED
  BY <1>1, <1>3, <1>4, ImporterMoves

(* A step of an importer that may import data and write to its record. *)
LEMMA MoveStep ==
  ASSUME Control, Open, NEW d \in Dirs, NEW c \in Importers, NEW l, NEW fs, NEW g,
         Continues(d, c, l), MsrAt(d, fs), g = msr[d] \cup fs, ModestFlags(d, c, fs),
         c = SR => l \in {"off", "init", "enable"} \/ pc[d][c] \notin {"off", "init", "enable"},
         exportType' = exportType, latest' = latest, dataDir' = dataDir, queue' = queue,
         UNCHANGED userVars, \A e \in Dirs : SlotsStay(e), \A e \in Dirs : e # d => done'[e] = done[e],
         OwnStep(d, c, l, g, slot'[d], exportType[d]), Consistent(d, g, latest), TypeOK'
  PROVE  Control'
<1>1. app' = app /\ ending' = ending /\ ended' = ended /\ c \in Commands /\ c # ES /\ c # ET
  BY CommandNames DEF userVars, endVars
<1>2. PcAt(d, c, l) /\ pc[d][c] # "off" /\ msr'[d] = g
  BY DEF Continues, MsrAt
<1>3. OwnSlot(d, c)
  BY DEF OwnSlot, SlotsStay
<1>4. Elsewhere(d)
  BY <1>2 DEF Elsewhere, PcAt, MsrAt
<1>5. ModestStep(d, c, fs)
  BY <1>1, <1>4 DEF ModestStep, ModestFlags
<1>6. Open = TRUE /\ Open' = TRUE
  BY <1>1 DEF Open
<1>7. FlagsAt(d)'
  BY <1>2 DEF FlagsAt, Consistent
<1>8. DirAt(d) /\ EventsRequested(queue[d], msr[d]) /\ StatusFile(pc[d][ES], msr[d], dataDir[d], queue[d], TRUE)
      /\ (d > 0 => exportType[d] # SNAPSHOT_AND_CHANGES) /\ (d = 0 => exportType[d] # CHANGES_ONLY)
  BY <1>6 DEF Control, DirAt, DirectoryAt
<1>9. EventsRequested(queue'[d], msr'[d])
  BY <1>2, <1>8, EventsMore
<1>10. StatusFile(pc'[d][ES], msr'[d], dataDir'[d], queue'[d], TRUE)
  <2>1. pc'[d][ES] = pc[d][ES] /\ "ExportDataFromSourceStarted" \notin fs
    BY <1>1, <1>2, CommandNames DEF PcAt, ModestFlags, OwnFlags
  <2>2. StatusFile(pc[d][ES], g, dataDir[d], queue[d], TRUE)
    BY <1>8, <2>1, StatusFileMore
  <2> QED
    BY <1>2, <2>1, <2>2
<1>11. DirAt(d)'
  <2>1. OwnStep(d, c, l, msr'[d], slot'[d], exportType'[d])
    BY <1>2
  <2>2. OwnFlags(c, fs)
    BY DEF ModestFlags
  <2>3. /\ d > 0 => exportType'[d] # SNAPSHOT_AND_CHANGES
        /\ d = 0 => exportType'[d] # CHANGES_ONLY
    BY <1>8
  <2> QED
    BY <1>1, <1>2, <1>3, <1>6, <1>7, <1>9, <1>10, <2>1, <2>2, <2>3, DirectoryKept
<1> QED
  BY <1>1, <1>3, <1>5, <1>11, StepKept

LEMMA ImportInitKept ==
  ASSUME Control, NEW d \in Dirs, NEW c \in Importers, ImportInit(d, c), UNCHANGED userVars
  PROVE  Control'
<1>1. pc[d][c] = "init" /\ UNCHANGED <<msrVars, kills, dataVars, userVars>> /\ c \in Commands
  BY CommandNames DEF ImportInit
<1>2. /\ ImporterKnows("init", msr[d], DetectedBy(c), ProcessedBy(c))
      /\ Consistent(d, msr[d], latest) /\ Open
  BY <1>1, ImporterThere
<1>3. ASSUME NEW l \in {"waitExport", "enable"}
      PROVE  ImporterKnows(l, msr[d], DetectedBy(c), ProcessedBy(c)) /\ NextIterationSetUp(d, l, msr[d], latest)
  BY <1>2 DEF ImporterKnows, NextIterationSetUp
<1>4. "waitExport" \in StepsOf(c) /\ "enable" \in StepsOf(SR)
  BY StepsFacts, CommandNames DEF ImporterLabels
<1>5. CASE c = IT
  <2>1. importType' = [importType EXCEPT ![d] = exportType[d]] /\ Goto(d, c, "waitExport") /\ toRun' = toRun
    BY <1>5 DEF ImportInit
  <2>2. /\ TypeOK /\ msr' = msr /\ exportType' = exportType /\ latest' = latest /\ kills' = kills
        /\ dataDir' = dataDir /\ files' = files /\ queue' = queue /\ done' = done /\ db' = db
        /\ slot' = slot /\ app' = app /\ written' = written /\ ending' = ending /\ ended' = ended
    BY <1>1 DEF Control, msrVars, dataVars, userVars, endVars
  <2>3. TypeOK'
    <3>1. importType' \in [Dirs -> ExportTypes]
      BY <2>1, <2>2 DEF TypeOK, MSRTypeOK
    <3>2. pc' \in [Dirs -> [Commands -> ExporterLabels \cup ImporterLabels]]
      <4>1. "waitExport" \in ExporterLabels \cup ImporterLabels
        BY DEF ImporterLabels
      <4> QED
        BY <2>1, <2>2, <4>1 DEF TypeOK, Goto
    <3> QED
      BY <2>1, <2>2, <3>1, <3>2 DEF TypeOK, MSRTypeOK, EndTypeOK
  <2>4. Continues(d, c, "waitExport")
    BY <1>1, <2>1, <2>2, GotoAt DEF Continues
  <2>5. MsrAt(d, {}) /\ msr[d] = msr[d] \cup {} /\ ModestFlags(d, c, {})
    BY <2>2, NoRecordChange, NoFlags
  <2>6. (\A e \in Dirs : SlotsStay(e)) /\ (\A e \in Dirs : e # d => done'[e] = done[e]) /\ c # SR
    BY <1>5, <2>2 DEF SlotsStay
  <2>7. OwnStep(d, c, "waitExport", msr[d], slot'[d], exportType[d])
    BY <1>3, <1>4, ImporterOwnStep
  <2> QED
    BY <1>1, <1>2, <2>2, <2>3, <2>4, <2>5, <2>6, <2>7, MoveStep
<1>6. CASE c # IT
  <2>1. /\ importType' = importType
        /\ \/ ErrExit(d, c)
           \/ c = IS /\ Goto(d, c, "waitExport") /\ toRun' = toRun
           \/ c = SR /\ Goto(d, c, "enable") /\ toRun' = toRun
    BY <1>6, CommandNames DEF ImportInit
  <2>2. UNCHANGED <<msrVars, importType, kills, dataVars, userVars>>
    BY <1>1, <2>1
  <2>3. CASE ErrExit(d, c)
    BY <1>1, <2>2, <2>3, ImporterFails
  <2>4. CASE c = IS /\ Goto(d, c, "waitExport") /\ toRun' = toRun
    BY <1>1, <1>3, <1>4, <2>2, <2>4, ImporterMoves
  <2>5. CASE c = SR /\ Goto(d, c, "enable") /\ toRun' = toRun
    BY <1>1, <1>3, <1>4, <2>2, <2>5, ImporterMoves
  <2> QED
    BY <2>1, <2>3, <2>4, <2>5
<1> QED
  BY <1>5, <1>6

LEMMA ImportStartedKept ==
  ASSUME Control, NEW d \in Dirs, NEW c \in Importers, ImportStarted(d, c), UNCHANGED userVars
  PROVE  Control'
<1>f. PICK fs : fs = CASE c = IT -> {"ImportDataToTargetStarted"}
                       [] c = IS -> {"ImportDataToSourceStarted"}
                       [] OTHER -> {}
  OBVIOUS
<1>g. PICK g : g = msr[d] \cup fs
  OBVIOUS
<1>1. /\ pc[d][c] = "import" /\ Set(d, fs)
      /\ UNCHANGED <<exportType, latest, importType, kills, dataVars, userVars>>
  BY <1>f DEF ImportStarted
<1>2. PICK l \in {"snapshot", "waitDebezium", "off"} :
        /\ Goto(d, c, l) /\ (c = IS => l # "snapshot")
        /\ (l # "off" /\ toRun' = toRun) \/ (l = "off" /\ toRun' = toRun \cup {c})
  <2>1. CASE ErrExit(d, c)
    BY <2>1 DEF ErrExit
  <2>2. CASE toRun' = toRun /\ Goto(d, c, IF importSnapshotRequired(d, c) THEN "snapshot" ELSE "waitDebezium")
    <3>1. c = IS => ~importSnapshotRequired(d, c)
      BY DEF importSnapshotRequired
    <3>2. CASE importSnapshotRequired(d, c)
      <4>1. Goto(d, c, "snapshot") /\ toRun' = toRun /\ c # IS
        BY <2>2, <3>1, <3>2
      <4> QED
        BY <4>1
    <3>3. CASE ~importSnapshotRequired(d, c)
      <4>1. Goto(d, c, "waitDebezium") /\ toRun' = toRun
        BY <2>2, <3>3
      <4> QED
        BY <4>1
    <3> QED
      BY <3>2, <3>3
  <2> QED
    BY <2>1, <2>2 DEF ImportStarted
<1>3. /\ ImporterKnows("import", msr[d], DetectedBy(c), ProcessedBy(c))
      /\ Consistent(d, msr[d], latest) /\ Open /\ c \in Commands /\ c # ES /\ c # ET
  BY <1>1, ImporterThere
<1>4. fs \subseteq UnwatchedFlags /\ fs \subseteq Flags
      /\ ("ImportDataToTargetStarted" \in fs => c = IT)
      /\ fs \subseteq {"ImportDataToTargetStarted", "ImportDataToSourceStarted"}
  <2>1. fs \subseteq {"ImportDataToTargetStarted", "ImportDataToSourceStarted"}
        /\ ("ImportDataToTargetStarted" \in fs => c = IT)
    BY <1>f
  <2> QED
    BY <2>1 DEF UnwatchedFlags, Flags
<1>5. Consistent(d, g, latest)
  BY <1>g, <1>3, <1>4, UnwatchedSet
<1>6. "ExportDataDone" \in msr[d]
  BY <1>3 DEF ImporterKnows, ImporterLabels
<1>7. ModestFlags(d, c, fs)
  <2>1. \A k \in Importers : DetectedBy(k) \notin fs
    BY <1>4, ImporterFlagFacts, CommandNames
  <2> QED
    BY <1>3, <1>4, <1>6, <2>1 DEF ModestFlags, OwnFlags, TargetStreamed, PlaceFlags, TargetExporterFlags,
       SourceExporterFlags
<1>8. OwnStep(d, c, l, g, slot[d], exportType[d])
  <2>1. ImporterKnows(l, msr[d], DetectedBy(c), ProcessedBy(c)) /\ NextIterationSetUp(d, l, msr[d], latest)
    BY <1>2, <1>6 DEF ImporterKnows, NextIterationSetUp
  <2>2. DetectedBy(c) \notin fs
    BY <1>4, ImporterFlagFacts, CommandNames
  <2>3. ImporterKnows(l, g, DetectedBy(c), ProcessedBy(c)) /\ NextIterationSetUp(d, l, g, latest)
    BY <1>g, <2>1, <2>2, ImporterMore, SetUpMore
  <2>4. l \in StepsOf(c)
    BY <1>2, StepsFacts, CommandNames DEF ImporterLabels
  <2> QED
    BY <2>3, <2>4, ImporterOwnStep
<1>9. GoesTo(d, c, l)
  BY <1>1, <1>2 DEF GoesTo, ImporterLabels
<1> QED
  BY <1>g, <1>1, <1>3, <1>5, <1>7, <1>8, <1>9, RecordStep

LEMMA MarkProcessedKept ==
  ASSUME Control, NEW d \in Dirs, NEW c \in Importers, MarkProcessedByImporter(d, c), UNCHANGED userVars
  PROVE  Control'
<1>x. PICK x : x = ProcessedBy(c)
  OBVIOUS
<1>f. PICK fs : fs = {x}
  OBVIOUS
<1>g. PICK g : g = msr[d] \cup fs
  OBVIOUS
<1>1. /\ pc[d][c] = "post" /\ Set(d, fs) /\ Goto(d, c, "waitExporter") /\ toRun' = toRun
      /\ UNCHANGED <<exportType, latest, importType, kills, dataVars, userVars>>
  BY <1>f, <1>x, ImporterFlagFacts DEF MarkProcessedByImporter
<1>3. /\ ImporterKnows("post", msr[d], DetectedBy(c), ProcessedBy(c))
      /\ Consistent(d, msr[d], latest) /\ Open /\ c \in Commands /\ c # ES /\ c # ET
  BY <1>1, ImporterThere
<1>4. DetectedBy(c) \in msr[d] /\ "ExportDataDone" \in msr[d]
  BY <1>3 DEF ImporterKnows, ImporterLabels
<1>5. x \in {"CutoverProcessedByTargetImporter", "CutoverToSourceProcessedBySourceImporter",
             "CutoverToSourceReplicaProcessedBySRImporter"}
  BY <1>x, ImporterFlagFacts, CommandNames
<1>6. Justified(x, msr[d])
  <2>1. CASE c = IT
    BY <1>x, <1>4, <2>1, ImporterFlagFacts DEF Justified
  <2>2. CASE c = IS
    BY <1>x, <1>4, <2>2, ImporterFlagFacts DEF Justified
  <2>3. CASE c = SR
    BY <1>x, <1>4, <2>3, ImporterFlagFacts DEF Justified
  <2> QED
    BY <2>1, <2>2, <2>3, CommandNames
<1>7. Consistent(d, g, latest)
  <2>1. x \notin TurningFlags /\ x # "RestartDataMigrationSourceTargetNextIteration"
        /\ x # "NextIterationInitialized"
    BY <1>5 DEF TurningFlags, PlaceFlags
  <2>2. g = msr[d] \cup {x}
    BY <1>f, <1>g
  <2> QED
    BY <1>3, <1>6, <2>1, <2>2, JustifiedSet
<1>8. ModestFlags(d, c, fs)
  <2>1. \A k \in Importers : DetectedBy(k) \notin fs
    BY <1>f, <1>5, ImporterFlagFacts, CommandNames
  <2> QED
    BY <1>f, <1>3, <1>4, <1>5, <2>1 DEF ModestFlags, OwnFlags, TargetStreamed, PlaceFlags,
       TargetExporterFlags, SourceExporterFlags, Flags
<1>9. OwnStep(d, c, "waitExporter", g, slot[d], exportType[d])
  <2>1. "ExportDataDone" \in g /\ DetectedBy(c) \in g /\ ProcessedBy(c) \in g
    BY <1>x, <1>f, <1>g, <1>4
  <2>2. ImporterKnows("waitExporter", g, DetectedBy(c), ProcessedBy(c)) /\ NextIterationSetUp(d, "waitExporter", g, latest)
    BY <2>1 DEF ImporterKnows, NextIterationSetUp
  <2>3. "waitExporter" \in StepsOf(c)
    BY StepsFacts, CommandNames DEF ImporterLabels
  <2> QED
    BY <2>2, <2>3, ImporterOwnStep
<1>10. GoesTo(d, c, "waitExporter")
  BY <1>1 DEF GoesTo, ImporterLabels
<1> QED
  BY <1>g, <1>1, <1>3, <1>7, <1>8, <1>9, <1>10, RecordStep

LEMMA SetInitializedKept ==
  ASSUME Control, NEW d \in Dirs, NEW c \in Importers, SetNextIterationInitialized(d, c), UNCHANGED userVars
  PROVE  Control'
<1>x. PICK x : x = "NextIterationInitialized"
  OBVIOUS
<1>f. PICK fs : fs = {x}
  OBVIOUS
<1>g. PICK g : g = msr[d] \cup fs
  OBVIOUS
<1>1. /\ pc[d][c] = "setInitialized" /\ Set(d, fs) /\ Goto(d, c, "execNext") /\ toRun' = toRun
      /\ UNCHANGED <<exportType, latest, importType, kills, dataVars, userVars>>
  BY <1>f, <1>x DEF SetNextIterationInitialized
<1>2. /\ ImporterKnows("setInitialized", msr[d], DetectedBy(c), ProcessedBy(c))
      /\ pc[d][c] \in StepsOf(c) /\ (c = IS => NextIterationSetUp(d, pc[d][IS], msr[d], latest))
      /\ Consistent(d, msr[d], latest) /\ Open /\ c \in Commands /\ c # ES /\ c # ET
  BY <1>1, ImporterThere
<1>3. c = IS
  BY <1>1, <1>2, StepsFacts, CommandNames
<1>4. NextIterationSetUp(d, "setInitialized", msr[d], latest)
  BY <1>1, <1>2, <1>3
<1>5. d < latest
  <2>1. latest = d + 1
    BY <1>4 DEF NextIterationSetUp
  <2>2. d \in Nat
    BY DirsFacts
  <2> QED
    BY <2>1, <2>2
<1>6. Consistent(d, g, latest)
  <2>1. x \notin TurningFlags /\ x # "RestartDataMigrationSourceTargetNextIteration"
    BY <1>x DEF TurningFlags, PlaceFlags
  <2>2. g = msr[d] \cup {x} /\ Justified(x, msr[d])
    BY <1>f, <1>g, <1>x DEF Justified
  <2> QED
    BY <1>2, <1>5, <2>1, <2>2, JustifiedSet
<1>7. ModestFlags(d, c, fs)
  <2>1. \A k \in Importers : DetectedBy(k) \notin fs
    BY <1>f, <1>x, ImporterFlagFacts, CommandNames
  <2> QED
    BY <1>f, <1>x, <1>2, <1>3, <2>1 DEF ModestFlags, OwnFlags, TargetStreamed, PlaceFlags,
       TargetExporterFlags, SourceExporterFlags, Flags
<1>8. OwnStep(d, c, "execNext", g, slot[d], exportType[d])
  <2>1. ImporterKnows("execNext", msr[d], DetectedBy(c), ProcessedBy(c)) /\ NextIterationSetUp(d, "execNext", msr[d], latest)
    BY <1>2, <1>4 DEF ImporterKnows, NextIterationSetUp, ImporterLabels
  <2>2. ImporterKnows("execNext", g, DetectedBy(c), ProcessedBy(c)) /\ NextIterationSetUp(d, "execNext", g, latest)
    BY <1>g, <2>1, ImporterMore, SetUpMore
  <2>3. "execNext" \in StepsOf(c)
    BY <1>3, StepsFacts DEF ImporterLabels
  <2> QED
    BY <2>2, <2>3, ImporterOwnStep
<1>9. GoesTo(d, c, "execNext")
  BY <1>1 DEF GoesTo, ImporterLabels
<1> QED
  BY <1>g, <1>1, <1>2, <1>6, <1>7, <1>8, <1>9, RecordStep

LEMMA StartNextKept ==
  ASSUME Control, NEW d \in Dirs, NEW c \in Importers, StartNextIteration(d, c), UNCHANGED userVars
  PROVE  Control'
<1>1. /\ pc[d][c] = "execNext" /\ Exec(d, c, ES)
      /\ UNCHANGED <<msrVars, importType, kills, dataVars, userVars>>
  BY DEF StartNextIteration
<1>2. pc[d][c] \in StepsOf(c) /\ Open /\ c \in Commands
  BY <1>1, ImporterThere
<1>3. c = IS
  BY <1>1, <1>2, StepsFacts, CommandNames
<1>4. Turning(c, ES) /\ ES \in Commands /\ latest = ResolveDir(ES) /\ latest \in Dirs
  BY <1>3, ResolveFacts, FbDirType, CommandNames DEF Turning
<1> QED
  BY <1>1, <1>2, <1>3, <1>4, TurnsKept

LEMMA FurtherAfterImportKept ==
  ASSUME Control, NEW d \in Dirs, NEW c \in Importers, StartFurtherAfterImport(d, c), UNCHANGED userVars
  PROVE  Control'
<1>1. pc[d][c] = "further" /\ UNCHANGED <<msrVars, importType, kills, dataVars, userVars>>
  BY DEF StartFurtherAfterImport
<1>2. /\ ImporterKnows("further", msr[d], DetectedBy(c), ProcessedBy(c))
      /\ Consistent(d, msr[d], latest) /\ Open /\ c \in Commands /\ c # ES /\ c # ET
  BY <1>1, ImporterThere
<1>3. \/ Exit(d, c)
      \/ c = IT /\ Exec(d, c, ET)
      \/ c = IS /\ "RestartDataMigrationSourceTargetNextIteration" \in msr[d]
         /\ Goto(d, c, "setLatest") /\ toRun' = toRun
      \/ ErrExit(d, c)
  BY CommandNames DEF StartFurtherAfterImport, FurtherAfterImport
<1>4. CASE Exit(d, c)
  BY <1>1, <1>2, <1>4, EndsKept
<1>5. CASE c = IT /\ Exec(d, c, ET)
  <2>1. "CutoverProcessedByTargetImporter" \in msr[d]
    BY <1>2, <1>5, ImporterFlagFacts DEF ImporterKnows
  <2>2. d = latest
    BY <1>1, <1>5, Mates
  <2>3. "CutoverToTargetRequested" \in msr[latest]
    BY <1>2, <2>1, <2>2, ConsistentFacts
  <2>4. FbDir = latest /\ ~(FbDir < latest)
    BY <2>3, FbDirIsLatest
  <2>5. Turning(c, ET) /\ ET \in Commands /\ d = ResolveDir(ET)
    BY <1>5, <2>2, <2>4, ResolveFacts, CommandNames DEF Turning
  <2>6. "CutoverProcessedByTargetImporter" \in msr[FbDir]
    BY <2>1, <2>2, <2>4
  <2> QED
    BY <1>1, <1>2, <1>5, <2>4, <2>5, <2>6, TurnsKept
<1>6. CASE c = IS /\ "RestartDataMigrationSourceTargetNextIteration" \in msr[d]
           /\ Goto(d, c, "setLatest") /\ toRun' = toRun
  <2>1. ImporterKnows("setLatest", msr[d], DetectedBy(c), ProcessedBy(c)) /\ NextIterationSetUp(d, "setLatest", msr[d], latest)
    BY <1>2, <1>6 DEF ImporterKnows, NextIterationSetUp, ImporterLabels
  <2>2. "setLatest" \in StepsOf(c)
    BY <1>6, StepsFacts DEF ImporterLabels
  <2> QED
    BY <1>1, <1>6, <2>1, <2>2, ImporterMoves
<1>7. CASE ErrExit(d, c)
  BY <1>1, <1>7, ImporterFails
<1> QED
  BY <1>3, <1>4, <1>5, <1>6, <1>7

(* Fall-forward is enabled before any cutover. *)
LEMMA FallForwardConsistent ==
  ASSUME NEW n, NEW f, NEW g, g = f \cup {"FallForwardEnabled"}, Consistent(0, f, n),
         "CutoverToTargetRequested" \notin f
  PROVE  Consistent(0, g, n)
<1>1. ForwardFlags(g)
  BY DEF Consistent, ForwardFlags
<1>2. BackFlags(g)
  BY DEF Consistent, BackFlags
<1>3. OnwardFlags(g)
  BY DEF Consistent, OnwardFlags
<1>4. IterationFlags(0, g, n)
  BY DEF Consistent, IterationFlags
<1> QED
  BY <1>1, <1>2, <1>3, <1>4 DEF Consistent

LEMMA EnableFallForwardKept ==
  ASSUME Control, NEW d \in Dirs, NEW c \in Importers, EnableFallForward(d, c), UNCHANGED userVars
  PROVE  Control'
<1>f. PICK fs : fs = {"FallForwardEnabled"}
  OBVIOUS
<1>g. PICK g : g = msr[d] \cup fs
  OBVIOUS
<1>1. /\ pc[d][c] = "enable" /\ Set(d, fs) /\ Goto(d, c, "waitExport") /\ toRun' = toRun
      /\ UNCHANGED <<exportType, latest, importType, kills, dataVars, userVars>>
  BY <1>f DEF EnableFallForward
<1>2. /\ ImporterKnows("enable", msr[d], DetectedBy(c), ProcessedBy(c))
      /\ pc[d][c] \in StepsOf(c)
      /\ Consistent(d, msr[d], latest) /\ Open /\ c \in Commands /\ c # ES /\ c # ET
  BY <1>1, ImporterThere
<1>3. c = SR
  BY <1>1, <1>2, StepsFacts, CommandNames
<1>4. d = 0 /\ TypeOK
  BY <1>1, <1>3, Mates DEF Control
<1>5. MsrAt(d, fs) /\ msr'[d] = g /\ "FallForwardEnabled" \in msr'[d]
  BY <1>f, <1>g, <1>1, <1>4, SetAt DEF MsrAt
<1>6. GoesTo(d, c, "waitExport")
  BY <1>1, <1>5 DEF GoesTo, ImporterLabels
<1>7. OwnStep(d, c, "waitExport", g, slot[d], exportType[d])
  <2>1. ImporterKnows("waitExport", msr[d], DetectedBy(c), ProcessedBy(c))
    BY <1>2 DEF ImporterKnows
  <2>2. DetectedBy(c) \notin fs
    BY <1>f, <1>3, ImporterFlagFacts
  <2>3. ImporterKnows("waitExport", g, DetectedBy(c), ProcessedBy(c))
    BY <1>g, <2>1, <2>2, ImporterMore
  <2>4. "waitExport" \in StepsOf(c)
    BY <1>3, StepsFacts DEF ImporterLabels
  <2> QED
    BY <1>3, <2>3, <2>4, ImporterOwnStep
<1>8. CASE "FallForwardEnabled" \in msr[d]
  <2>1. g = msr[d]
    BY <1>f, <1>g, <1>8
  <2>2. msr' = msr
    BY <1>1, <1>4, <1>f, <1>8 DEF Set, TypeOK, MSRTypeOK
  <2>3. UNCHANGED <<msrVars, importType, kills, dataVars, userVars>>
    BY <1>1, <2>2 DEF msrVars
  <2> QED
    BY <1>2, <1>6, <1>7, <2>1, <2>3, PlainStep
<1>9. CASE "FallForwardEnabled" \notin msr[d]
  <2>1. "CutoverToTargetRequested" \notin msr[d]
    BY <1>1, <1>3, <1>4, <1>9 DEF Control, Replica
  <2>2. app.at # "target"
    <3>1. "CutoverDetectedByTargetImporter" \notin msr[0]
      BY <1>2, <1>4, <2>1 DEF Consistent, ForwardFlags
    <3> QED
      BY <3>1 DEF Control, AppPlace
  <2>3. Consistent(d, g, latest)
    BY <1>f, <1>g, <1>2, <1>4, <2>1, FallForwardConsistent
  <2>4. ModestFlags(d, c, fs)
    <3>1. \A k \in Importers : DetectedBy(k) \notin fs
      BY <1>f, ImporterFlagFacts, CommandNames
    <3> QED
      BY <1>f, <1>2, <1>3, <2>2, <3>1 DEF ModestFlags, OwnFlags, TargetStreamed, PlaceFlags,
         TargetExporterFlags, SourceExporterFlags, Flags
  <2> QED
    BY <1>g, <1>1, <1>2, <1>6, <1>7, <2>3, <2>4, RecordStep
<1> QED
  BY <1>8, <1>9

(* Writes land in a database and in slots that stay. *)
LEMMA WriteKeeps ==
  ASSUME TypeOK, NEW name \in Databases, NEW ws \in SUBSET Writes, Write(name, ws)
  PROVE  /\ db' \in [Databases -> SUBSET Writes]
         /\ slot' \in [Dirs -> [{"source", "target"} -> SlotValue]]
         /\ \A e \in Dirs : SlotsStay(e)
<1>1. db' \in [Databases -> SUBSET Writes]
  BY DEF TypeOK, Write
<1>e. PICK E : E = {"source", "target"}
  OBVIOUS
<1>2. slot \in [Dirs -> [E -> SlotValue]]
  BY <1>e, DataTypes DEF SlotValue
<1>3. ASSUME NEW v \in SlotValue
      PROVE  /\ [v EXCEPT !.pending = @ \cup ws] \in SlotValue
             /\ [v EXCEPT !.pending = @ \cup ws].exists = v.exists
  BY DEF SlotValue
<1>4. slot' = [d \in Dirs |-> [s \in E |->
                IF s = name /\ slot[d][s].exists
                THEN [slot[d][s] EXCEPT !.pending = @ \cup ws]
                ELSE slot[d][s]]]
  BY <1>e DEF Write
<1>5. ASSUME NEW d \in Dirs, NEW s \in E
      PROVE  slot'[d][s] \in SlotValue /\ slot'[d][s].exists = slot[d][s].exists
  <2>1. slot[d][s] \in SlotValue
    BY <1>2
  <2>2. slot'[d][s] = slot[d][s] \/ slot'[d][s] = [slot[d][s] EXCEPT !.pending = @ \cup ws]
    BY <1>4
  <2> QED
    BY <1>3, <2>1, <2>2
<1>6. slot' \in [Dirs -> [E -> SlotValue]]
  <2>1. slot' = [d \in Dirs |-> [s \in E |-> slot'[d][s]]]
    BY <1>4
  <2> QED
    BY <1>5, <2>1
<1> QED
  BY <1>e, <1>1, <1>5, <1>6 DEF SlotsStay

LEMMA ImportSnapshotKept ==
  ASSUME Control, NEW d \in Dirs, NEW c \in Importers, ImportSnapshot(d, c), UNCHANGED userVars
  PROVE  Control'
<1>1. /\ pc[d][c] = "snapshot" /\ Write(DestinationOf(c), files) /\ Goto(d, c, "waitDebezium")
      /\ msr' = msr /\ exportType' = exportType /\ latest' = latest /\ importType' = importType
      /\ toRun' = toRun /\ kills' = kills /\ dataDir' = dataDir /\ files' = files /\ queue' = queue
      /\ done' = done /\ app' = app /\ written' = written /\ ending' = ending /\ ended' = ended
  BY DEF ImportSnapshot, msrVars, userVars, endVars
<1>2. /\ ImporterKnows("snapshot", msr[d], DetectedBy(c), ProcessedBy(c))
      /\ Consistent(d, msr[d], latest) /\ Open /\ c \in Commands /\ TypeOK
  BY <1>1, ImporterThere DEF Control
<1>3. /\ db' \in [Databases -> SUBSET Writes]
      /\ slot' \in [Dirs -> [{"source", "target"} -> SlotValue]]
      /\ \A e \in Dirs : SlotsStay(e)
  <2>1. DestinationOf(c) \in Databases /\ files \in SUBSET Writes
    BY <1>2, DataTypes, CommandNames DEF DestinationOf, Databases
  <2> QED
    BY <1>1, <1>2, <2>1, WriteKeeps
<1>4. TypeOK'
  <2>1. pc' \in [Dirs -> [Commands -> ExporterLabels \cup ImporterLabels]]
    <3>1. "waitDebezium" \in ExporterLabels \cup ImporterLabels
      BY DEF ImporterLabels
    <3> QED
      BY <1>1, <1>2, <3>1 DEF TypeOK, Goto
  <2> QED
    BY <1>1, <1>2, <1>3, <2>1 DEF TypeOK, MSRTypeOK, EndTypeOK, SlotValue
<1>5. Continues(d, c, "waitDebezium")
  BY <1>1, <1>2, GotoAt DEF Continues
<1>6. MsrAt(d, {}) /\ msr[d] = msr[d] \cup {} /\ ModestFlags(d, c, {})
  BY <1>1, <1>2, NoRecordChange, NoFlags
<1>7. OwnStep(d, c, "waitDebezium", msr[d], slot'[d], exportType[d])
  <2>1. ImporterKnows("waitDebezium", msr[d], DetectedBy(c), ProcessedBy(c)) /\ NextIterationSetUp(d, "waitDebezium", msr[d], latest)
    BY <1>2 DEF ImporterKnows, NextIterationSetUp, ImporterLabels
  <2>2. "waitDebezium" \in StepsOf(c)
    BY StepsFacts, CommandNames DEF ImporterLabels
  <2> QED
    BY <2>1, <2>2, ImporterOwnStep
<1>8. UNCHANGED userVars /\ \A e \in Dirs : e # d => done'[e] = done[e]
  BY <1>1
<1> QED
  BY <1>1, <1>2, <1>3, <1>4, <1>5, <1>6, <1>7, <1>8, MoveStep

LEMMA Smallest ==
  ASSUME NEW S \in SUBSET Nat, S # {}
  PROVE  \E x \in S : \A y \in S : x <= y
<1>1. \E x \in S : \A y \in S : ~(<<y, x>> \in OpToRel(<, Nat))
  BY WFMin, NatLessThanWellFounded, Zenon
<1>2. PICK x \in S : \A y \in S : ~(<<y, x>> \in OpToRel(<, Nat))
  BY <1>1, Zenon
<1>3. \A y \in S : ~(y < x)
  BY <1>2, Zenon DEF OpToRel
<1> QED
  BY <1>3

(* The next item to import is one of the queue. *)
LEMMA NextItemThere ==
  ASSUME TypeOK, NEW d \in Dirs, NEW c \in Importers, NextItem(d, c) # 0
  PROVE  /\ NextItem(d, c) \in DOMAIN queue[d] /\ NextItem(d, c) \in Nat
         /\ NextItem(d, c) <= Len(queue[d])
<1> DEFINE unread == {i \in DOMAIN queue[d] :
                        /\ i > done[d][c]
                        /\ c = "import data to source" /\ done[d][c] = 0
                             => queue[d][i].by = "export data from target"}
<1>1. queue[d] \in Seq(QueueItems)
  BY DataTypes DEF QueueItems
<1>2. DOMAIN queue[d] = 1 .. Len(queue[d]) /\ Len(queue[d]) \in Nat
  BY <1>1
<1>3. unread \subseteq DOMAIN queue[d]
  OBVIOUS
<1>4. NextItem(d, c) = IF unread = {} THEN 0 ELSE CHOOSE i \in unread : \A j \in unread : i <= j
  BY DEF NextItem
<1> HIDE DEF unread
<1>5. unread # {}
  BY <1>4
<1>6. \E i \in unread : \A j \in unread : i <= j
  <2>1. unread \in SUBSET Nat
    BY <1>2, <1>3
  <2> QED
    BY <1>5, <2>1, Smallest
<1>7. NextItem(d, c) \in unread
  BY <1>4, <1>5, <1>6
<1> QED
  BY <1>2, <1>3, <1>7

LEMMA DoneSet ==
  ASSUME TypeOK, NEW d \in Dirs, NEW c \in Importers, NEW i \in Nat, i <= Len(queue[d]),
         done' = [done EXCEPT ![d][c] = i]
  PROVE  /\ done' \in [Dirs -> [Importers -> Nat]]
         /\ \A e \in Dirs, k \in Importers : done'[e][k] <= Len(queue[e])
         /\ \A e \in Dirs : e # d => done'[e] = done[e]
<1>1. done \in [Dirs -> [Importers -> Nat]]
  BY DataTypes
<1>2. done' \in [Dirs -> [Importers -> Nat]] /\ \A e \in Dirs : e # d => done'[e] = done[e]
  BY <1>1
<1>3. ASSUME NEW e \in Dirs, NEW k \in Importers PROVE done'[e][k] <= Len(queue[e])
  <2>1. (e = d /\ k = c /\ done'[e][k] = i) \/ done'[e][k] = done[e][k]
    BY <1>1
  <2> QED
    BY <2>1, DataTypes
<1> QED
  BY <1>2, <1>3

(* An importer comes to its own cutover event, which was requested. *)
LEMMA OwnEvent ==
  ASSUME Control, NEW d \in Dirs, NEW c \in Importers, NEW i \in DOMAIN queue[d],
         queue[d][i].event = CutoverEvent(Role(d, c))
  PROVE  RequestFlag(Role(d, c)) \in msr[d] /\ Justified(DetectedBy(c), msr[d])
<1>1. EventsRequested(queue[d], msr[d])
  BY DEF Control, DirAt, DirectoryAt
<1>2. PICK e : e = queue[d][i].event
  OBVIOUS
<1>3. /\ e = "cutover.target" => "CutoverToTargetRequested" \in msr[d]
      /\ e = "cutover.source" => "CutoverToSourceRequested" \in msr[d]
      /\ e = "cutover.source_replica" => "CutoverToSourceReplicaRequested" \in msr[d]
  BY <1>1, <1>2 DEF EventsRequested
<1>4. e = CutoverEvent(Role(d, c))
  BY <1>2
<1>5. CASE c = IT
  BY <1>3, <1>4, <1>5, RoleFacts, EventFacts, RequestFacts, ImporterFlagFacts DEF Justified
<1>6. CASE c = IS
  BY <1>3, <1>4, <1>6, RoleFacts, EventFacts, RequestFacts, ImporterFlagFacts DEF Justified
<1>7. CASE c = SR
  BY <1>3, <1>4, <1>7, RoleFacts, EventFacts, RequestFacts, ImporterFlagFacts DEF Justified
<1> QED
  BY <1>5, <1>6, <1>7, CommandNames

LEMMA StreamItemKept ==
  ASSUME Control, NEW d \in Dirs, NEW c \in Importers, StreamItem(d, c), UNCHANGED userVars
  PROVE  Control'
<1>i. PICK i : i = NextItem(d, c)
  OBVIOUS
<1>1. /\ pc[d][c] = "stream" /\ i > 0 /\ done' = [done EXCEPT ![d][c] = i]
      /\ exportType' = exportType /\ latest' = latest /\ importType' = importType
      /\ toRun' = toRun /\ kills' = kills /\ dataDir' = dataDir /\ files' = files /\ queue' = queue
      /\ app' = app /\ written' = written /\ ending' = ending /\ ended' = ended
  BY <1>i DEF StreamItem, userVars, endVars
<1>2. \/ /\ OwnCutover(d, c, queue[d][i].event)
         /\ Set(d, {DetectedFlag(Role(d, c))}) /\ Goto(d, c, "post") /\ db' = db /\ slot' = slot
      \/ /\ msr' = msr /\ pc' = pc
         /\ (db' = db /\ slot' = slot)
            \/ (queue[d][i].event \notin CutoverEvents /\ Write(DestinationOf(c), {queue[d][i].write}))
  BY <1>i DEF StreamItem
<1>3. TypeOK /\ c \in Commands /\ c # ES /\ c # ET
  BY CommandNames DEF Control
<1>4. i \in DOMAIN queue[d] /\ i \in Nat /\ i <= Len(queue[d])
  <2>1. i # 0
    BY <1>1
  <2> QED
    BY <1>i, <1>3, <2>1, NextItemThere
<1>5. /\ done' \in [Dirs -> [Importers -> Nat]]
      /\ \A e \in Dirs, k \in Importers : done'[e][k] <= Len(queue[e])
      /\ \A e \in Dirs : e # d => done'[e] = done[e]
  BY <1>1, <1>3, <1>4, DoneSet
<1>6. CASE /\ OwnCutover(d, c, queue[d][i].event)
           /\ Set(d, {DetectedFlag(Role(d, c))}) /\ Goto(d, c, "post") /\ db' = db /\ slot' = slot
  <2>x. PICK x : x = DetectedBy(c)
    OBVIOUS
  <2>f. PICK fs : fs = {x}
    OBVIOUS
  <2>g. PICK g : g = msr[d] \cup fs
    OBVIOUS
  <2>1. Set(d, fs)
    BY <1>6, <2>x, <2>f, ImporterFlagFacts
  <2>2. RequestFlag(Role(d, c)) \in msr[d] /\ Justified(x, msr[d])
    BY <1>4, <1>6, <2>x, OwnEvent DEF OwnCutover
  <2>3. Open
    BY <1>1, <1>3, <2>2 DEF Control, Ending, SettledCommands
  <2>4. ImporterKnows("stream", msr[d], DetectedBy(c), ProcessedBy(c)) /\ Consistent(d, msr[d], latest)
    BY <1>1, RecordsConsistent DEF Control, DirAt, ImportersAt
  <2>5. x \in {"CutoverDetectedByTargetImporter", "CutoverDetectedBySourceImporter",
               "CutoverDetectedBySourceReplicaImporter"}
    BY <2>x, ImporterFlagFacts, CommandNames
  <2>6. Consistent(d, g, latest)
    <3>1. x \notin TurningFlags /\ x # "RestartDataMigrationSourceTargetNextIteration"
          /\ x # "NextIterationInitialized"
      BY <2>5 DEF TurningFlags, PlaceFlags
    <3>2. g = msr[d] \cup {x}
      BY <2>f, <2>g
    <3> QED
      BY <2>2, <2>4, <3>1, <3>2, JustifiedSet
  <2>7. "ExportDataDone" \in msr[d]
    BY <2>4 DEF ImporterKnows, ImporterLabels
  <2>8. ModestFlags(d, c, fs) /\ fs \in SUBSET Flags
    <3>1. \A k \in Importers : k # c => DetectedBy(k) \notin fs
      BY <2>f, <2>x, ImporterFlagFacts, CommandNames
    <3> QED
      BY <2>f, <1>3, <2>5, <2>7, <3>1 DEF ModestFlags, OwnFlags, TargetStreamed, PlaceFlags,
         TargetExporterFlags, SourceExporterFlags, Flags
  <2>9. OwnStep(d, c, "post", g, slot'[d], exportType[d])
    <3>1. "ExportDataDone" \in g /\ DetectedBy(c) \in g
      BY <2>x, <2>f, <2>g, <2>7
    <3>2. ImporterKnows("post", g, DetectedBy(c), ProcessedBy(c)) /\ NextIterationSetUp(d, "post", g, latest)
      BY <3>1 DEF ImporterKnows, NextIterationSetUp
    <3>3. "post" \in StepsOf(c)
      BY StepsFacts, CommandNames DEF ImporterLabels
    <3> QED
      BY <3>2, <3>3, ImporterOwnStep
  <2>10. Continues(d, c, "post")
    BY <1>1, <1>3, <1>6, GotoAt DEF Continues
  <2>11. MsrAt(d, fs) /\ msr' \in [Dirs -> SUBSET Flags]
    BY <1>3, <2>1, <2>8, SetAt, TypesOfRecord
  <2>12. TypeOK'
    <3>1. pc' \in [Dirs -> [Commands -> ExporterLabels \cup ImporterLabels]]
      <4>1. "post" \in ExporterLabels \cup ImporterLabels
        BY DEF ImporterLabels
      <4> QED
        BY <1>3, <1>6, <4>1 DEF TypeOK, Goto
    <3> QED
      BY <1>1, <1>3, <1>5, <1>6, <2>11, <3>1 DEF TypeOK, MSRTypeOK, EndTypeOK
  <2>13. \A e \in Dirs : SlotsStay(e)
    BY <1>6 DEF SlotsStay
  <2> QED
    BY <1>1, <1>5, <2>g, <2>3, <2>6, <2>8, <2>9, <2>10, <2>11, <2>12, <2>13, MoveStep
<1>7. CASE /\ msr' = msr /\ pc' = pc
           /\ (db' = db /\ slot' = slot)
              \/ (queue[d][i].event \notin CutoverEvents /\ Write(DestinationOf(c), {queue[d][i].write}))
  <2>1. /\ db' \in [Databases -> SUBSET Writes]
        /\ slot' \in [Dirs -> [{"source", "target"} -> SlotValue]]
        /\ \A e \in Dirs : SlotsStay(e)
    <3>1. CASE db' = db /\ slot' = slot
      BY <1>3, <3>1, DataTypes DEF SlotValue, SlotsStay
    <3>2. CASE queue[d][i].event \notin CutoverEvents /\ Write(DestinationOf(c), {queue[d][i].write})
      <4>1. DestinationOf(c) \in Databases
        BY CommandNames DEF DestinationOf, Databases
      <4>2. {queue[d][i].write} \in SUBSET Writes
        BY <1>4, <3>2 DEF Control, DirAt, DirectoryAt, EventsRequested
      <4> QED
        BY <1>3, <3>2, <4>1, <4>2, WriteKeeps
    <3> QED
      BY <1>7, <3>1, <3>2
  <2>2. TypeOK'
    <3>1. written' \in 0 .. MaxWrites /\ queue' \in [Dirs -> Seq([by : Exporters, event : {"change"} \cup CutoverEvents,
                                  write : 0 .. MaxWrites])]
      BY <1>1, <1>3 DEF TypeOK
    <3> QED
      BY <1>1, <1>3, <1>5, <1>7, <2>1, <3>1, TypesMoved
  <2>3. ~(d > latest)
    BY <1>1, <1>3, AtMostLatest
  <2>4. \A e \in Dirs : e # d => queue'[e] = queue[e] /\ done'[e] = done[e]
    BY <1>1, <1>5
  <2>5. queue'[d] = queue[d] /\ \E k \in Commands : pc[d][k] # "off"
    BY <1>1, <1>3
  <2> QED
    BY <1>1, <1>7, <2>1, <2>2, <2>3, <2>4, <2>5, QuietStep
<1> QED
  BY <1>2, <1>6, <1>7

-----------------------------------------------------------------------------
(* 'import data to source' sets up the next iteration *)

(* Directory e while it goes from one step to another. *)
LEMMA SetUpDirectory ==
  ASSUME Control, NEW d \in Dirs, NEW l, PcAt(d, IS, l), l \in StepsOf(IS),
         ImporterKnows(l, msr[d], DetectedBy(IS), ProcessedBy(IS)), Open' = Open,
         NEW e \in Dirs, msr'[e] = msr[e], exportType'[e] = exportType[e],
         dataDir'[e] = dataDir[e], queue'[e] = queue[e], SlotsStay(e),
         NextIterationSetUp(e, pc'[e][IS], msr[e], latest'), IterationFlags(e, msr[e], latest'),
         FutureAt(e)'
  PROVE  DirAt(e)'
<1>1. DirAt(e)
  BY DEF Control
<1>2. \A k \in Commands : k # IS => pc'[e][k] = pc[e][k]
  BY DEF PcAt
<1>3. pc'[e][ES] = pc[e][ES] /\ pc'[e][ET] = pc[e][ET] /\ pc'[e][SR] = pc[e][SR]
  BY <1>2, CommandNames
<1>4. pc'[e][IS] = pc[e][IS] \/ (e = d /\ pc'[e][IS] = l)
  BY CommandNames DEF PcAt
<1>5. FlagsAt(e)'
  BY <1>1 DEF DirAt, FlagsAt
<1>6. ExportersAt(e)'
  BY <1>1, <1>3 DEF DirAt, ExportersAt, SlotsStay
<1>7. ImportersAt(e)'
  <2>1. ASSUME NEW k \in Importers
        PROVE  ImporterKnows(pc'[e][k], msr'[e], DetectedBy(k), ProcessedBy(k))
    <3>1. ImporterKnows(pc[e][k], msr[e], DetectedBy(k), ProcessedBy(k))
      BY <1>1 DEF DirAt, ImportersAt
    <3>2. CASE k = IS /\ e = d /\ pc'[e][IS] = l
      BY <3>2
    <3>3. CASE pc'[e][k] = pc[e][k]
      BY <3>1, <3>3
    <3> QED
      BY <1>2, <1>4, <3>2, <3>3, CommandNames
  <2> QED
    BY <2>1 DEF ImportersAt
<1>8. DirectoryAt(e)'
  <2>1. \A k \in Commands : pc'[e][k] \in StepsOf(k)
    BY <1>1, <1>2, <1>4 DEF DirAt, DirectoryAt
  <2> QED
    BY <1>1, <1>3, <2>1 DEF DirAt, DirectoryAt
<1> QED
  BY <1>5, <1>6, <1>7, <1>8 DEF DirAt

(* What 'import data to source' knows while it does. *)
LEMMA SettingUp ==
  ASSUME Control, NEW d \in Dirs, pc[d][IS] \in {"setLatest", "setRecord"}
  PROVE  /\ ImporterKnows(pc[d][IS], msr[d], DetectedBy(IS), ProcessedBy(IS))
         /\ "RestartDataMigrationSourceTargetNextIteration" \in msr[d] /\ d < MaxIteration
         /\ "CutoverToTargetRequested" \in msr[d] /\ TargetStreamed(msr[d])
         /\ "CutoverProcessedBySourceExporter" \in msr[d] /\ "CutoverProcessedByTargetImporter" \in msr[d]
         /\ d = FbDir /\ Alive(IS) /\ ~Alive(ES) /\ Open /\ TypeOK
         /\ \A e \in Dirs : ~slot[e]["source"].exists
         /\ \A e \in Dirs : pc[e][IS] # "off" => e = d
         /\ pc[d][IS] = "setRecord" => latest = d + 1
<1>1. /\ ImporterKnows(pc[d][IS], msr[d], DetectedBy(IS), ProcessedBy(IS))
      /\ NextIterationSetUp(d, pc[d][IS], msr[d], latest)
      /\ Consistent(d, msr[d], latest) /\ Open
  BY ImporterThere, CommandNames
<1>2. "RestartDataMigrationSourceTargetNextIteration" \in msr[d] /\ (pc[d][IS] = "setRecord" => latest = d + 1)
  BY <1>1 DEF NextIterationSetUp
<1>3. "CutoverToSourceRequested" \in msr[d] /\ d < MaxIteration
  BY <1>1, <1>2 DEF Consistent, IterationFlags
<1>4. "CutoverProcessedBySourceExporter" \in msr[d] /\ "CutoverProcessedByTargetImporter" \in msr[d]
      /\ TargetStreamed(msr[d])
  BY <1>1, <1>3 DEF Consistent, BackFlags, TargetStreamed
<1>5. "CutoverToTargetRequested" \in msr[d]
  BY <1>1, <1>4, ConsistentFacts
<1>6. d = FbDir /\ Alive(IS) /\ ~Alive(ES)
  BY Mates DEF Alive
<1>7. \A e \in Dirs : ~slot[e]["source"].exists
  BY <1>6 DEF Control, Owners
<1>8. \A e \in Dirs : pc[e][IS] # "off" => e = d
  BY OnePlace
<1> QED
  BY <1>1, <1>2, <1>3, <1>4, <1>5, <1>6, <1>7, <1>8 DEF Control

LEMMA NextNumber ==
  ASSUME Control, NEW d \in Dirs, d = FbDir, d < MaxIteration
  PROVE  /\ d + 1 \in Dirs /\ d < d + 1 /\ d + 1 > 0 /\ d + 1 # d /\ (d + 1) - 1 = d
         /\ latest = d \/ latest = d + 1
         /\ \A e \in Dirs : /\ e > d + 1 => e > d
                            /\ e < d + 1 => e < d \/ e = d
                            /\ e < d => e < d + 1
<1>1. d \in Nat /\ latest \in Nat /\ d <= latest /\ latest <= d + 1
  BY FbDirType, DirsFacts
<1>2. latest = d \/ latest = d + 1
  BY <1>1
<1>3. d + 1 \in Dirs
  BY <1>1, MaxIterationAssumption, DirsFacts
<1>4. \A e \in Dirs : e \in Nat
  BY DirsFacts
<1> QED
  BY <1>1, <1>2, <1>3, <1>4

LEMMA SetLatestKept ==
  ASSUME Control, NEW d \in Dirs, NEW c \in Importers, SetLatestIteration(d, c), UNCHANGED userVars
  PROVE  Control'
<1>1. /\ pc[d][c] = "setLatest" /\ latest' = d + 1 /\ Goto(d, c, "setRecord") /\ toRun' = toRun
      /\ msr' = msr /\ exportType' = exportType /\ importType' = importType /\ kills' = kills
      /\ dataDir' = dataDir /\ files' = files /\ queue' = queue /\ done' = done /\ db' = db
      /\ slot' = slot /\ app' = app /\ written' = written /\ ending' = ending /\ ended' = ended
  BY DEF SetLatestIteration, NextIterationNo, dataVars, userVars, endVars
<1>2. c = IS
  <2>1. pc[d][c] \in StepsOf(c)
    BY <1>1, ImporterThere
  <2> QED
    BY <1>1, <2>1, StepsFacts, CommandNames
<1>3. /\ ImporterKnows("setLatest", msr[d], DetectedBy(IS), ProcessedBy(IS))
      /\ "RestartDataMigrationSourceTargetNextIteration" \in msr[d] /\ d < MaxIteration
      /\ "CutoverToTargetRequested" \in msr[d] /\ TargetStreamed(msr[d])
      /\ "CutoverProcessedBySourceExporter" \in msr[d] /\ "CutoverProcessedByTargetImporter" \in msr[d]
      /\ d = FbDir /\ Alive(IS) /\ ~Alive(ES) /\ Open /\ TypeOK
      /\ \A e \in Dirs : ~slot[e]["source"].exists
      /\ \A e \in Dirs : pc[e][IS] # "off" => e = d
  BY <1>1, <1>2, SettingUp
<1>4. /\ d + 1 \in Dirs /\ d < d + 1 /\ d + 1 > 0 /\ d + 1 # d /\ (d + 1) - 1 = d
      /\ latest = d \/ latest = d + 1
      /\ \A e \in Dirs : /\ e > d + 1 => e > d
                         /\ e < d + 1 => e < d \/ e = d
                         /\ e < d => e < d + 1
  BY <1>3, NextNumber
<1>5. PcAt(d, IS, "setRecord") /\ Continues(d, IS, "setRecord")
  BY <1>1, <1>2, <1>3, GotoAt, CommandNames DEF Continues
<1>n. PICK n : n = d + 1
  OBVIOUS
<1>6. TypeOK'
  <2>1. pc' \in [Dirs -> [Commands -> ExporterLabels \cup ImporterLabels]]
    <3>1. "setRecord" \in ExporterLabels \cup ImporterLabels
      BY DEF ImporterLabels
    <3> QED
      BY <1>1, <1>3, <3>1 DEF TypeOK, Goto
  <2> QED
    BY <1>1, <1>3, <1>4, <2>1 DEF TypeOK, MSRTypeOK, EndTypeOK
<1>7. Open' = Open /\ \A k \in Commands : Alive(k)' = Alive(k)
  BY <1>1, <1>5, AliveKept, CommandNames DEF Open
<1>a. /\ Alive(ES)' = Alive(ES) /\ Alive(ET)' = Alive(ET)
      /\ Alive(IS)' = Alive(IS) /\ Alive(IT)' = Alive(IT)
  BY <1>7, CommandNames
<1>8. /\ latest = d => msr[n] = {} /\ dataDir[n] = "empty" /\ queue[n] = <<>>
      /\ latest = n => msr[n] \subseteq {"ParentExportDir"} /\ dataDir[n] = "empty" /\ queue[n] = <<>>
  <2>1. latest = d => msr[n] = {} /\ dataDir[n] = "empty" /\ queue[n] = <<>>
    <3>1. FutureAt(n) /\ (n > d)
      BY <1>4, <1>n DEF Control, DirAt
    <3> QED
      BY <3>1 DEF FutureAt
  <2>2. ASSUME latest = n PROVE msr[n] \subseteq {"ParentExportDir"} /\ dataDir[n] = "empty" /\ queue[n] = <<>>
    <3>1. FbDir < latest
      BY <1>3, <1>4, <1>n, <2>2
    <3> QED
      BY <1>3, <2>2, <3>1 DEF Control, Places
  <2> QED
    BY <2>1, <2>2
<1>9. msr[n] \subseteq {"ParentExportDir"} /\ dataDir[n] = "empty" /\ queue[n] = <<>> /\ n \in Dirs
      /\ "CutoverToTargetRequested" \notin msr[n] /\ "ImportDataToTargetStarted" \notin msr[n]
      /\ ~TargetStreamed(msr[n])
  <2>1. msr[n] \subseteq {"ParentExportDir"} /\ dataDir[n] = "empty" /\ queue[n] = <<>> /\ n \in Dirs
    BY <1>4, <1>8, <1>n
  <2> QED
    BY <2>1 DEF TargetStreamed
<1>10. FbDir' = FbDir /\ latest' = n
  <2>1. latest' = n /\ n > 0 /\ "CutoverToTargetRequested" \notin msr'[latest'] /\ latest' - 1 = d
    BY <1>1, <1>4, <1>9, <1>n
  <2>2. FbDir' = d
    BY <2>1 DEF FbDir
  <2> QED
    BY <1>3, <2>1, <2>2
<1>11. ASSUME NEW e \in Dirs PROVE DirAt(e)'
  <2>1. DirAt(e)
    BY DEF Control
  <2>2. IterationFlags(e, msr[e], latest')
    <3>1. IterationFlags(e, msr[e], latest)
      BY <2>1 DEF DirAt, FlagsAt
    <3>2. (e < latest => e < n) /\ (e < n => e < latest \/ e = d)
      BY <1>4, <1>n
    <3> QED
      BY <1>3, <1>10, <3>1, <3>2 DEF IterationFlags
  <2>3. NextIterationSetUp(e, pc'[e][IS], msr[e], latest')
    <3>1. CASE e = d
      BY <1>1, <1>3, <1>5, <3>1 DEF NextIterationSetUp, PcAt
    <3>2. CASE e # d
      BY <1>3, <1>5, <3>2 DEF NextIterationSetUp, PcAt
    <3> QED
      BY <3>1, <3>2
  <2>4. FutureAt(e)'
    <3>1. e > n => e > latest
      BY <1>4, <1>n
    <3>2. FutureAt(e)
      BY <2>1 DEF DirAt
    <3>3. e > n => pc'[e] = pc[e]
      <4>1. ~(d > n)
        <5>1. d \in Nat
          BY DirsFacts
        <5> QED
          BY <1>n, <5>1
      <4> QED
        BY <1>5, <4>1 DEF PcAt
    <3> QED
      BY <1>1, <1>10, <3>1, <3>2, <3>3 DEF FutureAt
  <2>5. "setRecord" \in StepsOf(IS)
    BY StepsFacts DEF ImporterLabels
  <2>6. ImporterKnows("setRecord", msr[d], DetectedBy(IS), ProcessedBy(IS))
    BY <1>3 DEF ImporterKnows, ImporterLabels
  <2>7. SlotsStay(e)
    BY <1>1 DEF SlotsStay
  <2> QED
    BY <1>1, <1>5, <1>7, <2>2, <2>3, <2>4, <2>5, <2>6, <2>7, SetUpDirectory
<1>12. Chains'
  BY <1>5, ChainsKept, CommandNames
<1>13. Replica'
  <2>1. pc'[0][SR] = pc[0][SR]
    BY <1>5, CommandNames, DirsFacts DEF PcAt
  <2> QED
    BY <1>1, <2>1 DEF Control, Replica
<1>14. Places'
  <2>1. ~Alive(IT) \/ latest = n
    BY <1>3, <1>4, <1>n DEF Control, Places
  <2>2. \A e \in Dirs, k \in Commands : pc'[e][k] # "off" => pc[e][k] # "off"
    BY <1>5, OnlyMoves, CommandNames
  <2>3. \A e \in Dirs : /\ pc'[e][ES] # "off" => e = n
                        /\ pc'[e][IS] # "off" => e = FbDir
                        /\ pc'[e][IT] # "off" => e = n
                        /\ pc'[e][ET] # "off" => e = FbDir
    <3>1. \A e \in Dirs : pc[e][ES] = "off"
      BY <1>3 DEF Alive
    <3>2. \A e \in Dirs : pc[e][IT] # "off" => e = n
      BY <2>1 DEF Alive, Control, Places
    <3> QED
      BY <1>3, <2>2, <3>1, <3>2, CommandNames DEF Control, Places
  <2> QED
    BY <1>1, <1>3, <1>9, <1>10, <1>a, <2>1, <2>3 DEF Places
<1>15. Owners'
  BY <1>1, <1>3, <1>7, <1>a, <1>10 DEF Control, Owners
<1>16. AppPlace'
  BY <1>1, <1>10 DEF Control, AppPlace
<1>17. Ending'
  BY <1>1, <1>3, <1>7 DEF Control, Ending
<1> QED
  BY <1>6, <1>11, <1>12, <1>13, <1>14, <1>15, <1>16, <1>17 DEF Control

(* The directory whose record is filled in. *)
LEMMA NextRecord ==
  ASSUME Control, Open, Open', NEW n \in Dirs, NEW fs, fs = {"ParentExportDir"}, n = latest, n > 0,
         latest' = latest, msr'[n] = msr[n] \cup fs, exportType'[n] = CHANGES_ONLY,
         pc'[n] = pc[n], dataDir'[n] = dataDir[n], queue'[n] = queue[n], SlotsStay(n)
  PROVE  DirAt(n)'
<1>1. DirAt(n) /\ Open = TRUE /\ Open' = TRUE
  BY DEF Control, Open
<1>2. FlagsAt(n)'
  <2>1. fs \subseteq UnwatchedFlags
    BY DEF UnwatchedFlags
  <2>2. Consistent(n, msr[n], latest)
    BY RecordsConsistent
  <2>3. Consistent(n, msr'[n], latest)
    BY <2>1, <2>2, UnwatchedSet
  <2> QED
    BY <2>3 DEF FlagsAt, Consistent
<1>3. ExportersAt(n)'
  <2>1. /\ SourceExporterCutover(pc[n][ES], msr[n])
        /\ SourceExporterSlot(pc[n][ES], msr[n], slot[n]["source"].exists, TRUE)
        /\ SourceExporterSnapshot(pc[n][ES], msr[n], exportType[n])
        /\ TargetExporterCutover(pc[n][ET], msr[n])
        /\ TargetExporterSlot(pc[n][ET], msr[n], slot[n]["target"].exists, TRUE)
    BY <1>1 DEF DirAt, ExportersAt
  <2>2. SourceExporterSnapshot(pc[n][ES], msr[n], CHANGES_ONLY)
    BY <2>1 DEF SourceExporterSnapshot, CHANGES_ONLY
  <2>3. fs \cap SourceExporterFlags = {} /\ fs \cap TargetExporterFlags = {} /\ "FallbackEnabled" \notin fs
    BY DEF SourceExporterFlags, TargetExporterFlags
  <2>4. /\ SourceExporterCutover(pc[n][ES], msr'[n])
        /\ SourceExporterSlot(pc[n][ES], msr'[n], slot[n]["source"].exists, TRUE)
        /\ SourceExporterSnapshot(pc[n][ES], msr'[n], CHANGES_ONLY)
    BY <2>1, <2>2, <2>3, SourceExporterMore
  <2>5. /\ TargetExporterCutover(pc[n][ET], msr'[n])
        /\ TargetExporterSlot(pc[n][ET], msr'[n], slot[n]["target"].exists, TRUE)
    BY <2>1, <2>3, TargetExporterMore
  <2> QED
    BY <1>1, <2>4, <2>5 DEF ExportersAt, SlotsStay
<1>4. ImportersAt(n)'
  <2>1. ASSUME NEW k \in Importers
        PROVE  ImporterKnows(pc[n][k], msr'[n], DetectedBy(k), ProcessedBy(k))
    <3>1. ImporterKnows(pc[n][k], msr[n], DetectedBy(k), ProcessedBy(k)) /\ DetectedBy(k) \notin fs
      BY <1>1, ImporterFlagFacts, CommandNames DEF DirAt, ImportersAt
    <3> QED
      BY <3>1, ImporterMore
  <2>2. NextIterationSetUp(n, pc[n][IS], msr'[n], latest)
    BY <1>1, SetUpMore DEF DirAt, ImportersAt
  <2> QED
    BY <2>1, <2>2 DEF ImportersAt
<1>5. DirectoryAt(n)'
  <2>1. EventsRequested(queue[n], msr'[n])
    BY <1>1, EventsMore DEF DirAt, DirectoryAt
  <2>2. StatusFile(pc[n][ES], msr'[n], dataDir[n], queue[n], TRUE)
    <3>1. StatusFile(pc[n][ES], msr[n], dataDir[n], queue[n], TRUE) /\ "ExportDataFromSourceStarted" \notin fs
      BY <1>1 DEF DirAt, DirectoryAt
    <3> QED
      BY <3>1, StatusFileMore
  <2>3. CHANGES_ONLY # SNAPSHOT_AND_CHANGES /\ n # 0
    BY DirPositive DEF CHANGES_ONLY, SNAPSHOT_AND_CHANGES
  <2>4. (\A k \in Commands : pc[n][k] \in StepsOf(k)) /\ pc[n][SR] = "off"
    BY <1>1 DEF DirAt, DirectoryAt
  <2> QED
    BY <1>1, <2>1, <2>2, <2>3, <2>4 DEF DirectoryAt
<1>6. FutureAt(n)'
  <2>1. ~(n > latest)
    BY LatestFacts
  <2> QED
    BY <2>1 DEF FutureAt
<1> QED
  BY <1>2, <1>3, <1>4, <1>5, <1>6 DEF DirAt

LEMMA SetUpRecordKept ==
  ASSUME Control, NEW d \in Dirs, NEW c \in Importers, SetUpNextRecord(d, c), UNCHANGED userVars
  PROVE  Control'
<1>n. PICK n : n = d + 1
  OBVIOUS
<1>f. PICK fs : fs = {"ParentExportDir"}
  OBVIOUS
<1>1. /\ pc[d][c] = "setRecord" /\ latest' = latest /\ Goto(d, c, "setInitialized") /\ toRun' = toRun
      /\ exportType' = [exportType EXCEPT ![n] = CHANGES_ONLY] /\ Set(n, fs)
      /\ importType' = importType /\ kills' = kills
      /\ dataDir' = dataDir /\ files' = files /\ queue' = queue /\ done' = done /\ db' = db
      /\ slot' = slot /\ app' = app /\ written' = written /\ ending' = ending /\ ended' = ended
  BY <1>n, <1>f DEF SetUpNextRecord, NextIterationNo, dataVars, userVars, endVars
<1>2. c = IS
  <2>1. pc[d][c] \in StepsOf(c)
    BY <1>1, ImporterThere
  <2> QED
    BY <1>1, <2>1, StepsFacts, CommandNames
<1>3. /\ ImporterKnows("setRecord", msr[d], DetectedBy(IS), ProcessedBy(IS))
      /\ "RestartDataMigrationSourceTargetNextIteration" \in msr[d] /\ d < MaxIteration
      /\ "CutoverToTargetRequested" \in msr[d] /\ TargetStreamed(msr[d])
      /\ "CutoverProcessedBySourceExporter" \in msr[d] /\ "CutoverProcessedByTargetImporter" \in msr[d]
      /\ d = FbDir /\ Alive(IS) /\ ~Alive(ES) /\ Open /\ TypeOK
      /\ \A e \in Dirs : ~slot[e]["source"].exists
      /\ \A e \in Dirs : pc[e][IS] # "off" => e = d
      /\ latest = n
  BY <1>n, <1>1, <1>2, SettingUp
<1>4. n \in Dirs /\ d < n /\ n > 0 /\ n # d
  BY <1>3, <1>n, NextNumber
<1>5. PcAt(d, IS, "setInitialized") /\ Continues(d, IS, "setInitialized")
  BY <1>1, <1>2, <1>3, GotoAt, CommandNames DEF Continues
<1>6. /\ msr'[n] = msr[n] \cup fs /\ (\A e \in Dirs : e # n => msr'[e] = msr[e])
      /\ \A e \in Dirs : msr[e] \subseteq msr'[e] /\ msr'[e] \subseteq msr[e] \cup fs
      /\ FbDir' = FbDir
  <2>1. MsrAt(n, fs) /\ fs \cap PlaceFlags = {}
    BY <1>f, <1>1, <1>3, <1>4, SetAt DEF PlaceFlags
  <2> QED
    BY <1>1, <1>4, <2>1, MsrGrows, FbDirKept DEF MsrAt
<1>7. exportType'[n] = CHANGES_ONLY /\ \A e \in Dirs : e # n => exportType'[e] = exportType[e]
  BY <1>1, <1>3, <1>4 DEF TypeOK, MSRTypeOK
<1>8. TypeOK'
  <2>1. pc' \in [Dirs -> [Commands -> ExporterLabels \cup ImporterLabels]]
    <3>1. "setInitialized" \in ExporterLabels \cup ImporterLabels
      BY DEF ImporterLabels
    <3> QED
      BY <1>1, <1>3, <3>1 DEF TypeOK, Goto
  <2>2. exportType' \in [Dirs -> ExportTypes]
    BY <1>1, <1>3, <1>4 DEF TypeOK, MSRTypeOK, ExportTypes
  <2>3. msr' \in [Dirs -> SUBSET Flags]
    <3>1. fs \in SUBSET Flags
      BY <1>f DEF Flags
    <3> QED
      BY <1>1, <1>3, <1>4, <3>1, TypesOfRecord
  <2> QED
    BY <1>1, <1>3, <2>1, <2>2, <2>3 DEF TypeOK, MSRTypeOK, EndTypeOK
<1>9. Open' = Open /\ \A k \in Commands : Alive(k)' = Alive(k)
  BY <1>1, <1>5, AliveKept, CommandNames DEF Open
<1>a. /\ Alive(ES)' = Alive(ES) /\ Alive(ET)' = Alive(ET)
      /\ Alive(IS)' = Alive(IS) /\ Alive(IT)' = Alive(IT)
  BY <1>9, CommandNames
<1>10. \A e \in Dirs : SlotsStay(e)
  BY <1>1 DEF SlotsStay
<1>11. DirAt(n)'
  <2>1. pc'[n] = pc[n]
    BY <1>4, <1>5 DEF PcAt
  <2> QED
    BY <1>f, <1>1, <1>3, <1>4, <1>6, <1>7, <1>9, <1>10, <2>1, NextRecord
<1>12. ASSUME NEW e \in Dirs, e # n PROVE DirAt(e)'
  <2>1. DirAt(e)
    BY DEF Control
  <2>2. IterationFlags(e, msr[e], latest')
    BY <1>1, <2>1 DEF DirAt, FlagsAt
  <2>3. NextIterationSetUp(e, pc'[e][IS], msr[e], latest')
    <3>1. CASE e = d
      BY <1>n, <1>1, <1>3, <1>5, <3>1 DEF NextIterationSetUp, PcAt
    <3>2. CASE e # d
      BY <1>3, <1>5, <3>2 DEF NextIterationSetUp, PcAt
    <3> QED
      BY <3>1, <3>2
  <2>4. FutureAt(e)'
    <3>1. e > latest => pc'[e] = pc[e]
      <4>1. ~(d > latest)
        BY <1>1, <1>2, AtMostLatest, CommandNames
      <4> QED
        BY <1>5, <4>1 DEF PcAt
    <3> QED
      BY <1>1, <1>6, <1>7, <1>12, <2>1, <3>1 DEF DirAt, FutureAt
  <2>5. "setInitialized" \in StepsOf(IS)
    BY StepsFacts DEF ImporterLabels
  <2>6. ImporterKnows("setInitialized", msr[d], DetectedBy(IS), ProcessedBy(IS))
    BY <1>3 DEF ImporterKnows, ImporterLabels
  <2> QED
    BY <1>1, <1>5, <1>6, <1>7, <1>9, <1>10, <1>12, <2>2, <2>3, <2>4, <2>5, <2>6, SetUpDirectory
<1>13. Chains'
  BY <1>5, ChainsKept, CommandNames
<1>14. Replica'
  <2>1. pc'[0][SR] = pc[0][SR]
    BY <1>5, CommandNames, DirsFacts DEF PcAt
  <2>2. msr'[0] = msr[0]
    BY <1>4, <1>6, DirPositive, DirsFacts
  <2> QED
    BY <1>1, <2>1, <2>2 DEF Control, Replica
<1>15. Places'
  <2>1. \A e \in Dirs, k \in Commands : pc'[e][k] # "off" => pc[e][k] # "off"
    BY <1>5, OnlyMoves, CommandNames
  <2>2. \A e \in Dirs : /\ pc'[e][ES] # "off" => e = latest
                        /\ pc'[e][IS] # "off" => e = FbDir
                        /\ pc'[e][IT] # "off" => e = latest
                        /\ pc'[e][ET] # "off" => e = FbDir
    BY <2>1, CommandNames DEF Control, Places
  <2>3. /\ msr[n] \subseteq {"ParentExportDir"} /\ dataDir[n] = "empty" /\ queue[n] = <<>>
    <3>1. FbDir < latest
      BY <1>3, <1>4
    <3> QED
      BY <1>3, <3>1 DEF Control, Places
  <2>4. msr'[n] \subseteq {"ParentExportDir"}
    BY <1>f, <1>6, <2>3
  <2>5. "CutoverToTargetRequested" \notin msr'[n] /\ "ImportDataToTargetStarted" \notin msr'[n]
        /\ ~TargetStreamed(msr'[n])
    BY <2>4 DEF TargetStreamed
  <2>6. msr'[FbDir] = msr[FbDir]
    BY <1>3, <1>4, <1>6
  <2> QED
    BY <1>1, <1>3, <1>6, <1>a, <2>2, <2>3, <2>4, <2>5, <2>6 DEF Control, Places
<1>16. Owners'
  BY <1>1, <1>3, <1>6, <1>9, <1>a DEF Control, Owners
<1>17. AppPlace'
  <2>1. app.at = "target" => app.dir # n
    BY <1>3, <1>4 DEF Control, AppPlace
  <2>2. msr'[0] = msr[0] /\ (app.at = "target" => msr'[app.dir] = msr[app.dir])
    <3>1. app.dir \in Dirs
      BY <1>3 DEF TypeOK
    <3> QED
      BY <1>4, <1>6, <2>1, <3>1, DirPositive, DirsFacts
  <2> QED
    BY <1>1, <1>6, <2>2 DEF Control, AppPlace
<1>18. Ending'
  BY <1>1, <1>3, <1>9 DEF Control, Ending
<1> QED
  BY <1>8, <1>11, <1>12, <1>13, <1>14, <1>15, <1>16, <1>17, <1>18 DEF Control

LEMMA ImporterKept ==
  ASSUME Control, NEW d \in Dirs, NEW c \in Importers,
         ImporterStep(d, c) \/ ExporterTimeout(d, c), UNCHANGED userVars
  PROVE  Control'
<1>1. CASE ImportInit(d, c)
  BY <1>1, ImportInitKept
<1>2. CASE EnableFallForward(d, c)
  BY <1>2, EnableFallForwardKept
<1>3. CASE ExportDataIsDone(d, c)
  BY <1>3, ExportIsDoneKept
<1>4. CASE ImportCheckCutover(d, c)
  BY <1>4, ImportCheckKept
<1>5. CASE ImportStarted(d, c)
  BY <1>5, ImportStartedKept
<1>6. CASE ImportSnapshot(d, c)
  BY <1>6, ImportSnapshotKept
<1>7. CASE DebeziumIsStarted(d, c)
  BY <1>7, DebeziumIsStartedKept
<1>8. CASE StreamItem(d, c)
  BY <1>8, StreamItemKept
<1>9. CASE MarkProcessedByImporter(d, c)
  BY <1>9, MarkProcessedKept
<1>10. CASE ExporterHasProcessed(d, c)
  BY <1>10, ExporterProcessedKept
<1>11. CASE StartFurtherAfterImport(d, c)
  BY <1>11, FurtherAfterImportKept
<1>12. CASE SetLatestIteration(d, c)
  BY <1>12, SetLatestKept
<1>13. CASE SetUpNextRecord(d, c)
  BY <1>13, SetUpRecordKept
<1>14. CASE SetNextIterationInitialized(d, c)
  BY <1>14, SetInitializedKept
<1>15. CASE StartNextIteration(d, c)
  BY <1>15, StartNextKept
<1>16. CASE ExporterTimeout(d, c)
  <2>1. /\ pc[d][c] = "waitExporter" /\ ErrExit(d, c)
        /\ UNCHANGED <<msrVars, importType, kills, dataVars, userVars>>
    BY <1>16 DEF ExporterTimeout
  <2> QED
    BY <2>1, ImporterFails
<1> QED
  BY <1>1, <1>2, <1>3, <1>4, <1>5, <1>6, <1>7, <1>8, <1>9, <1>10, <1>11, <1>12, <1>13, <1>14,
     <1>15, <1>16 DEF ImporterStep

-----------------------------------------------------------------------------
(* Commands that are run and killed *)

(* No command comes to an end or to life. *)
LEMMA CommandsKept ==
  ASSUME Control, TypeOK', OnlyProcesses, \A k \in Commands : Alive(k)' = Alive(k),
         \A e \in Dirs : Rests(e), Chains', Replica', Ending',
         \A e \in Dirs : /\ pc'[e][ES] # "off" => e = latest
                         /\ pc'[e][IS] # "off" => e = FbDir
                         /\ pc'[e][IT] # "off" => e = latest
                         /\ pc'[e][ET] # "off" => e = FbDir
  PROVE  Control'
<1>1. \A e \in Dirs : DirAt(e)'
  BY RestsKept
<1>2. FbDir' = FbDir /\ latest' = latest /\ Open' = Open /\ msr' = msr /\ slot' = slot
      /\ dataDir' = dataDir /\ queue' = queue /\ app' = app
  BY DEF OnlyProcesses, FbDir, Open
<1>3. /\ Alive(ES)' = Alive(ES) /\ Alive(ET)' = Alive(ET)
      /\ Alive(IS)' = Alive(IS) /\ Alive(IT)' = Alive(IT)
  BY CommandNames
<1>4. Places'
  BY <1>2, <1>3 DEF Control, Places
<1>5. Owners'
  BY <1>2, <1>3 DEF Control, Owners
<1>6. AppPlace'
  BY <1>2 DEF Control, AppPlace
<1> QED
  BY <1>1, <1>4, <1>5, <1>6 DEF Control

LEMMA RunKept ==
  ASSUME Control, NEW c \in Commands, Run(c)
  PROVE  Control'
<1>d. PICK d : d = ResolveDir(c)
  OBVIOUS
<1>1. /\ c \in toRun /\ pc[d][c] = "off" /\ Open /\ toRun' = toRun \ {c}
      /\ pc' = [pc EXCEPT ![d][c] = "init"]
      /\ UNCHANGED <<msrVars, importType, dataVars, userVars>> /\ kills' = kills
  BY <1>d DEF Run, Open
<1>2. /\ d \in Dirs /\ TypeOK /\ ~(d > latest) /\ (c = SR => d = 0)
      /\ (c = ES => d = latest) /\ (c = IT => d = latest) /\ (c = IS => d = FbDir) /\ (c = ET => d = FbDir)
  <2>1. /\ (c = SR => d = 0) /\ (c = ES => d = latest) /\ (c = IT => d = latest)
        /\ (c = IS => d = FbDir) /\ (c = ET => d = FbDir)
    BY <1>d, ResolveFacts
  <2>2. latest \in Dirs /\ FbDir \in Dirs /\ 0 \in Dirs
    BY FbDirType, DirsFacts
  <2>3. latest \in Nat /\ FbDir \in Nat /\ FbDir <= latest
    BY LatestFacts
  <2>4. d = latest \/ d = FbDir \/ d = 0
    BY <2>1, CommandNames
  <2>5. ~(d > latest)
    BY <2>3, <2>4
  <2> QED
    BY <2>1, <2>2, <2>4, <2>5 DEF Control
<1>3. PcAt(d, c, "init") /\ pc' \in [Dirs -> [Commands -> ExporterLabels \cup ImporterLabels]]
  <2>1. Goto(d, c, "init")
    BY <1>1 DEF Goto
  <2>2. "init" \in ExporterLabels \cup ImporterLabels
    BY DEF ExporterLabels
  <2> QED
    BY <1>1, <1>2, <2>1, <2>2, GotoAt DEF TypeOK
<1>4. TypeOK' /\ OnlyProcesses
  <2>1. toRun' \subseteq Commands /\ kills' \in 0 .. MaxKills
    BY <1>1, <1>2 DEF TypeOK
  <2> QED
    BY <1>1, <1>2, <1>3, <2>1, TypesOfCommands
<1>5. \A k \in Commands : Alive(k)' = Alive(k)
  BY <1>1, <1>2, <1>3 DEF Alive, PcAt
<1>6. ASSUME NEW e \in Dirs PROVE Rests(e)
  <2>1. DirAt(e)
    BY DEF Control
  <2>2. \A k \in Commands : pc'[e][k] \in {pc[e][k], "init"}
    BY <1>3 DEF PcAt
  <2>3. e > 0 => pc'[e][SR] = "off"
    <3>1. e > 0 => e # 0 /\ pc[e][SR] = "off"
      BY <2>1, DirPositive DEF DirAt, DirectoryAt
    <3> QED
      BY <1>2, <1>3, <3>1, CommandNames DEF PcAt
  <2>4. e > latest => \A k \in Commands : pc'[e][k] = "off"
    BY <1>2, <1>3, <2>1 DEF DirAt, FutureAt, PcAt
  <2> QED
    BY <2>2, <2>3, <2>4 DEF Rests
<1>7. Chains'
  <2>1. ASSUME NEW a \in Commands, NEW b \in Commands, a # b, Alone(a, b) PROVE Alone(a, b)'
    <3>1. CASE c = a
      <4>1. b \notin toRun /\ \A e \in Dirs : pc[e][a] = "off" /\ pc[e][b] = "off"
        BY <1>1, <2>1, <3>1 DEF Alone
      <4>2. a \notin toRun' /\ b \notin toRun' /\ \A e \in Dirs : pc'[e][b] = "off"
        BY <1>1, <1>3, <2>1, <3>1, <4>1 DEF PcAt
      <4> QED
        BY <4>2 DEF Alone
    <3>2. CASE c = b
      <4>1. a \notin toRun /\ \A e \in Dirs : pc[e][a] = "off" /\ pc[e][b] = "off"
        BY <1>1, <2>1, <3>2 DEF Alone
      <4>2. a \notin toRun' /\ b \notin toRun' /\ \A e \in Dirs : pc'[e][a] = "off"
        BY <1>1, <1>3, <2>1, <3>2, <4>1 DEF PcAt
      <4> QED
        BY <4>2 DEF Alone
    <3>3. CASE c # a /\ c # b
      <4>1. \A e \in Dirs : pc'[e][a] = pc[e][a] /\ pc'[e][b] = pc[e][b]
        BY <1>3, <3>3 DEF PcAt
      <4> QED
        BY <1>1, <2>1, <3>3, <4>1 DEF Alone
    <3> QED
      BY <3>1, <3>2, <3>3
  <2> QED
    BY <2>1, CommandNames DEF Control, Chains
<1>8. Replica'
  <2>1. msr' = msr
    BY <1>4 DEF OnlyProcesses
  <2>2. CASE c = SR
    BY <1>1, <1>2, <1>3, <2>1, <2>2 DEF Control, Replica, PcAt
  <2>3. CASE c # SR
    <3>1. pc'[0][SR] = pc[0][SR] /\ (SR \in toRun' => SR \in toRun)
      BY <1>1, <1>3, <2>3, CommandNames, DirsFacts DEF PcAt
    <3> QED
      BY <2>1, <3>1 DEF Control, Replica
  <2> QED
    BY <2>2, <2>3
<1>9. \A e \in Dirs : /\ pc'[e][ES] # "off" => e = latest
                      /\ pc'[e][IS] # "off" => e = FbDir
                      /\ pc'[e][IT] # "off" => e = latest
                      /\ pc'[e][ET] # "off" => e = FbDir
  <2>1. ASSUME NEW e \in Dirs, NEW k \in Commands, pc'[e][k] # "off"
        PROVE  (e = d /\ k = c) \/ pc[e][k] # "off"
    BY <1>3, <2>1 DEF PcAt
  <2> QED
    BY <1>2, <2>1, CommandNames DEF Control, Places
<1>10. Ending'
  BY <1>1, <1>4 DEF Control, Ending, Open, OnlyProcesses
<1> QED
  BY <1>4, <1>5, <1>6, <1>7, <1>8, <1>9, <1>10, CommandsKept

LEMMA KillKept ==
  ASSUME Control, NEW d \in Dirs, NEW c \in Commands, Kill(d, c)
  PROVE  Control'
<1>1. /\ pc[d][c] # "off" /\ Goto(d, c, "off") /\ toRun' = toRun \cup {c}
      /\ kills < MaxKills /\ kills' = kills + 1
      /\ UNCHANGED <<msrVars, importType, dataVars, userVars>>
  BY DEF Kill, Goto
<1>2. TypeOK
  BY DEF Control
<1>3. Continues(d, c, "off") /\ pc' \in [Dirs -> [Commands -> ExporterLabels \cup ImporterLabels]]
  <2>2. "off" \in ExporterLabels \cup ImporterLabels
    BY DEF ExporterLabels
  <2> QED
    BY <1>1, <1>2, <2>2, GotoAt DEF TypeOK, Goto, Continues
<1>4. TypeOK' /\ OnlyProcesses
  <2>1. toRun' \subseteq Commands
    BY <1>1, <1>2 DEF TypeOK
  <2>2. kills' \in 0 .. MaxKills
    BY <1>1, <1>2, MigrationBoundsAssumption DEF TypeOK
  <2> QED
    BY <1>1, <1>2, <1>3, <2>1, <2>2, TypesOfCommands
<1>5. \A k \in Commands : Alive(k)' = Alive(k)
  BY <1>3, AliveKept
<1>6. \A e \in Dirs, k \in Commands : pc'[e][k] = pc[e][k] \/ pc'[e][k] = "off"
  BY <1>3 DEF Continues, PcAt
<1>7. ASSUME NEW e \in Dirs PROVE Rests(e)
  <2>1. DirAt(e)
    BY DEF Control
  <2> QED
    BY ZenonT(40), <1>6, <2>1, CommandNames DEF Rests, DirAt, DirectoryAt, FutureAt
<1>8. Chains'
  BY <1>3, ChainsKept
<1>9. Replica'
  <2>1. msr' = msr
    BY <1>4 DEF OnlyProcesses
  <2>2. pc'[0][SR] \in {pc[0][SR], "off"} /\ (SR \in toRun' => SR \in toRun \/ (c = SR /\ pc[0][SR] # "off"))
    <3>1. c = SR => d = 0
      BY <1>1, Mates
    <3> QED
      BY <1>1, <1>6, <3>1, CommandNames, DirsFacts
  <2> QED
    BY <2>1, <2>2 DEF Control, Replica
<1>10. \A e \in Dirs : /\ pc'[e][ES] # "off" => e = latest
                       /\ pc'[e][IS] # "off" => e = FbDir
                       /\ pc'[e][IT] # "off" => e = latest
                       /\ pc'[e][ET] # "off" => e = FbDir
  BY <1>6, CommandNames DEF Control, Places
<1>11. Ending'
  <2>0. /\ msr' = msr /\ exportType' = exportType /\ latest' = latest /\ slot' = slot /\ done' = done
        /\ ending' = ending /\ ended' = ended /\ Open' = Open
    BY <1>4 DEF OnlyProcesses, Open
  <2>1. CASE Open
    BY <2>0, <2>1 DEF Control, Ending
  <2>2. CASE ~Open
    <3>0. SettledCommands /\ KnownSlots /\ EndOrder /\ EndProgress /\ ending.dir \in Dirs
      BY <2>2 DEF Control, Ending, TypeOK, EndTypeOK
    <3>1. \A e \in Dirs, k \in Commands : Role(e, k)' = Role(e, k)
      BY <2>0 DEF Role
    <3>2. SettledCommands'
      BY <1>6, <2>0, <3>0, <3>1 DEF SettledCommands
    <3>3. KnownSlots' /\ EndOrder'
      BY <2>0, <3>0 DEF KnownSlots, DeletesYBSlot, EndOrder
    <3>4. EndProgress'
      BY <1>6, <2>0, <3>0 DEF EndProgress
    <3> QED
      BY <2>0, <2>2, <3>2, <3>3, <3>4 DEF Ending
  <2> QED
    BY <2>1, <2>2
<1> QED
  BY <1>4, <1>5, <1>7, <1>8, <1>9, <1>10, <1>11, CommandsKept

-----------------------------------------------------------------------------
(* The application *)

LEMMA AppWritesKept ==
  ASSUME Control, AppWrites
  PROVE  Control'
<1>1. /\ written < MaxWrites /\ written' = written + 1 /\ Write(app.at, {written + 1})
      /\ msr' = msr /\ exportType' = exportType /\ latest' = latest /\ pc' = pc
      /\ importType' = importType /\ toRun' = toRun /\ kills' = kills /\ dataDir' = dataDir
      /\ files' = files /\ queue' = queue /\ done' = done /\ app' = app /\ ending' = ending
      /\ ended' = ended
  BY DEF AppWrites, msrVars, procVars, endVars
<1>2. TypeOK /\ app.at \in Databases /\ written \in 0 .. MaxWrites
  BY DEF Control, TypeOK
<1>3. written' \in 0 .. MaxWrites /\ {written + 1} \in SUBSET Writes
  BY <1>1, <1>2, MigrationBoundsAssumption DEF Writes
<1>4. /\ db' \in [Databases -> SUBSET Writes]
      /\ slot' \in [Dirs -> [{"source", "target"} -> SlotValue]]
      /\ \A e \in Dirs : SlotsStay(e)
  BY <1>1, <1>2, <1>3, WriteKeeps
<1>5. TypeOK'
  BY <1>1, <1>2, <1>3, <1>4, TypesMoved, DataTypes
<1>6. 0 \in Dirs /\ ~(0 > latest)
  <2>1. 0 \in Dirs /\ latest \in Nat
    BY LatestFacts, DirsFacts
  <2> QED
    BY <2>1
<1> QED
  BY <1>1, <1>4, <1>5, <1>6, QuietStep

(* Only the application changes. *)
LEMMA AppMoves ==
  ASSUME Control, AppPlace', app' \in [at : Databases, up : BOOLEAN, dir : Dirs],
         UNCHANGED <<msrVars, procVars, dataVars, written, endVars>>
  PROVE  Control'
<1>1. /\ msr' = msr /\ exportType' = exportType /\ latest' = latest /\ pc' = pc
      /\ importType' = importType /\ toRun' = toRun /\ kills' = kills /\ dataDir' = dataDir
      /\ files' = files /\ queue' = queue /\ done' = done /\ db' = db /\ slot' = slot
      /\ written' = written /\ ending' = ending /\ ended' = ended
  BY DEF msrVars, procVars, dataVars, endVars
<1>2. TypeOK'
  BY <1>1 DEF Control, TypeOK, MSRTypeOK, EndTypeOK
<1>3. Open' = Open /\ FbDir' = FbDir /\ \A k : Alive(k)' = Alive(k)
  BY <1>1 DEF Open, FbDir, Alive
<1>4. \A e \in Dirs : DirAt(e)'
  <2> SUFFICES ASSUME NEW e \in Dirs PROVE DirAt(e)'
    OBVIOUS
  <2>1. DirAt(e)
    BY DEF Control
  <2> QED
    BY <1>1, <1>3, <2>1 DEF DirAt, FlagsAt, ExportersAt, ImportersAt, DirectoryAt, FutureAt
<1>5. Chains' /\ Replica'
  BY <1>1 DEF Control, Chains, Alone, Replica
<1>6. Places' /\ Owners'
  BY <1>1, <1>3 DEF Control, Places, Owners
<1>7. Ending'
  <2>1. \A e, c : Role(e, c)' = Role(e, c)
    BY <1>1 DEF Role
  <2> QED
    BY <1>1, <1>3, <2>1 DEF Control, Ending, SettledCommands, KnownSlots, DeletesYBSlot, EndOrder,
       EndProgress
<1> QED
  BY <1>2, <1>4, <1>5, <1>6, <1>7 DEF Control

LEMMA StopAppKept ==
  ASSUME Control, StopApp
  PROVE  Control'
<1>1. /\ app' = [app EXCEPT !.up = FALSE] /\ msr' = msr /\ latest' = latest
      /\ UNCHANGED <<msrVars, procVars, dataVars, written, endVars>>
  BY DEF StopApp, msrVars
<1>2. app \in [at : Databases, up : BOOLEAN, dir : Dirs]
  BY DEF Control, TypeOK
<1>3. app' \in [at : Databases, up : BOOLEAN, dir : Dirs] /\ app'.at = app.at /\ app'.dir = app.dir
      /\ app'.up = FALSE
  BY <1>1, <1>2
<1>4. AppPlace'
  BY <1>1, <1>3 DEF Control, AppPlace, FbDir
<1> QED
  BY <1>1, <1>3, <1>4, AppMoves

(* The directory of a cutover that has been requested and not gone back on. *)
LEMMA CutoverPlace ==
  ASSUME Control, NEW d \in Dirs, "CutoverToTargetRequested" \in msr[d],
         "CutoverToSourceRequested" \notin msr[d]
  PROVE  d = latest /\ d = FbDir
<1>1. latest \in Nat /\ d \in Nat /\ latest \in Dirs
  BY FbDirType, DirsFacts
<1>2. ~(d < latest)
  BY DEF Control, DirAt, FlagsAt, IterationFlags
<1>3. ~(d > latest)
  BY DEF Control, DirAt, FutureAt
<1>4. d = latest
  BY <1>1, <1>2, <1>3
<1> QED
  BY <1>4 DEF FbDir

(* The parent's cutover to the target was detected once any was requested. *)
LEMMA ParentDetected ==
  ASSUME Control, NEW d \in Dirs, d = latest, "CutoverDetectedByTargetImporter" \in msr[d]
  PROVE  "CutoverDetectedByTargetImporter" \in msr[0]
<1>1. latest \in Nat /\ 0 \in Dirs
  BY FbDirType, DirsFacts
<1>2. CASE d = 0
  BY <1>2
<1>3. CASE d # 0
  <2>1. 0 < latest
    BY <1>1, <1>3
  <2>2. IterationFlags(0, msr[0], latest) /\ BackFlags(msr[0]) /\ ForwardFlags(msr[0])
    BY <1>1 DEF Control, DirAt, FlagsAt
  <2>3. "CutoverToSourceRequested" \in msr[0]
    BY <2>1, <2>2 DEF IterationFlags
  <2> QED
    BY <2>2, <2>3 DEF BackFlags, ForwardFlags
<1> QED
  BY <1>2, <1>3

LEMMA MoveAppKept ==
  ASSUME Control, MoveApp
  PROVE  Control'
<1>d. PICK d : d = app.dir
  OBVIOUS
<1>1. /\ ~app.up
      /\ msr' = msr /\ latest' = latest /\ UNCHANGED <<msrVars, procVars, dataVars, written, endVars>>
      /\ \/ /\ app.at = "source" /\ GetCutoverStatus(d) = COMPLETED
            /\ GetCutoverToSourceStatus(d) = NOT_INITIATED
            /\ app' = [app EXCEPT !.at = "target", !.up = TRUE]
         \/ /\ app.at = "target" /\ GetCutoverToSourceStatus(d) = COMPLETED
            /\ app' = [app EXCEPT !.at = "source", !.up = TRUE]
         \/ /\ app.at = "target" /\ getCutoverToSourceReplicaStatus(d) = COMPLETED
            /\ app' = [app EXCEPT !.at = "source-replica", !.up = TRUE]
  BY <1>d DEF MoveApp, msrVars
<1>2. app \in [at : Databases, up : BOOLEAN, dir : Dirs] /\ d \in Dirs /\ AppPlace /\ 0 \in Dirs
  BY <1>d, DirsFacts DEF Control, TypeOK
<1>3. /\ app'.dir = d /\ app'.up = TRUE
      /\ app' \in [at : Databases, up : BOOLEAN, dir : Dirs]
  BY <1>1, <1>2, <1>d DEF Databases
<1>4. FbDir' = FbDir
  BY <1>1 DEF FbDir
<1>5. Consistent(d, msr[d], latest)
  BY <1>2, RecordsConsistent
<1>6. CASE app.at = "source" /\ GetCutoverStatus(d) = COMPLETED
           /\ GetCutoverToSourceStatus(d) = NOT_INITIATED /\ app' = [app EXCEPT !.at = "target", !.up = TRUE]
  <2>1. /\ "CutoverProcessedByTargetImporter" \in msr[d]
        /\ WayBack(msr[d]) => TargetStreamed(msr[d])
        /\ "CutoverToSourceRequested" \notin msr[d]
    BY <1>6, StatusFacts
  <2>2. "CutoverToTargetRequested" \in msr[d] /\ "CutoverDetectedByTargetImporter" \in msr[d]
    BY <1>5, <2>1 DEF Consistent, ForwardFlags
  <2>3. d = latest /\ d = FbDir
    BY <1>2, <2>1, <2>2, CutoverPlace
  <2>4. "CutoverDetectedByTargetImporter" \in msr[0]
    BY <1>2, <2>2, <2>3, ParentDetected
  <2>5. "CutoverToSourceReplicaRequested" \notin msr[d]
    <3>1. "CutoverToSourceReplicaRequested" \in msr[d] => d = 0
      BY <1>5 DEF Consistent, OnwardFlags, IterationFlags
    <3>2. "CutoverToSourceReplicaRequested" \notin msr[0]
      BY <1>2, <1>6 DEF AppPlace
    <3> QED
      BY <3>1, <3>2
  <2>6. app'.at = "target"
    BY <1>2, <1>6
  <2>7. AppPlace'
    BY <1>1, <1>3, <1>4, <2>1, <2>3, <2>4, <2>5, <2>6 DEF AppPlace
  <2> QED
    BY <1>1, <1>3, <2>7, AppMoves
<1>7. CASE app.at = "target" /\ GetCutoverToSourceStatus(d) = COMPLETED
           /\ app' = [app EXCEPT !.at = "source", !.up = TRUE]
  <2>1. "CutoverToSourceProcessedByTargetExporter" \in msr[d] /\ d = FbDir
    BY <1>2, <1>7, <1>d, StatusFacts DEF AppPlace
  <2>2. "FallbackEnabled" \in msr[d] /\ "FallForwardEnabled" \notin msr[d]
    BY <1>5, <2>1 DEF Consistent, BackFlags, ForwardFlags
  <2>3. "CutoverToSourceReplicaRequested" \notin msr[0]
    <3>1. SUFFICES ASSUME "CutoverToSourceReplicaRequested" \in msr[0] PROVE FALSE
      OBVIOUS
    <3>2. Consistent(0, msr[0], latest)
      BY <1>2, RecordsConsistent
    <3>3. "FallForwardEnabled" \in msr[0] /\ "CutoverProcessedByTargetImporter" \in msr[0]
      BY <3>1, <3>2 DEF Consistent, OnwardFlags
    <3>4. "CutoverToSourceRequested" \notin msr[0]
      BY <3>2, <3>3 DEF Consistent, BackFlags, ForwardFlags
    <3>5. "CutoverToTargetRequested" \in msr[0]
      BY <3>2, <3>3, ConsistentFacts
    <3>6. 0 = FbDir
      BY <1>2, <3>4, <3>5, CutoverPlace
    <3> QED
      BY <2>1, <2>2, <3>3, <3>6
  <2>6. app'.at = "source"
    BY <1>2, <1>7
  <2>7. AppPlace'
    BY <1>1, <2>3, <2>6 DEF AppPlace
  <2> QED
    BY <1>1, <1>3, <2>7, AppMoves
<1>8. CASE app.at = "target" /\ app' = [app EXCEPT !.at = "source-replica", !.up = TRUE]
  <2>1. app'.at = "source-replica"
    BY <1>2, <1>8
  <2>2. AppPlace'
    BY <1>1, <1>2, <1>8, <2>1 DEF AppPlace
  <2> QED
    BY <1>1, <1>3, <2>2, AppMoves
<1> QED
  BY <1>1, <1>6, <1>7, <1>8

-----------------------------------------------------------------------------
(* The cutovers *)

(* The record of directory d gets the fields of a request. *)
LEMMA RequestAt ==
  ASSUME Control, NEW d \in Dirs, NEW fs, NEW g, g = msr[d] \cup fs, MsrAt(d, fs),
         fs \cap SourceExporterFlags = {}, fs \cap TargetExporterFlags = {},
         \A c \in Importers : DetectedBy(c) \notin fs, "ExportDataFromSourceStarted" \notin fs,
         "FallbackEnabled" \in fs => pc[d][ET] = "off", Consistent(d, g, latest), ~(d > latest),
         pc' = pc, exportType' = exportType, latest' = latest, dataDir' = dataDir, queue' = queue,
         done' = done, slot' = slot, ending' = ending
  PROVE  \A e \in Dirs : DirAt(e)'
<1>1. Open' = Open /\ msr'[d] = g /\ DirAt(d)
  BY DEF Open, MsrAt, Control
<1>2. Elsewhere(d)
  BY DEF Elsewhere, MsrAt, SlotsStay
<1>3. \A e \in Dirs : e # d => DirAt(e)'
  BY <1>1, <1>2, ElsewhereKept
<1>4. FlagsAt(d)'
  BY <1>1 DEF FlagsAt, Consistent
<1>5. /\ SourceExporterCutover(pc[d][ES], g)
      /\ SourceExporterSlot(pc[d][ES], g, slot[d]["source"].exists, Open)
      /\ SourceExporterSnapshot(pc[d][ES], g, exportType[d])
  BY <1>1, SourceExporterMore DEF DirAt, ExportersAt
<1>6. /\ TargetExporterCutover(pc[d][ET], g)
      /\ TargetExporterSlot(pc[d][ET], g, slot[d]["target"].exists, Open)
  <2>0. /\ TargetExporterCutover(pc[d][ET], msr[d])
        /\ TargetExporterSlot(pc[d][ET], msr[d], slot[d]["target"].exists, Open)
    BY <1>1 DEF DirAt, ExportersAt
  <2>1. CASE "FallbackEnabled" \notin fs
    BY <2>0, <2>1, TargetExporterMore
  <2>2. CASE "FallbackEnabled" \in fs
    <3>1. pc[d][ET] = "off"
      BY <2>2
    <3>2. /\ TargetDetected(g) <=> TargetDetected(msr[d])
          /\ TargetProcessed(g) <=> TargetProcessed(msr[d])
          /\ TargetStreamed(g) <=> TargetStreamed(msr[d])
      BY DEF TargetExporterFlags, TargetDetected, TargetProcessed, TargetStreamed
    <3> QED
      BY <2>0, <3>1, <3>2 DEF TargetExporterCutover, TargetExporterSlot, WithSlot
  <2> QED
    BY <2>1, <2>2
<1>7. ExportersAt(d)'
  BY <1>1, <1>5, <1>6 DEF ExportersAt
<1>8. ImportersAt(d)'
  <2>1. \A c \in Importers : ImporterKnows(pc[d][c], g, DetectedBy(c), ProcessedBy(c))
    BY <1>1, ImporterMore DEF DirAt, ImportersAt
  <2>2. NextIterationSetUp(d, pc[d][IS], g, latest)
    BY <1>1, SetUpMore DEF DirAt, ImportersAt
  <2> QED
    BY <1>1, <2>1, <2>2 DEF ImportersAt
<1>9. DirectoryAt(d)'
  <2>1. StatusFile(pc[d][ES], g, dataDir[d], queue[d], Open)
    BY <1>1, StatusFileMore DEF DirAt, DirectoryAt
  <2>2. EventsRequested(queue[d], g)
    BY <1>1, EventsMore DEF DirAt, DirectoryAt
  <2> QED
    BY <1>1, <2>1, <2>2 DEF DirAt, DirectoryAt
<1>10. FutureAt(d)'
  BY DEF FutureAt
<1>11. DirAt(d)'
  BY <1>4, <1>7, <1>8, <1>9, <1>10 DEF DirAt
<1> QED
  BY <1>3, <1>11

(* The fields of the requests. *)
RequestFields == PlaceFlags \cup {"RestartDataMigrationSourceTargetNextIteration"}

LEMMA RequestKept ==
  ASSUME Control, Open, NEW d \in Dirs, NEW fs \in SUBSET RequestFields, NEW g, g = msr[d] \cup fs,
         MsrAt(d, fs), Set(d, fs), "FallbackEnabled" \in fs => pc[d][ET] = "off",
         Consistent(d, g, latest), ~(d > latest), app' = [app EXCEPT !.dir = d],
         UNCHANGED <<exportType, latest, procVars, dataVars, written, endVars>>,
         Replica', Places', Owners', AppPlace'
  PROVE  Control'
<1>1. /\ exportType' = exportType /\ latest' = latest /\ pc' = pc
      /\ importType' = importType /\ toRun' = toRun /\ kills' = kills /\ dataDir' = dataDir
      /\ files' = files /\ queue' = queue /\ done' = done /\ db' = db /\ slot' = slot
      /\ written' = written /\ ending' = ending /\ ended' = ended
  BY DEF procVars, dataVars, endVars
<1>2. /\ fs \cap SourceExporterFlags = {} /\ fs \cap TargetExporterFlags = {}
      /\ "ExportDataFromSourceStarted" \notin fs /\ fs \in SUBSET Flags
  BY DEF RequestFields, PlaceFlags, SourceExporterFlags, TargetExporterFlags, Flags
<1>3. \A c \in Importers : DetectedBy(c) \notin fs
  BY ImporterFlagFacts, CommandNames DEF RequestFields, PlaceFlags
<1>4. \A e \in Dirs : DirAt(e)'
  BY <1>1, <1>2, <1>3, RequestAt
<1>5. TypeOK'
  <2>1. TypeOK
    BY DEF Control
  <2>2. msr' \in [Dirs -> SUBSET Flags]
    BY <1>2, <2>1, TypesOfRecord
  <2>3. app' \in [at : Databases, up : BOOLEAN, dir : Dirs]
    BY <2>1 DEF TypeOK
  <2> QED
    BY <1>1, <2>1, <2>2, <2>3 DEF TypeOK, MSRTypeOK, EndTypeOK
<1>6. Chains'
  BY <1>1 DEF Control, Chains, Alone
<1>7. Ending'
  BY <1>1 DEF Control, Ending, Open
<1> QED
  BY <1>4, <1>5, <1>6, <1>7 DEF Control

LEMMA CutoverToTargetConsistent ==
  ASSUME NEW d, NEW n, NEW f, NEW fs, NEW g, g = f \cup fs, Consistent(d, f, n),
         fs = {"CutoverToTargetRequested"} \/ fs = {"CutoverToTargetRequested", "FallbackEnabled"},
         "ExportDataFromSourceStarted" \in f, "FallbackEnabled" \in fs => "FallForwardEnabled" \notin f
  PROVE  Consistent(d, g, n)
<1>1. ForwardFlags(g)
  BY DEF Consistent, ForwardFlags
<1>2. BackFlags(g)
  BY DEF Consistent, BackFlags
<1>3. OnwardFlags(g)
  BY DEF Consistent, OnwardFlags
<1>4. IterationFlags(d, g, n)
  BY DEF Consistent, IterationFlags
<1> QED
  BY <1>1, <1>2, <1>3, <1>4 DEF Consistent

(* Before the cutover no command of the way back runs. *)
LEMMA ForwardPhase ==
  ASSUME Control, "CutoverToTargetRequested" \notin msr[latest],
         "ImportDataToTargetStarted" \in msr[latest]
  PROVE  ~Alive(IS) /\ ~Alive(ET)
<1>1. latest \in Dirs /\ FbDir \in Dirs /\ latest \in Nat /\ FbDir \in Nat /\ FbDir <= latest
  BY FbDirType, DirsFacts
<1>2. Consistent(latest, msr[latest], latest)
  BY <1>1, RecordsConsistent
<1>3. /\ "CutoverProcessedBySourceExporter" \notin msr[latest]
      /\ "CutoverProcessedByTargetImporter" \notin msr[latest]
  BY <1>2, ConsistentFacts
<1>4. CASE FbDir < latest
  <2>1. Alive(IS) => msr[latest] \subseteq {"ParentExportDir"}
    BY <1>4 DEF Control, Places
  <2>2. Alive(ET) => "ImportDataToTargetStarted" \notin msr[latest]
    BY <1>4 DEF Control, Places
  <2> QED
    BY <2>1, <2>2
<1>5. CASE FbDir = latest
  BY <1>3, <1>5 DEF Control, Places
<1>6. FbDir < latest \/ FbDir = latest
  BY <1>1
<1> QED
  BY <1>4, <1>5, <1>6

LEMMA CutoverToTargetKept ==
  ASSUME Control, NEW b \in BOOLEAN, InitiateCutoverToTarget(b)
  PROVE  Control'
<1>d. PICK d : d = latest
  OBVIOUS
<1>fs. PICK fs : fs = {"CutoverToTargetRequested"} \cup IF b THEN {"FallbackEnabled"} ELSE {}
  OBVIOUS
<1>g. PICK g : g = msr[d] \cup fs
  OBVIOUS
<1>1. /\ app.at = "source" /\ Open
      /\ "ExportDataFromSourceStarted" \in msr[d] /\ "ImportDataToTargetStarted" \in msr[d]
      /\ d = 0 => pc[0][SR] = "stream" \/ (pc[0][SR] = "off" /\ SR \notin toRun)
      /\ "CutoverToTargetRequested" \notin msr[d] /\ (b => "FallForwardEnabled" \notin msr[d])
      /\ Set(d, fs) /\ app' = [app EXCEPT !.dir = d]
      /\ UNCHANGED <<exportType, latest, procVars, dataVars, written, endVars>>
  BY <1>d, <1>fs, ResolveFacts DEF InitiateCutoverToTarget, Open
<1>2. /\ pc' = pc /\ toRun' = toRun /\ latest' = latest /\ slot' = slot /\ dataDir' = dataDir
      /\ queue' = queue /\ Open'
  BY <1>1 DEF procVars, dataVars, endVars, Open
<1>3. d \in Dirs /\ TypeOK /\ ~(d > latest) /\ 0 \in Dirs
  <2>1. latest \in Dirs /\ latest \in Nat /\ 0 \in Dirs
    BY FbDirType, DirsFacts
  <2> QED
    BY <1>d, <2>1 DEF Control
<1>4. MsrAt(d, fs) /\ msr'[d] = g /\ \A e \in Dirs : e # d => msr'[e] = msr[e]
  BY <1>1, <1>3, <1>g, SetAt DEF MsrAt
<1>5. fs = {"CutoverToTargetRequested"} \/ fs = {"CutoverToTargetRequested", "FallbackEnabled"}
  BY <1>fs
<1>6. "FallbackEnabled" \in fs => b
  BY <1>fs
<1>7. Consistent(d, g, latest)
  <2>1. Consistent(d, msr[d], latest)
    BY <1>3, RecordsConsistent
  <2> QED
    BY <1>1, <1>5, <1>6, <1>g, <2>1, CutoverToTargetConsistent
<1>8. ~Alive(IS) /\ ~Alive(ET)
  BY <1>1, <1>d, ForwardPhase
<1>9. \A k : Alive(k)' = Alive(k)
  BY <1>2 DEF Alive
<1>10. FbDir' = d
  BY <1>2, <1>4, <1>5, <1>d, <1>g DEF FbDir
<1>11. \A e \in Dirs : pc[e][IS] = "off" /\ pc[e][ET] = "off"
  BY <1>8 DEF Alive
<1>12. \A e \in Dirs : ~slot[e]["target"].exists
  BY <1>1, <1>8 DEF Control, Owners
<1>13. Places'
  <2>1. Alive(IT) => ~TargetStreamed(g)
    BY <1>5, <1>d, <1>g DEF Control, Places, TargetStreamed
  <2>2. \A e \in Dirs : (pc[e][ES] # "off" => e = d) /\ (pc[e][IT] # "off" => e = d)
    BY <1>d DEF Control, Places
  <2> QED
    BY <1>2, <1>4, <1>8, <1>9, <1>11, <1>d, <2>1, <2>2 DEF Places
<1>14. Owners'
  <2>1. ~Alive(IS)' /\ Alive(ES)' = Alive(ES)
    BY <1>8, <1>9
  <2> QED
    BY <1>1, <1>2, <1>12, <2>1 DEF Control, Owners
<1>15. Replica'
  <2>1. CASE d = 0
    <3>1. pc[0][SR] = "stream" => "FallForwardEnabled" \in msr[0]
      BY DEF Control, Replica
    <3>2. msr[0] \subseteq msr'[0]
      BY <1>4, <1>g, <2>1
    <3> QED
      BY <1>1, <1>2, <2>1, <3>1, <3>2 DEF Control, Replica
  <2>2. CASE d # 0
    <3>1. msr'[0] = msr[0]
      BY <1>3, <1>4, <2>2
    <3> QED
      BY <1>2, <3>1 DEF Control, Replica
  <2> QED
    BY <2>1, <2>2
<1>16. AppPlace'
  <2>1. app'.at = "source"
    BY <1>1 DEF Control, TypeOK
  <2>2. "CutoverToSourceReplicaRequested" \notin msr[0]
    BY <1>1 DEF Control, AppPlace
  <2>3. "CutoverToSourceReplicaRequested" \notin msr'[0]
    BY <1>3, <1>4, <1>5, <1>g, <2>2
  <2> QED
    BY <2>1, <2>3 DEF AppPlace
<1>17. fs \in SUBSET RequestFields /\ ("FallbackEnabled" \in fs => pc[d][ET] = "off")
  BY <1>3, <1>5, <1>11 DEF RequestFields, PlaceFlags
<1> QED
  BY <1>1, <1>3, <1>4, <1>7, <1>13, <1>14, <1>15, <1>16, <1>17, <1>g, RequestKept

(* A request from the target leaves every command in its place. *)
LEMMA PlacesAtRequest ==
  ASSUME Control, NEW fs, NEW d \in Dirs, MsrAt(d, fs), d = FbDir, "CutoverToTargetRequested" \notin fs,
         ~TargetStreamed(fs), "CutoverToTargetRequested" \in msr[d], Open, Open',
         UNCHANGED <<latest, procVars, dataVars>>
  PROVE  FbDir' = FbDir /\ Places' /\ Owners'
<1>1. pc' = pc /\ toRun' = toRun /\ latest' = latest /\ slot' = slot /\ dataDir' = dataDir /\ queue' = queue
  BY DEF procVars, dataVars
<1>2. latest \in Dirs /\ FbDir \in Dirs
  BY FbDirType
<1>3. \A e \in Dirs : msr[e] \subseteq msr'[e] /\ msr'[e] \subseteq msr[e] \cup fs
  BY MsrGrows
<1>4. FbDir' = FbDir
  BY <1>1, <1>2, <1>3 DEF FbDir
<1>5. FbDir < latest => latest # d
  <2>1. latest \in Nat
    BY <1>2, DirsFacts
  <2> QED
    BY <2>1
<1>6. FbDir < latest => msr'[latest] = msr[latest]
  BY <1>2, <1>5 DEF MsrAt
<1>7. \A e \in Dirs : TargetStreamed(msr'[e]) => TargetStreamed(msr[e])
  BY <1>3 DEF TargetStreamed
<1>8. Alive(ES)' = Alive(ES) /\ Alive(IS)' = Alive(IS) /\ Alive(IT)' = Alive(IT) /\ Alive(ET)' = Alive(ET)
  BY <1>1 DEF Alive
<1>9. Places'
  BY <1>1, <1>2, <1>3, <1>4, <1>6, <1>7, <1>8 DEF Control, Places
<1>10. Owners'
  BY <1>1, <1>4, <1>8 DEF Control, Owners
<1> QED
  BY <1>4, <1>9, <1>10

LEMMA CutoverToSourceConsistent ==
  ASSUME NEW d, NEW n, NEW f, NEW fs, NEW g, g = f \cup fs, Consistent(d, f, n),
         \/ fs = {"CutoverToSourceRequested"}
         \/ /\ fs = {"CutoverToSourceRequested", "RestartDataMigrationSourceTargetNextIteration"}
            /\ d < MaxIteration,
         "FallbackEnabled" \in f, "ExportFromTargetFallBackStarted" \in f,
         "CutoverProcessedBySourceExporter" \in f, "CutoverProcessedByTargetImporter" \in f
  PROVE  Consistent(d, g, n)
<1>1. ForwardFlags(g)
  BY DEF Consistent, ForwardFlags
<1>2. BackFlags(g)
  BY DEF Consistent, BackFlags
<1>3. OnwardFlags(g)
  BY DEF Consistent, OnwardFlags
<1>4. IterationFlags(d, g, n)
  BY DEF Consistent, IterationFlags
<1> QED
  BY <1>1, <1>2, <1>3, <1>4 DEF Consistent

LEMMA CutoverToReplicaConsistent ==
  ASSUME NEW d, NEW n, NEW f, NEW g, g = f \cup {"CutoverToSourceReplicaRequested"}, Consistent(d, f, n),
         "FallForwardEnabled" \in f,
         "CutoverProcessedBySourceExporter" \in f, "CutoverProcessedByTargetImporter" \in f
  PROVE  Consistent(d, g, n)
<1>1. ForwardFlags(g)
  BY DEF Consistent, ForwardFlags
<1>2. BackFlags(g)
  BY DEF Consistent, BackFlags
<1>3. OnwardFlags(g)
  BY DEF Consistent, OnwardFlags
<1>4. IterationFlags(d, g, n)
  BY DEF Consistent, IterationFlags
<1> QED
  BY <1>1, <1>2, <1>3, <1>4 DEF Consistent

(* A request made from the target, in the directory of the way back. *)
LEMMA RequestFromTarget ==
  ASSUME Control, Open, NEW d \in Dirs, d = FbDir, NEW fs \in SUBSET RequestFields, NEW g,
         g = msr[d] \cup fs, Set(d, fs), "CutoverToTargetRequested" \notin fs, "FallbackEnabled" \notin fs,
         "CutoverToTargetRequested" \in msr[d], Consistent(d, g, latest),
         ~app.up, app.at = "target", app' = [app EXCEPT !.dir = d],
         UNCHANGED <<exportType, latest, procVars, dataVars, written, endVars>>
  PROVE  Control'
<1>1. TypeOK /\ app \in [at : Databases, up : BOOLEAN, dir : Dirs] /\ AppPlace /\ 0 \in Dirs
  BY DirsFacts DEF Control, TypeOK
<1>2. MsrAt(d, fs)
  BY <1>1, SetAt
<1>3. Open' /\ latest' = latest /\ pc' = pc /\ toRun' = toRun
  BY DEF Open, procVars, endVars
<1>4. ~TargetStreamed(fs)
  BY DEF TargetStreamed, RequestFields, PlaceFlags
<1>5. FbDir' = FbDir /\ Places' /\ Owners'
  BY <1>2, <1>3, <1>4, PlacesAtRequest
<1>6. \A e \in Dirs : msr[e] \subseteq msr'[e] /\ msr'[e] \subseteq msr[e] \cup fs
  BY <1>2, MsrGrows
<1>7. Replica'
  BY <1>1, <1>3, <1>6 DEF Control, Replica
<1>8. AppPlace'
  <2>1. app'.at = "target" /\ app'.dir = d /\ app'.up = FALSE /\ app.dir = d
    BY <1>1 DEF AppPlace
  <2> QED
    BY <1>1, <1>5, <1>6, <2>1 DEF AppPlace
<1>9. ~(d > latest)
  <2>1. FbDir \in Nat /\ latest \in Nat /\ FbDir <= latest
    BY LatestFacts
  <2> QED
    BY <2>1
<1> QED
  BY <1>2, <1>5, <1>7, <1>8, <1>9, RequestKept

LEMMA CutoverToSourceKept ==
  ASSUME Control, NEW b \in BOOLEAN, InitiateCutoverToSource(b)
  PROVE  Control'
<1>d. PICK d : d = FbDir
  OBVIOUS
<1>fs. PICK fs : fs = {"CutoverToSourceRequested"} \cup
                      IF b THEN {"RestartDataMigrationSourceTargetNextIteration"} ELSE {}
  OBVIOUS
<1>g. PICK g : g = msr[d] \cup fs
  OBVIOUS
<1>1. /\ ~app.up /\ app.at = "target" /\ Open
      /\ GetCutoverStatus(d) = COMPLETED /\ "FallbackEnabled" \in msr[d] /\ (b => d < MaxIteration)
      /\ Set(d, fs) /\ app' = [app EXCEPT !.dir = d]
      /\ UNCHANGED <<exportType, latest, procVars, dataVars, written, endVars>>
  BY <1>d, <1>fs, ResolveFacts DEF InitiateCutoverToSource, Open
<1>2. d \in Dirs
  BY <1>d, FbDirType
<1>3. Consistent(d, msr[d], latest)
  BY <1>2, RecordsConsistent
<1>4. /\ "ExportFromTargetFallBackStarted" \in msr[d]
      /\ "CutoverProcessedBySourceExporter" \in msr[d] /\ "CutoverProcessedByTargetImporter" \in msr[d]
  <2>1. "FallForwardEnabled" \notin msr[d]
    BY <1>1, <1>3 DEF Consistent, ForwardFlags
  <2> QED
    BY <1>1, <2>1, StatusFacts
<1>5. \/ fs = {"CutoverToSourceRequested"}
      \/ /\ fs = {"CutoverToSourceRequested", "RestartDataMigrationSourceTargetNextIteration"}
         /\ d < MaxIteration
  BY <1>1, <1>fs
<1>6. Consistent(d, g, latest)
  BY <1>1, <1>3, <1>4, <1>5, <1>g, CutoverToSourceConsistent
<1>7. "CutoverToTargetRequested" \in msr[d]
  BY <1>3, <1>4, ConsistentFacts
<1>8. fs \in SUBSET RequestFields /\ "CutoverToTargetRequested" \notin fs /\ "FallbackEnabled" \notin fs
  BY <1>5 DEF RequestFields, PlaceFlags
<1> QED
  BY <1>1, <1>2, <1>6, <1>7, <1>8, <1>d, <1>g, RequestFromTarget

LEMMA CutoverToReplicaKept ==
  ASSUME Control, InitiateCutoverToSourceReplica
  PROVE  Control'
<1>fs. PICK fs : fs = {"CutoverToSourceReplicaRequested"}
  OBVIOUS
<1>g. PICK g : g = msr[0] \cup fs
  OBVIOUS
<1>1. /\ ~app.up /\ app.at = "target" /\ Open
      /\ GetCutoverStatus(0) = COMPLETED /\ "FallForwardEnabled" \in msr[0]
      /\ Set(0, fs) /\ app' = [app EXCEPT !.dir = 0]
      /\ UNCHANGED <<exportType, latest, procVars, dataVars, written, endVars>>
  BY <1>fs DEF InitiateCutoverToSourceReplica, Open
<1>2. 0 \in Dirs
  BY DirsFacts
<1>3. Consistent(0, msr[0], latest)
  BY <1>2, RecordsConsistent
<1>4. "CutoverProcessedBySourceExporter" \in msr[0] /\ "CutoverProcessedByTargetImporter" \in msr[0]
  BY <1>1, StatusFacts
<1>5. "CutoverToTargetRequested" \in msr[0] /\ "CutoverToSourceRequested" \notin msr[0]
  BY <1>1, <1>3, <1>4, ConsistentFacts DEF Consistent, ForwardFlags, BackFlags
<1>6. 0 = FbDir
  BY <1>2, <1>5, CutoverPlace
<1>7. Consistent(0, g, latest)
  BY <1>1, <1>3, <1>4, <1>fs, <1>g, CutoverToReplicaConsistent
<1>8. fs \in SUBSET RequestFields /\ "CutoverToTargetRequested" \notin fs /\ "FallbackEnabled" \notin fs
  BY <1>fs DEF RequestFields, PlaceFlags
<1> QED
  BY <1>1, <1>2, <1>5, <1>6, <1>7, <1>8, <1>g, RequestFromTarget

-----------------------------------------------------------------------------
(* --start-clean *)

(* The parent's record before its export streams. *)
LEMMA CleanRecord ==
  ASSUME NEW f, NEW g, g = f \ {"ExportDataDone"}, NEW n, Consistent(0, f, n),
         "ExportDataFromSourceStarted" \notin f
  PROVE  /\ Consistent(0, g, n)
         /\ "CutoverToTargetRequested" \notin f /\ "CutoverDetectedBySourceExporter" \notin f
         /\ "CutoverProcessedBySourceExporter" \notin f
         /\ "CutoverDetectedByTargetImporter" \notin f /\ "CutoverProcessedByTargetImporter" \notin f
         /\ "CutoverToSourceReplicaRequested" \notin f
<1>1. /\ "CutoverToTargetRequested" \notin f /\ "CutoverDetectedBySourceExporter" \notin f
      /\ "CutoverProcessedBySourceExporter" \notin f
      /\ "CutoverDetectedByTargetImporter" \notin f /\ "CutoverProcessedByTargetImporter" \notin f
      /\ "FallbackEnabled" \notin f /\ ForwardFlags(f)
  BY DEF Consistent, ForwardFlags
<1>2. "CutoverToSourceReplicaRequested" \notin f /\ "CutoverToSourceRequested" \notin f
  BY <1>1 DEF Consistent, OnwardFlags, BackFlags
<1>3. ForwardFlags(g)
  BY <1>1 DEF ForwardFlags
<1>4. BackFlags(g)
  BY <1>2 DEF Consistent, BackFlags
<1>5. OnwardFlags(g)
  BY <1>2 DEF Consistent, OnwardFlags
<1>6. IterationFlags(0, g, n)
  BY DEF Consistent, IterationFlags
<1> QED
  BY <1>1, <1>2, <1>3, <1>4, <1>5, <1>6 DEF Consistent

LEMMA StartCleanKept ==
  ASSUME Control, StartClean
  PROVE  Control'
<1>g. PICK g : g = msr[0] \ {"ExportDataDone"}
  OBVIOUS
<1>1. /\ ES \in toRun /\ latest = 0 /\ Open /\ pc[0][ES] = "off" /\ dataDir[0] = "partial"
      /\ pc' = [pc EXCEPT ![0] = [x \in Commands |-> IF x = ES THEN "init" ELSE "off"]]
      /\ toRun' = (toRun \ {ES}) \cup {x \in Importers : pc[0][x] # "off"}
      /\ msr' = [msr EXCEPT ![0] = g]
      /\ exportType' = [exportType EXCEPT ![0] = ""]
      /\ dataDir' = [dataDir EXCEPT ![0] = "empty"]
      /\ files' = {}
      /\ queue' = [queue EXCEPT ![0] = <<>>]
      /\ done' = [done EXCEPT ![0] = [x \in Importers |-> 0]]
      /\ db' = [db EXCEPT !["target"] = {}, !["source-replica"] = {}]
      /\ latest' = latest /\ importType' = importType /\ kills' = kills /\ slot' = slot
      /\ app' = app /\ written' = written /\ ending' = ending /\ ended' = ended
  BY <1>g DEF StartClean, Open, userVars, endVars
<1>2. TypeOK /\ 0 \in Dirs /\ DirAt(0) /\ Consistent(0, msr[0], latest)
  BY DirsFacts, RecordsConsistent DEF Control
<1>3. /\ pc'[0][ES] = "init" /\ (\A k \in Commands : k # ES => pc'[0][k] = "off")
      /\ \A e \in Dirs : e # 0 => pc'[e] = pc[e]
  BY <1>1, <1>2, CommandNames DEF TypeOK
<1>4. /\ msr'[0] = g /\ exportType'[0] = "" /\ dataDir'[0] = "empty" /\ queue'[0] = <<>>
      /\ \A e \in Dirs : e # 0 => /\ msr'[e] = msr[e] /\ exportType'[e] = exportType[e]
                                  /\ dataDir'[e] = dataDir[e] /\ queue'[e] = queue[e]
                                  /\ done'[e] = done[e]
  BY <1>1, <1>2 DEF TypeOK, MSRTypeOK
<1>5. "ExportDataFromSourceStarted" \notin msr[0]
  BY <1>1, <1>2 DEF DirAt, DirectoryAt, StatusFile
<1>6. /\ Consistent(0, g, latest)
      /\ "CutoverToTargetRequested" \notin msr[0] /\ "CutoverDetectedBySourceExporter" \notin msr[0]
      /\ "CutoverProcessedBySourceExporter" \notin msr[0]
      /\ "CutoverDetectedByTargetImporter" \notin msr[0] /\ "CutoverProcessedByTargetImporter" \notin msr[0]
      /\ "CutoverToSourceReplicaRequested" \notin msr[0]
  BY <1>2, <1>5, <1>g, CleanRecord
<1>7. FbDir = 0 /\ FbDir' = 0 /\ latest' = 0 /\ Open' = Open /\ ~(0 > 0)
  <2>1. ~(0 > 0)
    OBVIOUS
  <2>2. latest = 0 /\ latest' = 0 /\ ending' = ending
    BY <1>1
  <2> QED
    BY <2>1, <2>2 DEF FbDir, Open
<1>8. ~Alive(IS)
  BY <1>1 DEF Control, Chains, Alone, Alive
<1>9. ~Alive(ET)
  BY <1>6, <1>7 DEF Control, Places
<1>10. \A e \in Dirs : e # 0 => \A k \in Commands : pc[e][k] = "off"
  <2>1. \A e \in Dirs : e # 0 => e > latest
    BY <1>1, DirPositive
  <2> QED
    BY <2>1 DEF Control, DirAt, FutureAt
<1>11. \A e \in Dirs, k \in Commands : pc'[e][k] # "off" => e = 0 /\ k = ES
  BY <1>3, <1>10
<1>12. /\ ES \notin toRun' /\ IS \notin toRun' /\ ET \notin toRun'
       /\ IT \in toRun' => Alive(IT)
  BY <1>1, <1>2, <1>8, <1>9, CommandNames DEF Alive
<1>13. ~Alive(IS)' /\ ~Alive(ET)' /\ Alive(ES)' /\ (Alive(IT)' => Alive(IT))
  BY <1>2, <1>3, <1>11, <1>12, CommandNames DEF Alive
<1>14. TypeOK'
  <2>1. pc' \in [Dirs -> [Commands -> ExporterLabels \cup ImporterLabels]]
    <3>1. [x \in Commands |-> IF x = ES THEN "init" ELSE "off"] \in [Commands -> ExporterLabels \cup ImporterLabels]
      BY DEF ExporterLabels
    <3> QED
      BY <1>1, <1>2, <3>1 DEF TypeOK
  <2>2. toRun' \subseteq Commands
    BY <1>1, <1>2, CommandNames DEF TypeOK
  <2>3. msr' \in [Dirs -> SUBSET Flags] /\ exportType' \in [Dirs -> ExportTypes] /\ latest' \in Dirs
    BY <1>1, <1>2, <1>g DEF TypeOK, MSRTypeOK, ExportTypes
  <2>4. dataDir' \in [Dirs -> {"empty", "partial", "streaming"}] /\ files' \subseteq Writes
    BY <1>1, <1>2 DEF TypeOK
  <2>q. PICK Items : Items = [by : Exporters, event : {"change"} \cup CutoverEvents,
                              write : 0 .. MaxWrites]
    OBVIOUS
  <2>5. queue' \in [Dirs -> Seq(Items)]
    <3>1. queue \in [Dirs -> Seq(Items)]
      BY <1>2, <2>q DEF TypeOK
    <3>2. <<>> \in Seq(Items)
      OBVIOUS
    <3> QED
      BY <1>1, <3>1, <3>2
  <2>6. done' \in [Dirs -> [Importers -> Nat]]
    <3>1. [x \in Importers |-> 0] \in [Importers -> Nat]
      OBVIOUS
    <3>2. done \in [Dirs -> [Importers -> Nat]]
      BY <1>2 DEF TypeOK
    <3> QED
      BY <1>1, <3>1, <3>2
  <2>7. \A e \in Dirs, k \in Importers : done'[e][k] <= Len(queue'[e])
    <3>1. SUFFICES ASSUME NEW e \in Dirs, NEW k \in Importers PROVE done'[e][k] <= Len(queue'[e])
      OBVIOUS
    <3>2. CASE e = 0
      <4>1. done'[0][k] = 0
        BY <1>1, <1>2 DEF TypeOK
      <4>2. Len(queue'[0]) = 0
        <5>1. Len(<<>>) = 0
          OBVIOUS
        <5> QED
          BY <1>4, <5>1
      <4> QED
        BY <3>2, <4>1, <4>2
    <3>3. CASE e # 0
      <4>1. done[e][k] <= Len(queue[e])
        BY <1>2 DEF TypeOK
      <4> QED
        BY <1>4, <3>3, <4>1
    <3> QED
      BY <3>2, <3>3
  <2>8. db' \in [Databases -> SUBSET Writes]
    BY <1>1, <1>2 DEF TypeOK
  <2> QED
    BY <1>1, <1>2, <2>1, <2>2, <2>3, <2>4, <2>5, <2>6, <2>7, <2>8, <2>q DEF TypeOK, MSRTypeOK, EndTypeOK
<1>15. DirAt(0)'
  <2>1. FlagsAt(0)'
    BY <1>1, <1>4, <1>6 DEF FlagsAt, Consistent
  <2>2. pc'[0][ET] = "off" /\ pc'[0][SR] = "off" /\ \A k \in Importers : pc'[0][k] = "off"
    BY <1>3, CommandNames
  <2>3. /\ SourceExporterCutover("init", g)
        /\ SourceExporterSlot("init", g, slot[0]["source"].exists, Open)
        /\ SourceExporterSnapshot("init", g, "")
    BY <1>6, <1>g DEF SourceExporterCutover, SourceExporterSlot, SourceExporterSnapshot, WithSlot
  <2>4. /\ TargetExporterCutover("off", g)
        /\ TargetExporterSlot("off", g, slot[0]["target"].exists, Open)
    <3>1. TargetExporterSlot(pc[0][ET], msr[0], slot[0]["target"].exists, Open)
      BY <1>2 DEF DirAt, ExportersAt
    <3>2. /\ TargetDetected(g) <=> TargetDetected(msr[0])
          /\ TargetProcessed(g) <=> TargetProcessed(msr[0])
          /\ TargetStreamed(g) <=> TargetStreamed(msr[0])
      BY <1>g DEF TargetDetected, TargetProcessed, TargetStreamed
    <3> QED
      BY <3>1, <3>2 DEF TargetExporterCutover, TargetExporterSlot, WithSlot
  <2>5. ExportersAt(0)'
    BY <1>1, <1>3, <1>4, <1>7, <2>2, <2>3, <2>4 DEF ExportersAt
  <2>6. ImportersAt(0)'
    <3>1. \A k \in Importers : ImporterKnows("off", g, DetectedBy(k), ProcessedBy(k))
      BY DEF ImporterKnows
    <3>2. NextIterationSetUp(0, "off", g, latest)
      BY DEF NextIterationSetUp
    <3> QED
      BY <1>1, <1>4, <2>2, <3>1, <3>2, CommandNames DEF ImportersAt
  <2>7. DirectoryAt(0)'
    <3>1. \A k \in Commands : pc'[0][k] \in StepsOf(k)
      <4>1. "init" \in StepsOf(ES)
        BY StepsFacts DEF ExporterLabels
      <4> QED
        BY <1>3, <4>1, OffIsAStep
    <3>2. StatusFile("init", g, "empty", <<>>, Open) /\ EventsRequested(<<>>, g)
      BY <1>5, <1>g DEF StatusFile, EventsRequested
    <3>3. "" # SNAPSHOT_AND_CHANGES /\ "" # CHANGES_ONLY
      BY DEF SNAPSHOT_AND_CHANGES, CHANGES_ONLY
    <3> QED
      BY <1>3, <1>4, <1>7, <2>2, <3>1, <3>2, <3>3 DEF DirectoryAt
  <2>8. FutureAt(0)'
    <3>1. ~(0 > latest')
      BY <1>7
    <3> QED
      BY <3>1 DEF FutureAt
  <2> QED
    BY <2>1, <2>5, <2>6, <2>7, <2>8 DEF DirAt
<1>16. \A e \in Dirs : DirAt(e)'
  <2>1. Elsewhere(0)
    BY <1>1, <1>3, <1>4 DEF Elsewhere, SlotsStay
  <2>2. \A e \in Dirs : e # 0 => DirAt(e)'
    BY <1>1, <1>2, <1>7, <2>1, ElsewhereKept
  <2> QED
    BY <1>15, <2>2
<1>17. Chains'
  BY <1>11, <1>12, CommandNames DEF Chains, Alone
<1>18. Replica'
  BY <1>3, <1>4, <1>6, <1>g, CommandNames DEF Replica
<1>19. Places'
  <2>1. Alive(IT) => ~TargetStreamed(g)
    BY <1>1, <1>g DEF Control, Places, TargetStreamed
  <2> QED
    BY <1>4, <1>7, <1>11, <1>13, <2>1, CommandNames DEF Places
<1>20. Owners'
  <2>1. \A e \in Dirs : ~slot[e]["target"].exists
    BY <1>1, <1>9 DEF Control, Owners
  <2> QED
    BY <1>1, <1>13, <2>1 DEF Control, Owners
<1>21. AppPlace'
  <2>1. app.at = "source"
    BY <1>6 DEF Control, AppPlace
  <2> QED
    BY <1>1, <1>4, <1>6, <1>g, <2>1 DEF AppPlace
<1>22. Ending'
  BY <1>1 DEF Control, Ending, Open
<1> QED
  BY <1>14, <1>16, <1>17, <1>18, <1>19, <1>20, <1>21, <1>22 DEF Control

-----------------------------------------------------------------------------
(* 'end migration' *)

LEMMA SameCounts ==
  ASSUME NEW x, NEW y, x = y \/ (\A k \in Importers : x[k] = 0), \A k \in Importers : y[k] = 0
  PROVE  \A k \in Importers : x[k] = 0
OBVIOUS

(* It stops commands and takes things away, where no command is left. *)
LEMMA EndStepKept ==
  ASSUME Control, TypeOK', ~Open', Ending', msr' = msr, exportType' = exportType, latest' = latest,
         app' = app, toRun' \subseteq toRun,
         \A e \in Dirs, k \in Commands : pc'[e][k] = pc[e][k] \/ pc'[e][k] = "off",
         \A e \in Dirs : /\ slot'[e]["source"].exists => slot[e]["source"].exists
                         /\ slot'[e]["target"].exists => slot[e]["target"].exists
                         /\ dataDir'[e] = dataDir[e] \/ dataDir'[e] = "empty"
                         /\ queue'[e] = queue[e] \/ queue'[e] = <<>>
                         /\ done'[e] = done[e] \/ \A k \in Importers : done'[e][k] = 0
                         /\ SlotsStay(e) \/ \A k \in Commands : pc'[e][k] = "off"
  PROVE  Control'
<1>0. \A e \in Dirs, k \in Commands : pc'[e][k] = pc[e][k] \/ pc'[e][k] = "off"
  OBVIOUS
<1>1. \A e \in Dirs, k \in Commands : pc'[e][k] # "off" => pc[e][k] # "off"
  BY ONLY <1>0
<1>2. \A k \in Commands : Alive(k)' => Alive(k)
  BY <1>1 DEF Alive
<1>a. /\ Alive(ES)' => Alive(ES)
      /\ Alive(IS)' => Alive(IS)
      /\ Alive(IT)' => Alive(IT)
      /\ Alive(ET)' => Alive(ET)
  BY <1>2, CommandNames
<1>3. FbDir' = FbDir /\ Open' = FALSE
  BY DEF FbDir, Open
<1>4. ASSUME NEW e \in Dirs PROVE DirAt(e)'
  <2>1. DirAt(e) /\ DirectoryAt(e)
    BY DEF Control, DirAt
  <2>2. FlagsAt(e)'
    BY <2>1 DEF DirAt, FlagsAt
  <2>3. /\ SourceExporterCutover(pc'[e][ES], msr[e])
        /\ SourceExporterSlot(pc'[e][ES], msr[e], slot'[e]["source"].exists, FALSE)
        /\ SourceExporterSnapshot(pc'[e][ES], msr[e], exportType[e])
    <3>0. /\ SourceExporterCutover(pc[e][ES], msr[e])
          /\ SourceExporterSlot(pc[e][ES], msr[e], slot[e]["source"].exists, Open)
          /\ SourceExporterSnapshot(pc[e][ES], msr[e], exportType[e])
      BY <2>1 DEF DirAt, ExportersAt
    <3>1. CASE pc'[e][ES] = pc[e][ES] /\ slot'[e]["source"].exists = slot[e]["source"].exists
      BY <3>0, <3>1 DEF SourceExporterSlot
    <3>2. CASE pc'[e][ES] = "off"
      BY <3>0, <3>2 DEF SourceExporterCutover, SourceExporterSlot, SourceExporterSnapshot, WithSlot
    <3> QED
      BY <3>1, <3>2, CommandNames DEF SlotsStay
  <2>4. /\ TargetExporterCutover(pc'[e][ET], msr[e])
        /\ TargetExporterSlot(pc'[e][ET], msr[e], slot'[e]["target"].exists, FALSE)
    <3>0. /\ TargetExporterCutover(pc[e][ET], msr[e])
          /\ TargetExporterSlot(pc[e][ET], msr[e], slot[e]["target"].exists, Open)
      BY <2>1 DEF DirAt, ExportersAt
    <3>1. CASE pc'[e][ET] = pc[e][ET] /\ slot'[e]["target"].exists = slot[e]["target"].exists
      BY <3>0, <3>1 DEF TargetExporterSlot
    <3>2. CASE pc'[e][ET] = "off"
      BY <3>0, <3>2 DEF TargetExporterCutover, TargetExporterSlot, WithSlot
    <3> QED
      BY <3>1, <3>2, CommandNames DEF SlotsStay
  <2>5. ExportersAt(e)'
    BY <1>3, <2>3, <2>4 DEF ExportersAt
  <2>6. ImportersAt(e)'
    <3>1. ASSUME NEW k \in Importers
          PROVE  ImporterKnows(pc'[e][k], msr[e], DetectedBy(k), ProcessedBy(k))
      <4>1. ImporterKnows(pc[e][k], msr[e], DetectedBy(k), ProcessedBy(k))
        BY <2>1 DEF DirAt, ImportersAt
      <4>2. ImporterKnows("off", msr[e], DetectedBy(k), ProcessedBy(k))
        BY DEF ImporterKnows
      <4>3. pc'[e][k] = pc[e][k] \/ pc'[e][k] = "off"
        <5>1. k \in Commands
          BY CommandNames
        <5> QED
          BY ONLY <1>0, <5>1, e \in Dirs
      <4> QED
        BY ONLY <4>1, <4>2, <4>3
    <3>2. NextIterationSetUp(e, pc'[e][IS], msr[e], latest)
      <4>1. NextIterationSetUp(e, pc[e][IS], msr[e], latest)
        BY <2>1 DEF DirAt, ImportersAt
      <4>2. NextIterationSetUp(e, "off", msr[e], latest)
        BY ONLY DEF NextIterationSetUp
      <4>3. pc'[e][IS] = pc[e][IS] \/ pc'[e][IS] = "off"
        BY CommandNames
      <4> QED
        BY ONLY <4>1, <4>2, <4>3
    <3> QED
      BY <3>1, <3>2 DEF ImportersAt
  <2>7. DirectoryAt(e)'
    <3>1. \A k \in Commands : "off" \in StepsOf(k)
      BY OffIsAStep
    <3>2. \A k \in Commands : pc'[e][k] \in StepsOf(k)
      <4>1. SUFFICES ASSUME NEW k \in Commands PROVE pc'[e][k] \in StepsOf(k)
        OBVIOUS
      <4>2. pc[e][k] \in StepsOf(k) /\ (pc'[e][k] = pc[e][k] \/ pc'[e][k] = "off")
        BY <2>1 DEF DirectoryAt
      <4> QED
        BY <3>1, <4>2
    <3>3. StatusFile(pc'[e][ES], msr[e], dataDir'[e], queue'[e], FALSE)
      BY <2>1 DEF DirectoryAt, StatusFile
    <3>4. EventsRequested(queue'[e], msr[e])
      <4>1. EventsRequested(<<>>, msr[e])
        BY DEF EventsRequested
      <4> QED
        BY <2>1, <4>1 DEF DirectoryAt
    <3>5. e > 0 => pc'[e][SR] = "off"
      BY <2>1, CommandNames DEF DirectoryAt
    <3>6. /\ e > 0 => exportType[e] # SNAPSHOT_AND_CHANGES
          /\ e = 0 => exportType[e] # CHANGES_ONLY
      BY <2>1 DEF DirectoryAt
    <3> QED
      BY <1>3, <3>2, <3>3, <3>4, <3>5, <3>6 DEF DirectoryAt
  <2>8. FutureAt(e)'
    <3>1. SUFFICES ASSUME e > latest
                   PROVE  /\ msr[e] = {} /\ exportType[e] = ""
                          /\ dataDir'[e] = "empty" /\ queue'[e] = <<>>
                          /\ ~slot'[e]["source"].exists /\ ~slot'[e]["target"].exists
                          /\ \A k \in Commands : pc'[e][k] = "off"
                          /\ \A k \in Importers : done'[e][k] = 0
      BY ZenonT(40) DEF FutureAt
    <3>2. /\ msr[e] = {} /\ exportType[e] = "" /\ dataDir[e] = "empty" /\ queue[e] = <<>>
          /\ ~slot[e]["source"].exists /\ ~slot[e]["target"].exists
          /\ \A k \in Commands : pc[e][k] = "off"
          /\ \A k \in Importers : done[e][k] = 0
      BY <2>1, <3>1 DEF DirAt, FutureAt
    <3>3. \A k \in Commands : pc'[e][k] = "off"
      BY ONLY <1>0, <3>2, e \in Dirs
    <3>4. \A k \in Importers : done'[e][k] = 0
      <4>1. done'[e] = done[e] \/ \A k \in Importers : done'[e][k] = 0
        OBVIOUS
      <4>2. \A k \in Importers : done[e][k] = 0
        BY <3>2
      <4> QED
        BY <4>1, <4>2, SameCounts
    <3> QED
      BY <3>2, <3>3, <3>4
  <2> QED
    BY <2>2, <2>5, <2>6, <2>7, <2>8 DEF DirAt
<1>5. Chains'
  <2>1. ASSUME NEW a \in Commands, NEW b \in Commands, Alone(a, b) PROVE Alone(a, b)'
    BY <1>1, <2>1 DEF Alone
  <2> QED
    BY <2>1, CommandNames DEF Control, Chains
<1>6. Replica'
  <2>1. pc'[0][SR] \in {pc[0][SR], "off"} /\ (SR \in toRun' => SR \in toRun)
    BY DirsFacts, CommandNames
  <2>2. Replica
    BY DEF Control
  <2> QED
    BY <2>1, <2>2 DEF Replica
<1>7. Places'
  <2>1. latest \in Dirs /\ FbDir \in Dirs
    BY FbDirType
  <2>2. \A e \in Dirs : /\ pc'[e][ES] # "off" => e = latest
                        /\ pc'[e][IS] # "off" => e = FbDir
                        /\ pc'[e][IT] # "off" => e = latest
                        /\ pc'[e][ET] # "off" => e = FbDir
    <3>1. Places
      BY DEF Control
    <3> QED
      BY ZenonT(40), <1>1, <3>1, CommandNames DEF Places
  <2>3. /\ dataDir[latest] = "empty" => dataDir'[latest] = "empty"
        /\ queue[latest] = <<>> => queue'[latest] = <<>>
    BY <2>1
  <2> QED
    BY <1>a, <1>3, <2>2, <2>3 DEF Control, Places
<1>8. Owners'
  BY <1>a, <1>3 DEF Control, Owners
<1>9. AppPlace'
  BY <1>3 DEF Control, AppPlace
<1> QED
  BY <1>4, <1>5, <1>6, <1>7, <1>8, <1>9 DEF Control

(* The directory that AtDir picks is the largest one. *)
LEMMA AtDirFacts ==
  ASSUME NEW S \in SUBSET Dirs, S # {}
  PROVE  /\ AtDir(S) \in [step : {"stop"}, dir : Dirs] /\ AtDir(S).step = "stop"
         /\ AtDir(S).dir \in S /\ \A e \in S : ~(AtDir(S).dir < e)
<1>1. \A e \in S : e \in Nat /\ e <= MaxIteration
  BY DirsFacts
<1>2. PICK T : T = {MaxIteration - e : e \in S}
  OBVIOUS
<1>3. T \in SUBSET Nat /\ T # {}
  BY <1>1, <1>2, MaxIterationAssumption
<1>4. PICK x \in T : \A y \in T : x <= y
  BY <1>3, Smallest
<1>5. PICK m \in S : x = MaxIteration - m
  BY <1>2
<1>6. \A e \in S : e <= m
  <2>1. \A e \in S : x <= MaxIteration - e
    BY <1>2, <1>4
  <2> QED
    BY <1>1, <1>5, <2>1, MaxIterationAssumption
<1>7. PICK n : n = CHOOSE d \in S : \A e \in S : e <= d
  OBVIOUS
<1>8. n \in S /\ \A e \in S : e <= n
  BY <1>6, <1>7
<1>9. AtDir(S) = [step |-> "stop", dir |-> n]
  BY <1>7 DEF AtDir
<1>10. \A e \in S : ~(n < e)
  BY <1>1, <1>8
<1> QED
  BY <1>8, <1>9, <1>10

(* What a migration has settled that is not at a cutover. *)
LEMMA CutoverUnderWay ==
  ASSUME NEW d
  PROVE  /\ /\ "CutoverToTargetRequested" \in msr[d]
            /\ \/ "CutoverProcessedBySourceExporter" \notin msr[d]
               \/ "CutoverProcessedByTargetImporter" \notin msr[d]
            => GetCutoverStatus(d) = INITIATED
         /\ /\ "CutoverToSourceRequested" \in msr[d]
            /\ \/ "CutoverToSourceProcessedByTargetExporter" \notin msr[d]
               \/ "CutoverToSourceProcessedBySourceImporter" \notin msr[d]
            => GetCutoverToSourceStatus(d) = INITIATED
         /\ /\ "CutoverToSourceReplicaRequested" \in msr[d]
            /\ \/ "CutoverToSourceReplicaProcessedByTargetExporter" \notin msr[d]
               \/ "CutoverToSourceReplicaProcessedBySRImporter" \notin msr[d]
            => getCutoverToSourceReplicaStatus(d) = INITIATED
<1>1. /\ "CutoverToTargetRequested" \in msr[d]
      /\ \/ "CutoverProcessedBySourceExporter" \notin msr[d]
         \/ "CutoverProcessedByTargetImporter" \notin msr[d]
      => GetCutoverStatus(d) = INITIATED
  BY DEF GetCutoverStatus
<1>2. /\ "CutoverToSourceRequested" \in msr[d]
      /\ \/ "CutoverToSourceProcessedByTargetExporter" \notin msr[d]
         \/ "CutoverToSourceProcessedBySourceImporter" \notin msr[d]
      => GetCutoverToSourceStatus(d) = INITIATED
  BY DEF GetCutoverToSourceStatus
<1>3. /\ "CutoverToSourceReplicaRequested" \in msr[d]
      /\ \/ "CutoverToSourceReplicaProcessedByTargetExporter" \notin msr[d]
         \/ "CutoverToSourceReplicaProcessedBySRImporter" \notin msr[d]
      => getCutoverToSourceReplicaStatus(d) = INITIATED
  BY DEF getCutoverToSourceReplicaStatus
<1> QED
  BY <1>1, <1>2, <1>3

LEMMA SettledKnows ==
  ASSUME Control, Settled
  PROVE  SettledCommands
<1>1. SUFFICES ASSUME NEW d \in Dirs, NEW c \in Commands, pc[d][c] # "off"
               PROVE  RequestFlag(Role(d, c)) \notin msr[d]
  BY DEF Settled, SettledCommands
<1>2. pc[d][c] = "stream" \/ pc[d][c] = "streaming"
  BY <1>1 DEF Settled
<1>3. /\ GetCutoverStatus(d) # INITIATED /\ GetCutoverToSourceStatus(d) # INITIATED
      /\ getCutoverToSourceReplicaStatus(d) # INITIATED
  BY DEF Settled, CutoverPending
<1>4. DirAt(d) /\ Consistent(d, msr[d], latest)
  BY RecordsConsistent DEF Control
<1>5. pc[d][c] \in StepsOf(c)
  BY <1>4 DEF DirAt, DirectoryAt
<1>6. ASSUME c = ES PROVE RequestFlag(Role(d, c)) \notin msr[d]
  <2>1. "CutoverDetectedBySourceExporter" \notin msr[d]
    BY <1>2, <1>4, <1>6 DEF DirAt, ExportersAt, SourceExporterCutover
  <2>2. "CutoverProcessedBySourceExporter" \notin msr[d]
    BY <1>4, <2>1 DEF Consistent, ForwardFlags
  <2>3. "CutoverToTargetRequested" \notin msr[d]
    BY <1>3, <2>2, CutoverUnderWay
  <2> QED
    BY <1>6, <2>3, RoleFacts, RequestFacts
<1>7. ASSUME c = ET PROVE RequestFlag(Role(d, c)) \notin msr[d]
  <2>1. ~TargetDetected(msr[d])
    BY <1>2, <1>4, <1>7 DEF DirAt, ExportersAt, TargetExporterCutover
  <2>2. ~TargetProcessed(msr[d])
    BY <1>4, <2>1, ConsistentFacts
  <2>3. "CutoverToSourceRequested" \notin msr[d] /\ "CutoverToSourceReplicaRequested" \notin msr[d]
    BY <1>3, <2>2, CutoverUnderWay DEF TargetProcessed
  <2> QED
    BY <1>7, <2>3, RoleFacts, RequestFacts
<1>8. ASSUME c \in Importers PROVE RequestFlag(Role(d, c)) \notin msr[d]
  <2>1. pc[d][c] = "stream"
    <3>1. StepsOf(c) \subseteq ImporterLabels
      BY <1>8, StepsFacts, CommandNames
    <3>2. "streaming" \notin ImporterLabels
      BY ONLY DEF ImporterLabels
    <3> QED
      BY <1>2, <1>5, <3>1, <3>2
  <2>2. DetectedBy(c) \notin msr[d]
    BY <1>4, <1>8, <2>1 DEF DirAt, ImportersAt, ImporterKnows
  <2>3. CASE c = IT
    <3>1. "CutoverDetectedByTargetImporter" \notin msr[d]
      BY <2>2, <2>3, ImporterFlagFacts
    <3>2. "CutoverProcessedByTargetImporter" \notin msr[d]
      BY <1>4, <3>1 DEF Consistent, ForwardFlags
    <3>3. "CutoverToTargetRequested" \notin msr[d]
      BY <1>3, <3>2, CutoverUnderWay
    <3> QED
      BY <2>3, <3>3, RoleFacts, RequestFacts
  <2>4. CASE c = IS
    <3>1. "CutoverDetectedBySourceImporter" \notin msr[d]
      BY <2>2, <2>4, ImporterFlagFacts
    <3>2. "CutoverToSourceProcessedBySourceImporter" \notin msr[d]
      BY <1>4, <3>1 DEF Consistent, BackFlags
    <3>3. "CutoverToSourceRequested" \notin msr[d]
      BY <1>3, <3>2, CutoverUnderWay
    <3> QED
      BY <2>4, <3>3, RoleFacts, RequestFacts
  <2>5. CASE c = SR
    <3>1. "CutoverDetectedBySourceReplicaImporter" \notin msr[d]
      BY <2>2, <2>5, ImporterFlagFacts
    <3>2. "CutoverToSourceReplicaProcessedBySRImporter" \notin msr[d]
      BY <1>4, <3>1 DEF Consistent, OnwardFlags
    <3>3. "CutoverToSourceReplicaRequested" \notin msr[d]
      BY <1>3, <3>2, CutoverUnderWay
    <3> QED
      BY <2>5, <3>3, RoleFacts, RequestFacts
  <2> QED
    BY <1>8, <2>3, <2>4, <2>5, CommandNames
<1> QED
  BY <1>6, <1>7, <1>8, CommandNames

LEMMA SettledSlots ==
  ASSUME Control, Open, Settled
  PROVE  KnownSlots
<1>1. SUFFICES ASSUME NEW d \in Dirs
               PROVE  /\ slot[d]["source"].exists => exportType[d] # "" /\ "PGReplicationSlotName" \in msr[d]
                      /\ slot[d]["target"].exists => DeletesYBSlot(d)
  BY DEF KnownSlots, Control, Ending
<1>2. DirAt(d) /\ Consistent(d, msr[d], latest)
  BY RecordsConsistent DEF Control
<1>3. ASSUME slot[d]["source"].exists
      PROVE  exportType[d] # "" /\ "PGReplicationSlotName" \in msr[d]
  <2>1. d = latest /\ Alive(ES)
    BY <1>3 DEF Control, Owners
  <2>2. pc[d][ES] # "off"
    BY <2>1, Mates DEF Alive, Settled
  <2>3. pc[d][ES] \in StepsOf(ES) /\ pc[d][ES] \in {"off", "stream", "streaming"}
    BY <1>2, CommandNames DEF DirAt, DirectoryAt, Settled
  <2>4. pc[d][ES] = "streaming"
    BY <2>2, <2>3, StepsFacts DEF ExporterLabels
  <2>5. exportType[d] # "" /\ "ExportDataDone" \in msr[d]
    BY <1>2, <2>4 DEF DirAt, ExportersAt, SourceExporterSnapshot, WithSlot
  <2> QED
    BY <1>2, <2>5 DEF Consistent, ForwardFlags
<1>4. ASSUME slot[d]["target"].exists
      PROVE  DeletesYBSlot(d)
  <2>1. d = FbDir /\ Alive(ET)
    BY <1>4 DEF Control, Owners
  <2>2. pc[d][ET] # "off"
    BY <2>1, Mates DEF Alive, Settled
  <2>3. pc[d][ET] \in StepsOf(ET) /\ pc[d][ET] \in {"off", "stream", "streaming"}
    BY <1>2, CommandNames DEF DirAt, DirectoryAt, Settled
  <2>4. pc[d][ET] = "streaming"
    BY <2>2, <2>3, StepsFacts DEF ExporterLabels
  <2>5. "YBReplicationSlotName" \in msr[d] /\ TargetStreamed(msr[d])
    BY <1>2, <2>4 DEF DirAt, ExportersAt, TargetExporterSlot, WithSlot
  <2> QED
    BY <2>5 DEF DeletesYBSlot, TargetStreamed
<1> QED
  BY <1>3, <1>4

(* The directory that 'end migration' takes next. *)
LEMMA NextToEnd ==
  ASSUME Control, NEW S, S \subseteq EndDirs, 0 \in S, NEW done1, done1 \subseteq Dirs,
         \A d \in Dirs : d <= latest /\ d \notin S => d \in done1
  PROVE  /\ AtDir(S) \in [step : EndSteps, dir : Dirs] /\ AtDir(S).step = "stop"
         /\ AtDir(S).dir <= latest
         /\ \A d \in Dirs : AtDir(S).dir < d /\ d <= latest => d \in done1
<1>1. S \in SUBSET Dirs /\ S # {} /\ \A d \in S : d <= latest
  BY DEF EndDirs
<1>2. /\ AtDir(S) \in [step : {"stop"}, dir : Dirs] /\ AtDir(S).step = "stop"
      /\ AtDir(S).dir \in S /\ \A e \in S : ~(AtDir(S).dir < e)
  BY <1>1, AtDirFacts
<1>3. AtDir(S) \in [step : EndSteps, dir : Dirs]
  BY <1>2 DEF EndSteps
<1> QED
  BY <1>1, <1>2, <1>3

LEMMA EndMigrationKept ==
  ASSUME Control, "abort" \notin Perils, EndMigration
  PROVE  Control'
<1>1. /\ ending.step \in {"off", "killed"} /\ ending' = AtDir(EndDirs) /\ toRun' = {}
      /\ msr' = msr /\ exportType' = exportType /\ latest' = latest /\ pc' = pc
      /\ importType' = importType /\ kills' = kills /\ dataDir' = dataDir /\ files' = files
      /\ queue' = queue /\ done' = done /\ db' = db /\ slot' = slot /\ app' = app
      /\ written' = written /\ ended' = ended
      /\ ending.step = "off" => Settled
  BY DEF EndMigration, RunEndMigration, msrVars, dataVars
<1>2. TypeOK /\ ended \subseteq Dirs /\ latest \in Nat /\ 0 \in Dirs
  BY LatestFacts, DirsFacts DEF Control, TypeOK, EndTypeOK
<1>3. SettledCommands /\ KnownSlots /\ 0 \notin ended
  <2>1. CASE ending.step = "off"
    BY <1>1, <2>1, SettledKnows, SettledSlots DEF Control, Ending, Open
  <2>2. CASE ending.step = "killed"
    BY <2>2 DEF Control, Ending, Open, EndOrder
  <2> QED
    BY <1>1, <2>1, <2>2
<1>4. 0 \in EndDirs
  <2>1. 0 <= latest
    BY <1>2
  <2> QED
    BY <1>2, <1>3, <2>1 DEF EndDirs
<1>5. \A d \in Dirs : d <= latest /\ d \notin EndDirs => d \in ended
  BY DEF EndDirs
<1>6. /\ ending' \in [step : EndSteps, dir : Dirs] /\ ending'.step = "stop"
      /\ ending'.dir <= latest
      /\ \A d \in Dirs : ending'.dir < d /\ d <= latest => d \in ended
  BY <1>1, <1>2, <1>4, <1>5, NextToEnd
<1>7. TypeOK'
  BY <1>1, <1>2, <1>6 DEF TypeOK, MSRTypeOK, EndTypeOK
<1>8. ~Open'
  BY <1>6 DEF Open
<1>9. \A e, c : Role(e, c)' = Role(e, c)
  BY <1>1 DEF Role
<1>10. SettledCommands'
  BY <1>1, <1>3, <1>9 DEF SettledCommands
<1>11. KnownSlots'
  BY <1>1, <1>3 DEF KnownSlots, DeletesYBSlot
<1>12. EndOrder'
  BY <1>1, <1>3, <1>6 DEF EndOrder
<1>13. EndProgress'
  BY <1>6 DEF EndProgress
<1>14. Ending'
  BY <1>8, <1>10, <1>11, <1>12, <1>13 DEF Ending
<1>15. \A e \in Dirs : SlotsStay(e)
  BY <1>1 DEF SlotsStay
<1> QED
  BY <1>1, <1>7, <1>8, <1>14, <1>15, EndStepKept

(* Where 'end migration' is between its steps. *)
LEMMA EndFacts ==
  ASSUME Control, ~Open
  PROVE  /\ TypeOK /\ SettledCommands /\ KnownSlots /\ EndOrder /\ EndProgress
         /\ ending \in [step : EndSteps, dir : Dirs] /\ ending.dir \in Dirs
BY DEF Control, Ending, TypeOK, EndTypeOK

LEMMA EndGotoFacts ==
  ASSUME Control, NEW l \in EndSteps \ {"off"}, EndGoto(l)
  PROVE  ending'.step = l /\ ending'.dir = ending.dir /\ ending' \in [step : EndSteps, dir : Dirs] /\ ~Open'
<1>1. ending \in [step : EndSteps, dir : Dirs]
  BY DEF Control, TypeOK, EndTypeOK
<1> QED
  BY <1>1 DEF EndGoto, Open

LEMMA StopKept ==
  ASSUME Control, StopVoyagerCommands, UNCHANGED <<app, written>>
  PROVE  Control'
<1>1. /\ ending.step = "stop" /\ EndGoto("source")
      /\ pc' = [pc EXCEPT ![ending.dir] = [c \in Commands |-> "off"]]
      /\ msr' = msr /\ exportType' = exportType /\ latest' = latest /\ toRun' = toRun
      /\ importType' = importType /\ kills' = kills /\ dataDir' = dataDir /\ files' = files
      /\ queue' = queue /\ done' = done /\ db' = db /\ slot' = slot /\ app' = app
      /\ written' = written /\ ended' = ended
  BY DEF StopVoyagerCommands, msrVars, dataVars
<1>2. /\ TypeOK /\ SettledCommands /\ KnownSlots /\ EndOrder /\ EndProgress
      /\ ending.dir \in Dirs
  BY <1>1, EndFacts DEF Open
<1>3. ending'.step = "source" /\ ending'.dir = ending.dir /\ ending' \in [step : EndSteps, dir : Dirs] /\ ~Open'
  BY <1>1, EndGotoFacts DEF EndSteps
<1>4. /\ \A c \in Commands : pc'[ending.dir][c] = "off"
      /\ \A e \in Dirs : e # ending.dir => pc'[e] = pc[e]
  BY <1>1, <1>2 DEF TypeOK
<1>5. \A e \in Dirs, k \in Commands : pc'[e][k] = pc[e][k] \/ pc'[e][k] = "off"
  BY <1>4
<1>6. TypeOK'
  <2>1. pc' \in [Dirs -> [Commands -> ExporterLabels \cup ImporterLabels]]
    <3>1. [c \in Commands |-> "off"] \in [Commands -> ExporterLabels \cup ImporterLabels]
      BY DEF ExporterLabels
    <3> QED
      BY <1>1, <1>2, <3>1 DEF TypeOK
  <2> QED
    BY <1>1, <1>2, <1>3, <2>1 DEF TypeOK, MSRTypeOK, EndTypeOK
<1>7. \A e, c : Role(e, c)' = Role(e, c)
  BY <1>1 DEF Role
<1>8. SettledCommands'
  BY <1>1, <1>2, <1>5, <1>7 DEF SettledCommands
<1>9. KnownSlots'
  BY <1>1, <1>2 DEF KnownSlots, DeletesYBSlot
<1>10. EndOrder'
  BY <1>1, <1>2, <1>3 DEF EndOrder
<1>11. EndProgress'
  BY <1>3, <1>4 DEF EndProgress
<1>12. Ending'
  BY <1>3, <1>8, <1>9, <1>10, <1>11 DEF Ending
<1>13. \A e \in Dirs : SlotsStay(e)
  BY <1>1 DEF SlotsStay
<1> QED
  BY <1>1, <1>3, <1>5, <1>6, <1>12, <1>13, EndStepKept

(* A slot that is gone. *)
LEMMA SlotGone ==
  ASSUME TypeOK, NEW d \in Dirs, NEW s \in {"source", "target"}, slot' = [slot EXCEPT ![d][s] = NoSlot]
  PROVE  /\ slot' \in [Dirs -> [{"source", "target"} -> [exists : BOOLEAN, pending : SUBSET Writes]]]
         /\ ~slot'[d][s].exists
         /\ \A e \in Dirs, x \in {"source", "target"} : e # d \/ x # s => slot'[e][x] = slot[e][x]
<1>e. PICK E : E = {"source", "target"}
  OBVIOUS
<1>1. slot \in [Dirs -> [E -> SlotValue]] /\ NoSlot \in SlotValue /\ ~NoSlot.exists
  <2>1. NoSlot \in SlotValue /\ ~NoSlot.exists
    BY DEF NoSlot, SlotValue
  <2>2. slot \in [Dirs -> [E -> SlotValue]]
    BY <1>e DEF TypeOK, SlotValue
  <2> QED
    BY <2>1, <2>2
<1>2. /\ slot' \in [Dirs -> [E -> SlotValue]] /\ slot'[d][s] = NoSlot
      /\ \A e \in Dirs, x \in E : e # d \/ x # s => slot'[e][x] = slot[e][x]
  BY <1>1, <1>e
<1> QED
  BY <1>1, <1>2, <1>e DEF SlotValue

LEMMA CleanupSourceKept ==
  ASSUME Control, CleanupSourceDB, UNCHANGED <<app, written>>
  PROVE  Control'
<1>d. PICK d : d = ending.dir
  OBVIOUS
<1>1. /\ ending.step = "source" /\ EndGoto("target")
      /\ slot' = IF exportType[d] # "" /\ "PGReplicationSlotName" \in msr[d]
                 THEN [slot EXCEPT ![d]["source"] = NoSlot] ELSE slot
      /\ msr' = msr /\ exportType' = exportType /\ latest' = latest /\ toRun' = toRun /\ pc' = pc
      /\ importType' = importType /\ kills' = kills /\ dataDir' = dataDir /\ files' = files
      /\ queue' = queue /\ done' = done /\ db' = db /\ app' = app
      /\ written' = written /\ ended' = ended
  BY <1>d DEF CleanupSourceDB, msrVars, procVars
<1>2. /\ TypeOK /\ SettledCommands /\ KnownSlots /\ EndOrder /\ EndProgress /\ d \in Dirs
  BY <1>1, <1>d, EndFacts DEF Open
<1>3. ending'.step = "target" /\ ending'.dir = d /\ ending' \in [step : EndSteps, dir : Dirs] /\ ~Open'
  BY <1>1, <1>d, EndGotoFacts DEF EndSteps
<1>4. /\ slot' \in [Dirs -> [{"source", "target"} -> [exists : BOOLEAN, pending : SUBSET Writes]]]
      /\ ~slot'[d]["source"].exists
      /\ \A e \in Dirs : slot'[e]["target"].exists = slot[e]["target"].exists
      /\ \A e \in Dirs : e # d => slot'[e]["source"].exists = slot[e]["source"].exists
  <2>1. CASE exportType[d] # "" /\ "PGReplicationSlotName" \in msr[d]
    BY <1>1, <1>2, <2>1, SlotGone
  <2>2. CASE ~(exportType[d] # "" /\ "PGReplicationSlotName" \in msr[d])
    <3>1. slot' = slot
      BY <1>1, <2>2
    <3>2. ~slot[d]["source"].exists
      BY <1>2, <2>2 DEF KnownSlots
    <3> QED
      BY <1>2, <3>1, <3>2 DEF TypeOK
  <2> QED
    BY <2>1, <2>2
<1>5. \A c \in Commands : pc[d][c] = "off"
  BY <1>1, <1>2, <1>d DEF EndProgress
<1>6. TypeOK'
  BY <1>1, <1>2, <1>3, <1>4 DEF TypeOK, MSRTypeOK, EndTypeOK
<1>7. \A e, c : Role(e, c)' = Role(e, c)
  BY <1>1 DEF Role
<1>8. SettledCommands'
  BY <1>1, <1>2, <1>7 DEF SettledCommands
<1>9. KnownSlots'
  BY <1>1, <1>2, <1>4 DEF KnownSlots, DeletesYBSlot
<1>10. EndOrder'
  BY <1>1, <1>2, <1>3, <1>d DEF EndOrder
<1>11. EndProgress'
  BY <1>1, <1>3, <1>4, <1>5 DEF EndProgress
<1>12. Ending'
  BY <1>3, <1>8, <1>9, <1>10, <1>11 DEF Ending
<1>13. \A e \in Dirs : /\ slot'[e]["source"].exists => slot[e]["source"].exists
                       /\ slot'[e]["target"].exists => slot[e]["target"].exists
                       /\ SlotsStay(e) \/ \A k \in Commands : pc'[e][k] = "off"
  BY <1>1, <1>4, <1>5 DEF SlotsStay
<1> QED
  BY <1>1, <1>3, <1>6, <1>12, <1>13, EndStepKept

LEMMA CleanupTargetKept ==
  ASSUME Control, CleanupTargetDBs, UNCHANGED <<app, written>>
  PROVE  Control'
<1>d. PICK d : d = ending.dir
  OBVIOUS
<1>1. /\ ending.step = "target" /\ EndGoto("clean")
      /\ slot' = IF DeletesYBSlot(d) THEN [slot EXCEPT ![d]["target"] = NoSlot] ELSE slot
      /\ done' = [done EXCEPT ![d] = [c \in Importers |-> 0]]
      /\ msr' = msr /\ exportType' = exportType /\ latest' = latest /\ toRun' = toRun /\ pc' = pc
      /\ importType' = importType /\ kills' = kills /\ dataDir' = dataDir /\ files' = files
      /\ queue' = queue /\ db' = db /\ app' = app
      /\ written' = written /\ ended' = ended
  BY <1>d DEF CleanupTargetDBs, msrVars, procVars
<1>2. /\ TypeOK /\ SettledCommands /\ KnownSlots /\ EndOrder /\ EndProgress /\ d \in Dirs
  BY <1>1, <1>d, EndFacts DEF Open
<1>3. ending'.step = "clean" /\ ending'.dir = d /\ ending' \in [step : EndSteps, dir : Dirs] /\ ~Open'
  BY <1>1, <1>d, EndGotoFacts DEF EndSteps
<1>4. /\ slot' \in [Dirs -> [{"source", "target"} -> [exists : BOOLEAN, pending : SUBSET Writes]]]
      /\ ~slot'[d]["target"].exists
      /\ \A e \in Dirs : slot'[e]["source"].exists = slot[e]["source"].exists
      /\ \A e \in Dirs : e # d => slot'[e]["target"].exists = slot[e]["target"].exists
  <2>1. CASE DeletesYBSlot(d)
    BY <1>1, <1>2, <2>1, SlotGone
  <2>2. CASE ~DeletesYBSlot(d)
    <3>1. slot' = slot
      BY <1>1, <2>2
    <3>2. ~slot[d]["target"].exists
      BY <1>2, <2>2 DEF KnownSlots
    <3> QED
      BY <1>2, <3>1, <3>2 DEF TypeOK
  <2> QED
    BY <2>1, <2>2
<1>5. (\A c \in Commands : pc[d][c] = "off") /\ ~slot[d]["source"].exists
  BY <1>1, <1>2, <1>d DEF EndProgress
<1>6. /\ done' \in [Dirs -> [Importers -> Nat]] /\ (\A k \in Importers : done'[d][k] = 0)
      /\ \A e \in Dirs : e # d => done'[e] = done[e]
  <2>1. [c \in Importers |-> 0] \in [Importers -> Nat]
    OBVIOUS
  <2>2. done \in [Dirs -> [Importers -> Nat]]
    BY <1>2 DEF TypeOK
  <2> QED
    BY <1>1, <1>2, <2>1, <2>2
<1>7. \A e \in Dirs, k \in Importers : done'[e][k] <= Len(queue[e])
  <2>1. SUFFICES ASSUME NEW e \in Dirs, NEW k \in Importers PROVE done'[e][k] <= Len(queue[e])
    OBVIOUS
  <2>2. done[e][k] <= Len(queue[e]) /\ done[e][k] \in Nat
    BY <1>2 DEF TypeOK
  <2>i. PICK Items : Items = [by : Exporters, event : {"change"} \cup CutoverEvents,
                              write : 0 .. MaxWrites]
    OBVIOUS
  <2>3. queue[e] \in Seq(Items)
    BY <1>2, <2>i DEF TypeOK
  <2>4. Len(queue[e]) \in Nat
    BY <2>3
  <2>5. done'[e][k] = done[e][k] \/ done'[e][k] = 0
    BY <1>6
  <2> QED
    BY <2>2, <2>4, <2>5
<1>8. TypeOK'
  BY <1>1, <1>2, <1>3, <1>4, <1>6, <1>7 DEF TypeOK, MSRTypeOK, EndTypeOK
<1>9. \A e, c : Role(e, c)' = Role(e, c)
  BY <1>1 DEF Role
<1>10. SettledCommands'
  BY <1>1, <1>2, <1>9 DEF SettledCommands
<1>11. KnownSlots'
  BY <1>1, <1>2, <1>4 DEF KnownSlots, DeletesYBSlot
<1>12. EndOrder'
  BY <1>1, <1>2, <1>3, <1>d DEF EndOrder
<1>13. EndProgress'
  BY <1>1, <1>2, <1>3, <1>4, <1>5, <1>6 DEF EndProgress
<1>14. Ending'
  BY <1>3, <1>10, <1>11, <1>12, <1>13 DEF Ending
<1>15. \A e \in Dirs : /\ slot'[e]["source"].exists => slot[e]["source"].exists
                       /\ slot'[e]["target"].exists => slot[e]["target"].exists
                       /\ done'[e] = done[e] \/ \A k \in Importers : done'[e][k] = 0
                       /\ SlotsStay(e) \/ \A k \in Commands : pc'[e][k] = "off"
  BY <1>1, <1>4, <1>5, <1>6 DEF SlotsStay
<1> QED
  BY <1>1, <1>3, <1>8, <1>14, <1>15, EndStepKept

LEMMA CleanupDirKept ==
  ASSUME Control, CleanupExportDir, UNCHANGED <<app, written>>
  PROVE  Control'
<1>d. PICK d : d = ending.dir
  OBVIOUS
<1>1. /\ ending.step = "clean"
      /\ dataDir' = [dataDir EXCEPT ![d] = "empty"] /\ queue' = [queue EXCEPT ![d] = <<>>]
      /\ files' = {} \/ files' = files
      /\ \/ d = 0 /\ EndGoto("ended") /\ ended' = ended \cup {0}
         \/ d # 0 /\ EndGoto("remove") /\ ended' = ended
      /\ msr' = msr /\ exportType' = exportType /\ latest' = latest /\ toRun' = toRun /\ pc' = pc
      /\ importType' = importType /\ kills' = kills /\ done' = done /\ slot' = slot
      /\ db' = db /\ app' = app /\ written' = written
  BY <1>d DEF CleanupExportDir, msrVars, procVars
<1>2. /\ TypeOK /\ SettledCommands /\ KnownSlots /\ EndOrder /\ EndProgress /\ d \in Dirs /\ 0 \in Dirs
      /\ (d > 0 => d # 0) /\ (d # 0 => d > 0)
  BY <1>1, <1>d, EndFacts, DirsFacts, DirPositive DEF Open
<1>3. /\ ending'.dir = d /\ ending' \in [step : EndSteps, dir : Dirs] /\ ~Open'
      /\ \/ d = 0 /\ ending'.step = "ended" /\ ended' = ended \cup {0}
         \/ d # 0 /\ ending'.step = "remove" /\ ended' = ended
  BY <1>1, <1>d, EndGotoFacts DEF EndSteps
<1>4. /\ \A c \in Commands : pc[d][c] = "off"
      /\ ~slot[d]["source"].exists /\ ~slot[d]["target"].exists
      /\ \A k \in Importers : done[d][k] = 0
  BY <1>1, <1>2, <1>d DEF EndProgress
<1>i. PICK Items : Items = [by : Exporters, event : {"change"} \cup CutoverEvents,
                            write : 0 .. MaxWrites]
  OBVIOUS
<1>5. /\ queue' \in [Dirs -> Seq(Items)] /\ queue'[d] = <<>>
      /\ \A e \in Dirs : e # d => queue'[e] = queue[e]
  <2>1. queue \in [Dirs -> Seq(Items)]
    BY <1>2, <1>i DEF TypeOK
  <2>2. <<>> \in Seq(Items)
    OBVIOUS
  <2> QED
    BY <1>1, <1>2, <2>1, <2>2
<1>6. \A e \in Dirs, k \in Importers : done[e][k] <= Len(queue'[e])
  <2>1. SUFFICES ASSUME NEW e \in Dirs, NEW k \in Importers PROVE done[e][k] <= Len(queue'[e])
    OBVIOUS
  <2>2. done[e][k] <= Len(queue[e])
    BY <1>2 DEF TypeOK
  <2>3. CASE e = d
    <3>1. done[d][k] = 0 /\ queue'[d] = <<>>
      BY <1>4, <1>5
    <3>2. 0 <= Len(<<>>)
      OBVIOUS
    <3> QED
      BY <2>3, <3>1, <3>2
  <2>4. CASE e # d
    BY <1>5, <2>2, <2>4
  <2> QED
    BY <2>3, <2>4
<1>7. /\ dataDir' \in [Dirs -> {"empty", "partial", "streaming"}] /\ dataDir'[d] = "empty"
      /\ \A e \in Dirs : e # d => dataDir'[e] = dataDir[e]
  BY <1>1, <1>2 DEF TypeOK
<1>8. TypeOK'
  <2>1. files' \subseteq Writes /\ ended' \subseteq Dirs
    BY <1>1, <1>2 DEF TypeOK, EndTypeOK
  <2> QED
    <3>1. MSRTypeOK' /\ EndTypeOK'
      BY <1>1, <1>2, <1>3, <2>1 DEF TypeOK, MSRTypeOK, EndTypeOK
    <3>2. /\ pc' \in [Dirs -> [Commands -> ExporterLabels \cup ImporterLabels]]
          /\ importType' \in [Dirs -> ExportTypes] /\ toRun' \subseteq Commands
          /\ kills' \in 0 .. MaxKills /\ done' \in [Dirs -> [Importers -> Nat]]
          /\ db' \in [Databases -> SUBSET Writes] /\ written' \in 0 .. MaxWrites
          /\ slot' \in [Dirs -> [{"source", "target"} -> [exists : BOOLEAN, pending : SUBSET Writes]]]
          /\ app' \in [at : Databases, up : BOOLEAN, dir : Dirs]
      BY <1>1, <1>2 DEF TypeOK
    <3>3. \A e \in Dirs, k \in Importers : done'[e][k] <= Len(queue'[e])
      BY <1>1, <1>6
    <3>4. queue' \in [Dirs -> Seq([by : Exporters, event : {"change"} \cup CutoverEvents,
                                   write : 0 .. MaxWrites])]
      BY <1>5, <1>i
    <3> QED
      BY <1>7, <2>1, <3>1, <3>2, <3>3, <3>4 DEF TypeOK
<1>9. \A e, c : Role(e, c)' = Role(e, c)
  BY <1>1 DEF Role
<1>10. SettledCommands'
  BY <1>1, <1>2, <1>9 DEF SettledCommands
<1>11. KnownSlots'
  <2>1. \A e \in Dirs : e \in ended' => e \in ended \/ e = d
    BY <1>3
  <2> QED
    BY <1>1, <1>2, <1>4, <2>1 DEF KnownSlots, DeletesYBSlot
<1>12. EndOrder'
  BY <1>1, <1>2, <1>3, <1>d DEF EndOrder
<1>13. EndProgress'
  BY <1>1, <1>3, <1>4 DEF EndProgress
<1>14. Ending'
  BY <1>3, <1>10, <1>11, <1>12, <1>13 DEF Ending
<1>15. \A e \in Dirs : /\ dataDir'[e] = dataDir[e] \/ dataDir'[e] = "empty"
                       /\ queue'[e] = queue[e] \/ queue'[e] = <<>>
                       /\ SlotsStay(e)
  BY <1>1, <1>5, <1>7 DEF SlotsStay
<1> QED
  BY <1>1, <1>3, <1>8, <1>14, <1>15, EndStepKept

LEMMA RemoveDirKept ==
  ASSUME Control, RemoveIterationDir, UNCHANGED <<app, written>>
  PROVE  Control'
<1>d. PICK d : d = ending.dir
  OBVIOUS
<1>S. PICK S : S = EndDirs \ {d}
  OBVIOUS
<1>1. /\ ending.step = "remove" /\ ended' = ended \cup {d} /\ ending' = AtDir(S)
      /\ msr' = msr /\ exportType' = exportType /\ latest' = latest /\ toRun' = toRun /\ pc' = pc
      /\ importType' = importType /\ kills' = kills /\ dataDir' = dataDir /\ files' = files
      /\ queue' = queue /\ done' = done /\ db' = db /\ slot' = slot /\ app' = app
      /\ written' = written
  BY <1>d, <1>S DEF RemoveIterationDir, msrVars, procVars, dataVars
<1>2. /\ TypeOK /\ SettledCommands /\ KnownSlots /\ EndOrder /\ EndProgress /\ d \in Dirs /\ 0 \in Dirs
      /\ (d > 0 => d # 0) /\ latest \in Nat
  BY <1>1, <1>d, EndFacts, DirsFacts, DirPositive, LatestFacts DEF Open
<1>3. d # 0 /\ 0 \notin ended
  BY <1>1, <1>2, <1>d DEF EndOrder
<1>4. S \subseteq EndDirs /\ 0 \in S
  <2>1. 0 <= latest
    BY <1>2
  <2> QED
    BY <1>2, <1>3, <1>S, <2>1 DEF EndDirs
<1>5. ended' \subseteq Dirs /\ \A e \in Dirs : e <= latest /\ e \notin S => e \in ended'
  <2>1. ended' \subseteq Dirs
    BY <1>1, <1>2 DEF TypeOK, EndTypeOK
  <2> QED
    BY <1>1, <1>S, <2>1 DEF EndDirs
<1>6. /\ ending' \in [step : EndSteps, dir : Dirs] /\ ending'.step = "stop"
      /\ ending'.dir <= latest
      /\ \A e \in Dirs : ending'.dir < e /\ e <= latest => e \in ended'
  BY <1>1, <1>4, <1>5, NextToEnd
<1>7. TypeOK'
  BY <1>1, <1>2, <1>5, <1>6 DEF TypeOK, MSRTypeOK, EndTypeOK
<1>8. ~Open' /\ 0 \notin ended'
  BY <1>1, <1>3, <1>6 DEF Open
<1>9. \A e, c : Role(e, c)' = Role(e, c)
  BY <1>1 DEF Role
<1>10. SettledCommands'
  BY <1>1, <1>2, <1>9 DEF SettledCommands
<1>11. KnownSlots'
  <2>1. ~slot[d]["source"].exists /\ ~slot[d]["target"].exists
    BY <1>1, <1>2, <1>d DEF EndProgress
  <2> QED
    BY <1>1, <1>2, <2>1 DEF KnownSlots, DeletesYBSlot
<1>12. EndOrder'
  BY <1>1, <1>6, <1>8 DEF EndOrder
<1>13. EndProgress'
  BY <1>6 DEF EndProgress
<1>14. Ending'
  BY <1>8, <1>10, <1>11, <1>12, <1>13 DEF Ending
<1>15. \A e \in Dirs : SlotsStay(e)
  BY <1>1 DEF SlotsStay
<1> QED
  BY <1>1, <1>7, <1>8, <1>14, <1>15, EndStepKept

LEMMA KillEndKept ==
  ASSUME Control, KillEndMigration
  PROVE  Control'
<1>1. /\ ending.step \notin {"off", "killed", "ended"} /\ EndGoto("killed")
      /\ kills < MaxKills /\ kills' = kills + 1
      /\ msr' = msr /\ exportType' = exportType /\ latest' = latest /\ toRun' = toRun /\ pc' = pc
      /\ importType' = importType /\ dataDir' = dataDir /\ files' = files
      /\ queue' = queue /\ done' = done /\ db' = db /\ slot' = slot /\ app' = app
      /\ written' = written /\ ended' = ended
  BY DEF KillEndMigration, EndGoto, msrVars, dataVars
<1>2. /\ TypeOK /\ SettledCommands /\ KnownSlots /\ EndOrder /\ EndProgress
  BY <1>1, EndFacts DEF Open
<1>3. ending'.step = "killed" /\ ending'.dir = ending.dir /\ ending' \in [step : EndSteps, dir : Dirs] /\ ~Open'
  BY <1>1, EndGotoFacts DEF EndSteps
<1>4. TypeOK'
  <2>1. kills' \in 0 .. MaxKills
    BY <1>1, <1>2, MigrationBoundsAssumption DEF TypeOK
  <2> QED
    BY <1>1, <1>2, <1>3, <2>1 DEF TypeOK, MSRTypeOK, EndTypeOK
<1>5. \A e, c : Role(e, c)' = Role(e, c)
  BY <1>1 DEF Role
<1>6. SettledCommands'
  BY <1>1, <1>2, <1>5 DEF SettledCommands
<1>7. KnownSlots'
  BY <1>1, <1>2 DEF KnownSlots, DeletesYBSlot
<1>8. EndOrder'
  BY <1>1, <1>2, <1>3 DEF EndOrder
<1>9. EndProgress'
  BY <1>3 DEF EndProgress
<1>10. Ending'
  BY <1>3, <1>6, <1>7, <1>8, <1>9 DEF Ending
<1>11. \A e \in Dirs : SlotsStay(e)
  BY <1>1 DEF SlotsStay
<1> QED
  BY <1>1, <1>3, <1>4, <1>10, <1>11, EndStepKept

-----------------------------------------------------------------------------
(* The invariant *)

LEMMA InitControl ==
  ASSUME Init
  PROVE  Control
<1>1. /\ msr = [d \in Dirs |-> {}] /\ exportType = [d \in Dirs |-> ""] /\ latest = 0
      /\ pc = [d \in Dirs |-> [c \in Commands |-> "off"]] /\ importType = [d \in Dirs |-> ""]
      /\ kills = 0 /\ dataDir = [d \in Dirs |-> "empty"] /\ files = {}
      /\ queue = [d \in Dirs |-> <<>>] /\ done = [d \in Dirs |-> [c \in Importers |-> 0]]
      /\ db = [x \in Databases |-> {}]
      /\ slot = [d \in Dirs |-> [x \in {"source", "target"} |-> NoSlot]]
      /\ app = [at |-> "source", up |-> TRUE, dir |-> 0] /\ written = 0
      /\ ending = NotEnding /\ ended = {}
  BY DEF Init
<1>2. 0 \in Dirs /\ ~(0 > 0)
  <2>1. ~(0 > 0)
    OBVIOUS
  <2> QED
    BY <2>1, DirsFacts
<1>3. toRun \subseteq Commands /\ IS \notin toRun /\ ET \notin toRun
  BY CommandNames DEF Init
<1>4. \A d \in Dirs : /\ msr[d] = {} /\ exportType[d] = "" /\ dataDir[d] = "empty" /\ queue[d] = <<>>
                      /\ ~slot[d]["source"].exists /\ ~slot[d]["target"].exists
                      /\ \A c \in Commands : pc[d][c] = "off"
                      /\ \A c \in Importers : done[d][c] = 0
  BY <1>1 DEF NoSlot
<1>5. Open /\ ending.step = "off" /\ ending \in [step : EndSteps, dir : Dirs]
  BY <1>1, <1>2 DEF Open, NotEnding, EndSteps
<1>6. TypeOK
  <2>1. MSRTypeOK
    BY <1>1, <1>2 DEF MSRTypeOK, ExportTypes
  <2>2. pc \in [Dirs -> [Commands -> ExporterLabels \cup ImporterLabels]]
        /\ importType \in [Dirs -> ExportTypes]
        /\ dataDir \in [Dirs -> {"empty", "partial", "streaming"}] /\ files \subseteq Writes
    BY <1>1 DEF ExporterLabels, ExportTypes
  <2>3. kills \in 0 .. MaxKills /\ written \in 0 .. MaxWrites
    <3>1. kills = 0 /\ written = 0 /\ MaxKills \in Nat /\ MaxWrites \in Nat
      BY <1>1, MigrationBoundsAssumption
    <3> QED
      BY <3>1
  <2>i. PICK Items : Items = [by : Exporters, event : {"change"} \cup CutoverEvents,
                              write : 0 .. MaxWrites]
    OBVIOUS
  <2>4. queue \in [Dirs -> Seq(Items)]
    <3>1. <<>> \in Seq(Items)
      OBVIOUS
    <3> QED
      BY <1>1, <3>1
  <2>5. done \in [Dirs -> [Importers -> Nat]]
    BY <1>1
  <2>6. \A d \in Dirs, c \in Importers : done[d][c] <= Len(queue[d])
    <3>1. 0 <= Len(<<>>)
      OBVIOUS
    <3> QED
      BY <1>4, <3>1
  <2>7. db \in [Databases -> SUBSET Writes]
        /\ slot \in [Dirs -> [{"source", "target"} -> [exists : BOOLEAN, pending : SUBSET Writes]]]
        /\ app \in [at : Databases, up : BOOLEAN, dir : Dirs]
    BY <1>1, <1>2 DEF Databases, NoSlot
  <2>8. EndTypeOK
    BY <1>1, <1>5 DEF EndTypeOK
  <2> QED
    BY <1>3, <2>1, <2>2, <2>3, <2>4, <2>5, <2>6, <2>7, <2>8, <2>i DEF TypeOK
<1>7. ASSUME NEW d \in Dirs PROVE DirAt(d)
  <2>1. /\ msr[d] = {} /\ exportType[d] = "" /\ dataDir[d] = "empty" /\ queue[d] = <<>>
        /\ ~slot[d]["source"].exists /\ ~slot[d]["target"].exists
        /\ \A c \in Commands : pc[d][c] = "off"
        /\ \A c \in Importers : done[d][c] = 0
    BY <1>4
  <2>2. /\ pc[d][ES] = "off" /\ pc[d][ET] = "off" /\ pc[d][IS] = "off" /\ pc[d][SR] = "off"
        /\ \A c \in Importers : pc[d][c] = "off"
    BY <2>1, CommandNames
  <2>3. FlagsAt(d)
    <3>1. ~(d < 0)
      <4>1. d \in Nat
        BY DirsFacts
      <4> QED
        BY <4>1
    <3>2. ForwardFlags({}) /\ BackFlags({}) /\ OnwardFlags({}) /\ IterationFlags(d, {}, 0)
      BY <3>1 DEF ForwardFlags, BackFlags, OnwardFlags, IterationFlags
    <3> QED
      BY <1>1, <2>1, <3>2 DEF FlagsAt
  <2>4. ExportersAt(d)
    <3>1. /\ SourceExporterCutover("off", {}) /\ SourceExporterSlot("off", {}, FALSE, TRUE)
          /\ SourceExporterSnapshot("off", {}, "")
      BY DEF SourceExporterCutover, SourceExporterSlot, SourceExporterSnapshot, WithSlot
    <3>2. TargetExporterCutover("off", {}) /\ TargetExporterSlot("off", {}, FALSE, TRUE)
      BY DEF TargetExporterCutover, TargetExporterSlot, WithSlot, TargetDetected, TargetProcessed,
         TargetStreamed
    <3>3. slot[d]["source"].exists = FALSE /\ slot[d]["target"].exists = FALSE /\ Open = TRUE
      BY <1>1, <1>5 DEF NoSlot, Open
    <3> QED
      BY <2>1, <2>2, <3>1, <3>2, <3>3 DEF ExportersAt
  <2>5. ImportersAt(d)
    <3>1. \A c \in Importers : ImporterKnows("off", {}, DetectedBy(c), ProcessedBy(c))
      BY ONLY DEF ImporterKnows
    <3>2. NextIterationSetUp(d, "off", {}, latest)
      BY ONLY DEF NextIterationSetUp
    <3> QED
      BY <2>1, <2>2, <3>1, <3>2 DEF ImportersAt
  <2>6. DirectoryAt(d)
    <3>1. \A c \in Commands : pc[d][c] \in StepsOf(c)
      BY <2>1, OffIsAStep
    <3>2. StatusFile("off", {}, "empty", <<>>, Open) /\ EventsRequested(<<>>, {})
      BY DEF StatusFile, EventsRequested
    <3>3. "" # SNAPSHOT_AND_CHANGES /\ "" # CHANGES_ONLY
      BY DEF SNAPSHOT_AND_CHANGES, CHANGES_ONLY
    <3> QED
      BY <2>1, <2>2, <3>1, <3>2, <3>3 DEF DirectoryAt
  <2>7. FutureAt(d)
    BY ZenonT(40), <2>1 DEF FutureAt
  <2> QED
    BY <2>3, <2>4, <2>5, <2>6, <2>7 DEF DirAt
<1>8. Chains
  BY ZenonT(40), <1>3, <1>4, CommandNames DEF Chains, Alone
<1>9. Replica
  BY <1>2, <1>4, CommandNames DEF Replica
<1>10. ~Alive(IS) /\ ~Alive(ET)
  BY <1>3, <1>4, CommandNames DEF Alive
<1>11. Places
  <2>1. ~TargetStreamed(msr[latest])
    BY <1>1, <1>2, <1>4 DEF TargetStreamed
  <2> QED
    BY <1>4, <1>10, <2>1, CommandNames DEF Places
<1>12. Owners
  BY <1>4 DEF Owners
<1>13. AppPlace
  BY <1>1, <1>2, <1>4 DEF AppPlace
<1>14. Ending
  BY <1>1, <1>5 DEF Ending
<1> QED
  BY <1>6, <1>7, <1>8, <1>9, <1>11, <1>12, <1>13, <1>14 DEF Control

LEMMA StutterKept ==
  ASSUME Control, UNCHANGED vars
  PROVE  Control'
<1>1. UNCHANGED <<msrVars, procVars, dataVars, written, endVars>> /\ app' = app
  BY DEF vars, endVars
<1>2. msr' = msr /\ latest' = latest
  BY <1>1 DEF msrVars
<1>3. AppPlace' /\ app' \in [at : Databases, up : BOOLEAN, dir : Dirs]
  BY <1>1, <1>2 DEF Control, AppPlace, FbDir, TypeOK
<1> QED
  BY <1>1, <1>3, AppMoves

LEMMA NextKeepsControl ==
  ASSUME Control, "abort" \notin Perils, [Next]_vars
  PROVE  Control'
<1>1. ASSUME NEW d \in Dirs, NEW c \in Commands, CommandStep(d, c) PROVE Control'
  BY <1>1, ExporterKept, ImporterKept DEF CommandStep
<1>2. ASSUME NEW d \in Dirs, NEW c \in Commands, Timeout(d, c) PROVE Control'
  BY <1>2, ExporterKept, ImporterKept DEF Timeout
<1>3. ASSUME NEW d \in Dirs, NEW c \in Commands, Kill(d, c) PROVE Control'
  BY <1>3, KillKept
<1>4. ASSUME NEW c \in Commands, Run(c) PROVE Control'
  BY <1>4, RunKept
<1>5. CASE StartClean
  BY <1>5, StartCleanKept
<1>6. CASE AppWrites \/ StopApp \/ MoveApp
  BY <1>6, AppWritesKept, StopAppKept, MoveAppKept
<1>7. ASSUME NEW b \in BOOLEAN, InitiateCutoverToTarget(b) \/ InitiateCutoverToSource(b) PROVE Control'
  BY <1>7, CutoverToTargetKept, CutoverToSourceKept
<1>8. CASE InitiateCutoverToSourceReplica
  BY <1>8, CutoverToReplicaKept
<1>9. CASE EndMigration
  BY <1>9, EndMigrationKept
<1>10. CASE EndMigrationStep /\ UNCHANGED <<app, written>>
  BY <1>10, StopKept, CleanupSourceKept, CleanupTargetKept, CleanupDirKept, RemoveDirKept
     DEF EndMigrationStep
<1>11. CASE KillEndMigration
  BY <1>11, KillEndKept
<1>12. CASE UNCHANGED vars
  BY <1>12, StutterKept
<1> QED
  BY <1>1, <1>2, <1>3, <1>4, <1>5, <1>6, <1>7, <1>8, <1>9, <1>10, <1>11, <1>12 DEF Next

(***************************************************************************)
(* The inductive invariant of a live migration: what the records, the      *)
(* steps of the commands, the slots and the application say of each other, *)
(* in every iteration.  It holds whatever is killed and run again, as long *)
(* as 'end migration' is run on a settled migration.                       *)
(***************************************************************************)
THEOREM ControlInvariant ==
  ASSUME "abort" \notin Perils
  PROVE  Spec => []Control
<1>1. Init => Control
  BY InitControl
<1>2. Control /\ [Next]_vars => Control'
  BY NextKeepsControl
<1> QED
  BY <1>1, <1>2, PTL DEF Spec

(***************************************************************************)
(* The variables of a live migration keep their types, for any number of   *)
(* iterations, writes and kills: a record has only known fields, a command *)
(* is at one of its steps, and an importer has imported no more than its   *)
(* queue holds.                                                            *)
(***************************************************************************)
THEOREM LiveMigrationTypes ==
  ASSUME "abort" \notin Perils
  PROVE  Spec => []TypeOK
<1>1. Control => TypeOK
  BY DEF Control
<1> QED
  BY <1>1, ControlInvariant, PTL

LEMMA SlotsAreReleased ==
  ASSUME Control
  PROVE  SlotsReleased
<1>1. ASSUME NEW d \in Dirs
      PROVE  /\ GetCutoverStatus(d) = COMPLETED => ~slot[d]["source"].exists
             /\ COMPLETED \in {GetCutoverToSourceStatus(d), getCutoverToSourceReplicaStatus(d)}
                  => ~slot[d]["target"].exists
  <2>1. DirAt(d)
    BY DEF Control
  <2>2. "CutoverProcessedBySourceExporter" \in msr[d] => ~slot[d]["source"].exists
    BY <2>1 DEF DirAt, ExportersAt, SourceExporterSlot
  <2>3. TargetProcessed(msr[d]) => ~slot[d]["target"].exists
    BY <2>1 DEF DirAt, ExportersAt, TargetExporterSlot
  <2>4. COMPLETED \in {GetCutoverToSourceStatus(d), getCutoverToSourceReplicaStatus(d)}
          => TargetProcessed(msr[d])
    BY StatusFacts DEF TargetProcessed
  <2> QED
    BY <2>2, <2>3, <2>4, StatusFacts
<1>2. ASSUME ending.step = "ended", NEW d \in Dirs
      PROVE  ~slot[d]["source"].exists /\ ~slot[d]["target"].exists
  <2>1. KnownSlots /\ EndOrder /\ EndProgress /\ ending.dir = 0
    BY <1>2 DEF Control, Ending, Open, EndOrder
  <2>2. CASE d = 0
    BY <1>2, <2>1, <2>2 DEF EndProgress
  <2>3. CASE d # 0 /\ d <= latest
    <3>1. 0 < d
      BY <2>3, DirPositive
    <3>2. d \in ended
      BY <1>2, <2>1, <2>3, <3>1 DEF EndOrder
    <3> QED
      BY <2>1, <3>2 DEF KnownSlots
  <2>4. CASE d > latest
    BY <2>4 DEF Control, DirAt, FutureAt
  <2>5. d \in Nat /\ latest \in Nat
    BY LatestFacts, DirsFacts
  <2> QED
    BY <2>2, <2>3, <2>4, <2>5
<1> QED
  BY <1>1, <1>2 DEF SlotsReleased

(***************************************************************************)
(* No replication slot is left to fill the disk of its database: a cutover *)
(* that 'cutover status' reports as completed has dropped the slot of its  *)
(* direction, and 'end migration' of a settled migration leaves none, in   *)
(* any iteration and however often it is killed and run again.             *)
(***************************************************************************)
THEOREM LiveMigrationReleasesSlots ==
  ASSUME "abort" \notin Perils
  PROVE  Spec => []SlotsReleased
<1>1. Control => SlotsReleased
  BY SlotsAreReleased
<1> QED
  BY <1>1, ControlInvariant, PTL

LEMMA TargetHasSlot ==
  ASSUME Control
  PROVE  TargetIsCaptured
<1>1. SUFFICES ASSUME NEW d \in Dirs, app.up, app.at = "target", app.dir = d, Open, WayBack(msr[d])
               PROVE  slot[d]["target"].exists
  BY DEF TargetIsCaptured, Open, WayBack
<1>2. /\ "CutoverToSourceRequested" \notin msr[d] /\ "CutoverToSourceReplicaRequested" \notin msr[d]
      /\ TargetStreamed(msr[d])
  BY <1>1 DEF Control, AppPlace
<1>3. ~TargetDetected(msr[d])
  BY <1>2, RecordsConsistent DEF Consistent, BackFlags, OnwardFlags, TargetDetected
<1> QED
  BY <1>1, <1>2, <1>3 DEF Control, DirAt, ExportersAt, TargetExporterSlot

(***************************************************************************)
(* With fall-back or fall-forward enabled, the application never runs      *)
(* uncaptured on the target: from before 'cutover status' lets it move     *)
(* there until the cutover back is requested or the migration is ended,    *)
(* the slot of 'export data from target' is there.                         *)
(***************************************************************************)
THEOREM LiveMigrationCapturesTarget ==
  ASSUME "abort" \notin Perils
  PROVE  Spec => []TargetIsCaptured
<1>1. Control => TargetIsCaptured
  BY TargetHasSlot
<1> QED
  BY <1>1, ControlInvariant, PTL
=============================================================================
