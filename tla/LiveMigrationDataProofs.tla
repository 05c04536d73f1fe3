----------------------- MODULE LiveMigrationDataProofs -----------------------
(* Proof that a live migration loses no write and moves none twice.        *)
(*                                                                         *)
(* On top of the control invariant, the invariant below follows the writes *)
(* from the application's database through slot, snapshot and queue into   *)
(* the other databases.  It is proved action by action; most actions leave *)
(* every write where it is.                                                *)
EXTENDS LiveMigrationProofs

-----------------------------------------------------------------------------
(* The inductive invariant *)

(* Place j in the queue of directory d holds a change. *)
IsChange(d, j) == queue[d][j].event = "change"

(* Every write that is kept somewhere has been made. *)
Fresh ==
  /\ files \subseteq 1 .. written
  /\ \A x \in Databases : db[x] \subseteq 1 .. written
  /\ \A d \in Dirs, s \in {"source", "target"} : slot[d][s].pending \subseteq 1 .. written
  /\ \A d \in Dirs : \A j \in DOMAIN queue[d] : IsChange(d, j) => queue[d][j].write \in 1 .. written

(* A write is in one slot, in the snapshot, or in one place of one queue. *)
Pending ==
  /\ \A d \in Dirs, s \in {"source", "target"} : ~slot[d][s].exists => slot[d][s].pending = {}
  /\ \A d \in Dirs, s \in {"source", "target"} : \A w \in slot[d][s].pending :
       /\ \A e \in Dirs, t \in {"source", "target"} : w \in slot[e][t].pending => d = e /\ s = t
       /\ w \notin files
       /\ \A e \in Dirs : \A j \in DOMAIN queue[e] : IsChange(e, j) => queue[e][j].write # w

(* The same of a change: it is in no snapshot and in no other place. *)
Queued ==
  /\ \A d \in Dirs : \A i \in DOMAIN queue[d] : IsChange(d, i) =>
       /\ queue[d][i].write \notin files
       /\ \A e \in Dirs : \A j \in DOMAIN queue[e] :
            IsChange(e, j) /\ queue[e][j].write = queue[d][i].write => d = e /\ i = j

(* The application's database holds all of its writes. *)
Held == 1 .. written \subseteq db[app.at]

(* Below: while the migration is not being ended.                          *)

(* A cutover is requested when nothing is left to export for it. *)
NothingLeft ==
  \A d \in Dirs :
    /\ "CutoverToTargetRequested" \in msr[d] => slot[d]["source"].pending = {}
    /\ "CutoverToSourceRequested" \in msr[d] \/ "CutoverToSourceReplicaRequested" \in msr[d] =>
         slot[d]["target"].pending = {}

(* Behind a cutover event there are no changes of its direction. *)
EventsLast ==
  \A d \in Dirs : \A i, j \in DOMAIN queue[d] : i < j /\ IsChange(d, j) =>
    /\ queue[d][j].by = ES => queue[d][i].event = "change"
    /\ queue[d][j].by = ET => queue[d][i].event \in {"change", "cutover.target"}

(* What an importer has dealt with is in its database. *)
Applied ==
  \A d \in Dirs, c \in Importers : \A j \in DOMAIN queue[d] :
    IsChange(d, j) /\ j <= done[d][c] /\ (c = IS => queue[d][j].by = ET)
      => queue[d][j].write \in db[DestinationOf(c)]

(* An importer that streams has the snapshot, as has a target that was cut *)
(* over to.                                                                *)
Loaded ==
  /\ pc[0][IT] \in {"waitDebezium", "stream"} => files \subseteq db["target"]
  /\ pc[0][SR] \in {"waitDebezium", "stream"} => files \subseteq db["source-replica"]
  /\ "CutoverDetectedByTargetImporter" \in msr[0] => files \subseteq db["target"]
  /\ importType[0] # CHANGES_ONLY

(* When the application is at the source, the latest iteration is either   *)
(* on its way to the target or over and done with.                         *)
BackAtSource ==
  app.at = "source" =>
    /\ app.up /\ "CutoverToTargetRequested" \in msr[latest] => "CutoverToSourceRequested" \in msr[latest]
    /\ latest > 0 => "ExportDataFromSourceStarted" \in msr[latest]
    /\ \A d \in Dirs : "RestartDataMigrationSourceTargetNextIteration" \in msr[d] => d < latest

(* 'export data from source' has made its slot and not lost it. *)
Exports(d) == pc[d][ES] \in WithSlot \/ "ExportDataDone" \in msr[d]

(* Exporter c has put write w into the queue of directory d. *)
InQueue(d, c, w) == \E j \in DOMAIN queue[d] : IsChange(d, j) /\ queue[d][j].by = c /\ queue[d][j].write = w

(* What the target lacks is on its way to it, and an importer that has     *)
(* seen the cutover event lacks nothing; ...                               *)
ToTarget ==
  app.at = "source" /\ "CutoverToSourceRequested" \notin msr[latest] =>
    /\ Exports(latest) => \A w \in 1 .. written :
         \/ w \in db["target"] \/ w \in files \/ InQueue(latest, ES, w)
         \/ w \in slot[latest]["source"].pending
    /\ "CutoverDetectedByTargetImporter" \in msr[latest] => 1 .. written \subseteq db["target"]

(* ... so on the way back to the source, ... *)
ToSource ==
  app.at = "target" /\ "FallbackEnabled" \in msr[app.dir] =>
    /\ \A w \in 1 .. written :
         w \in db["source"] \/ InQueue(app.dir, ET, w) \/ w \in slot[app.dir]["target"].pending
    /\ "CutoverDetectedBySourceImporter" \in msr[app.dir] => 1 .. written \subseteq db["source"]

(* ... and on to the source replica, which gets what either exporter has   *)
(* put into the parent's queue.                                            *)
ToReplica ==
  /\ /\ app.at # "source-replica" /\ Exports(0)
     /\ \/ "FallForwardEnabled" \in msr[0]
        \/ latest = 0 /\ "CutoverToTargetRequested" \notin msr[0]
     => \A w \in 1 .. written :
          \/ w \in files \/ InQueue(0, ES, w) \/ InQueue(0, ET, w)
          \/ w \in slot[0]["source"].pending \/ w \in slot[0]["target"].pending
  /\ app.at = "target" /\ "CutoverDetectedBySourceReplicaImporter" \in msr[0] =>
       1 .. written \subseteq db["source-replica"]

Carried == NothingLeft /\ EventsLast /\ Applied /\ Loaded /\ BackAtSource /\ ToTarget /\ ToSource /\ ToReplica

Data == Fresh /\ Pending /\ Queued /\ Held /\ (Open => Carried)

-----------------------------------------------------------------------------
(* Steps that leave the writes where they are *)

(* The fields of a record that the invariant speaks of. *)
Watched == {"CutoverToTargetRequested", "CutoverToSourceRequested",
            "CutoverToSourceReplicaRequested", "FallbackEnabled", "FallForwardEnabled",
            "RestartDataMigrationSourceTargetNextIteration",
            "CutoverDetectedByTargetImporter", "CutoverDetectedBySourceImporter",
            "CutoverDetectedBySourceReplicaImporter"}

(* No data changes at all. *)
SameData == /\ files' = files /\ queue' = queue /\ done' = done /\ db' = db /\ slot' = slot
            /\ app' = app /\ written' = written /\ ending' = ending

(* The steps of an importer that has the snapshot. *)
Streaming == {"waitDebezium", "stream"}

(* A slot may come or go, but not what it holds. *)
SamePending ==
  \A e \in Dirs, s \in {"source", "target"} :
    /\ slot'[e][s].pending = slot[e][s].pending
    /\ ~slot'[e][s].exists => slot[e][s].pending = {}

(* The data but for empty slots. *)
Still == /\ files' = files /\ queue' = queue /\ done' = done /\ db' = db /\ SamePending
         /\ app' = app /\ written' = written /\ ending' = ending

(* A step that the invariant does not notice. *)
Quiet ==
  /\ Still /\ latest' = latest
  /\ \A e \in Dirs, f \in Watched : f \in msr'[e] <=> f \in msr[e]
  /\ \A e \in Dirs : "ExportDataFromSourceStarted" \in msr[e] => "ExportDataFromSourceStarted" \in msr'[e]
  /\ \A e \in Dirs : Exports(e)' => Exports(e)
  /\ \A c \in {IT, SR} : pc'[0][c] \in Streaming => pc[0][c] \in Streaming
  /\ importType'[0] = importType[0] \/ importType'[0] # CHANGES_ONLY

LEMMA SameSlots ==
  ASSUME Data, SameData
  PROVE  Still
BY DEF Data, Pending, SameData, SamePending, Still

(* Such a step keeps the invariant. *)
LEMMA QuietData ==
  ASSUME TypeOK, Data, Quiet
  PROVE  Data'
<1>1. \A e \in Dirs :
        /\ "CutoverToTargetRequested" \in msr'[e] <=> "CutoverToTargetRequested" \in msr[e]
        /\ "CutoverToSourceRequested" \in msr'[e] <=> "CutoverToSourceRequested" \in msr[e]
        /\ "CutoverToSourceReplicaRequested" \in msr'[e] <=> "CutoverToSourceReplicaRequested" \in msr[e]
        /\ "FallbackEnabled" \in msr'[e] <=> "FallbackEnabled" \in msr[e]
        /\ "FallForwardEnabled" \in msr'[e] <=> "FallForwardEnabled" \in msr[e]
        /\ "RestartDataMigrationSourceTargetNextIteration" \in msr'[e] <=>
             "RestartDataMigrationSourceTargetNextIteration" \in msr[e]
        /\ "CutoverDetectedByTargetImporter" \in msr'[e] <=> "CutoverDetectedByTargetImporter" \in msr[e]
        /\ "CutoverDetectedBySourceImporter" \in msr'[e] <=> "CutoverDetectedBySourceImporter" \in msr[e]
        /\ "CutoverDetectedBySourceReplicaImporter" \in msr'[e] <=>
             "CutoverDetectedBySourceReplicaImporter" \in msr[e]
  BY DEF Quiet, Watched
<1>2. /\ files' = files /\ queue' = queue /\ done' = done /\ db' = db
      /\ app' = app /\ written' = written /\ ending' = ending /\ latest' = latest
  BY DEF Quiet, Still
<1>2p. \A e \in Dirs, s \in {"source", "target"} :
         /\ slot'[e][s].pending = slot[e][s].pending
         /\ ~slot'[e][s].exists => slot[e][s].pending = {}
  BY DEF Quiet, Still, SamePending
<1>3. latest \in Dirs /\ app.dir \in Dirs /\ 0 \in Dirs
  BY DirsFacts DEF TypeOK, MSRTypeOK
<1>3p. /\ slot'[latest]["source"].pending = slot[latest]["source"].pending
       /\ slot'[app.dir]["target"].pending = slot[app.dir]["target"].pending
       /\ slot'[0]["source"].pending = slot[0]["source"].pending
       /\ slot'[0]["target"].pending = slot[0]["target"].pending
  BY <1>2p, <1>3
<1>4a. Fresh' /\ Queued' /\ Held'
  BY <1>2, <1>2p DEF Data, Fresh, Queued, Held, IsChange
<1>4b. Pending'
  BY <1>2, <1>2p DEF Data, Pending, IsChange
<1>4. Fresh' /\ Pending' /\ Queued' /\ Held'
  BY <1>4a, <1>4b
<1>5. ASSUME Open' PROVE Carried'
  <2>1. Carried
    BY <1>2, <1>5 DEF Data, Open
  <2>2. NothingLeft'
    BY <1>1, <1>2p, <2>1 DEF Carried, NothingLeft
  <2>3. EventsLast' /\ Applied'
    BY <1>2, <2>1 DEF Carried, EventsLast, Applied, IsChange
  <2>4. Loaded'
    <3>1. Loaded /\ ("CutoverDetectedByTargetImporter" \in msr'[0] <=> "CutoverDetectedByTargetImporter" \in msr[0])
      BY <1>1, <1>3, <2>1 DEF Carried
    <3>2. /\ pc'[0][IT] \in Streaming => pc[0][IT] \in Streaming
          /\ pc'[0][SR] \in Streaming => pc[0][SR] \in Streaming
          /\ importType'[0] = importType[0] \/ importType'[0] # CHANGES_ONLY
      BY DEF Quiet
    <3> QED
      BY <1>2, <3>1, <3>2 DEF Loaded, Streaming
  <2>5. BackAtSource'
    <3>1. "ExportDataFromSourceStarted" \in msr[latest] => "ExportDataFromSourceStarted" \in msr'[latest]
      BY <1>3 DEF Quiet
    <3> QED
      BY <1>1, <1>2, <1>3, <2>1, <3>1 DEF Carried, BackAtSource
  <2>6. \A e \in Dirs : Exports(e)' => Exports(e)
    BY DEF Quiet
  <2>7. \A e, c, w : InQueue(e, c, w)' <=> InQueue(e, c, w)
    BY <1>2 DEF InQueue, IsChange
  <2>8. ToTarget'
    <3>1. Exports(latest)' => Exports(latest)
      BY <1>2, <1>3, <2>6 DEF Exports
    <3>2. /\ "CutoverToSourceRequested" \in msr'[latest] <=> "CutoverToSourceRequested" \in msr[latest]
          /\ "CutoverDetectedByTargetImporter" \in msr'[latest] <=> "CutoverDetectedByTargetImporter" \in msr[latest]
      BY <1>1, <1>3
    <3> QED
      BY <1>2, <1>3p, <2>1, <2>7, <3>1, <3>2 DEF Carried, ToTarget, Exports
  <2>9. ToSource'
    <3>1. /\ "FallbackEnabled" \in msr'[app.dir] <=> "FallbackEnabled" \in msr[app.dir]
          /\ "CutoverDetectedBySourceImporter" \in msr'[app.dir] <=> "CutoverDetectedBySourceImporter" \in msr[app.dir]
      BY <1>1, <1>3
    <3> QED
      BY <1>2, <1>3p, <2>1, <2>7, <3>1 DEF Carried, ToSource
  <2>10. ToReplica'
    <3>1. /\ "FallForwardEnabled" \in msr'[0] <=> "FallForwardEnabled" \in msr[0]
          /\ "CutoverToTargetRequested" \in msr'[0] <=> "CutoverToTargetRequested" \in msr[0]
          /\ "CutoverDetectedBySourceReplicaImporter" \in msr'[0] <=>
               "CutoverDetectedBySourceReplicaImporter" \in msr[0]
          /\ Exports(0)' => Exports(0)
      BY <1>1, <1>3, <2>6
    <3> QED
      BY <1>2, <1>3p, <2>1, <2>7, <3>1 DEF Carried, ToReplica
  <2> QED
    BY <2>2, <2>3, <2>4, <2>5, <2>8, <2>9, <2>10 DEF Carried
<1> QED
  BY <1>4, <1>5 DEF Data

LEMMA QuietRecord ==
  ASSUME NEW d \in Dirs, NEW fs, MsrAt(d, fs), fs \cap Watched = {}
  PROVE  /\ \A e \in Dirs, f \in Watched : f \in msr'[e] <=> f \in msr[e]
         /\ \A e \in Dirs : "ExportDataFromSourceStarted" \in msr[e] =>
                              "ExportDataFromSourceStarted" \in msr'[e]
         /\ \A e \in Dirs : "ExportDataDone" \in msr'[e] /\ "ExportDataDone" \notin fs =>
                              "ExportDataDone" \in msr[e]
<1>1. ASSUME NEW e \in Dirs, e # d
      PROVE  msr'[e] = msr[e]
  BY <1>1 DEF MsrAt
<1>2. msr'[d] = msr[d] \cup fs
  BY DEF MsrAt
<1> QED
  BY <1>1, <1>2

(* A command moves on, and its record gets fields nobody asks for here. *)
LEMMA QuietMove ==
  ASSUME TypeOK, NEW d \in Dirs, NEW c \in Commands, NEW l, PcAt(d, c, l),
         NEW fs, MsrAt(d, fs), fs \cap Watched = {}, Still, latest' = latest,
         importType'[0] = importType[0] \/ importType'[0] # CHANGES_ONLY,
         "ExportDataDone" \in fs => Exports(d),
         c = ES /\ l \in WithSlot => Exports(d),
         d = 0 /\ c \in {IT, SR} /\ l \in Streaming => pc[d][c] \in Streaming
  PROVE  Quiet
<1>1. /\ \A e \in Dirs, f \in Watched : f \in msr'[e] <=> f \in msr[e]
      /\ \A e \in Dirs : "ExportDataFromSourceStarted" \in msr[e] =>
                           "ExportDataFromSourceStarted" \in msr'[e]
      /\ \A e \in Dirs : "ExportDataDone" \in msr'[e] /\ "ExportDataDone" \notin fs =>
                           "ExportDataDone" \in msr[e]
  BY QuietRecord
<1>2. \A e \in Dirs : Exports(e)' => Exports(e)
  <2>1. SUFFICES ASSUME NEW e \in Dirs, Exports(e)' PROVE Exports(e)
    OBVIOUS
  <2>2. CASE e # d
    BY <2>1, <2>2 DEF Exports, PcAt, MsrAt
  <2>3. CASE e = d
    <3>1. pc'[d][ES] \in WithSlot \/ "ExportDataDone" \in msr'[d]
      BY <2>1, <2>3 DEF Exports
    <3>2. CASE "ExportDataDone" \in msr'[d]
      BY <1>1, <2>3, <3>2 DEF Exports
    <3>3. CASE pc'[d][ES] \in WithSlot /\ c = ES
      BY <2>3, <3>3 DEF PcAt
    <3>4. CASE pc'[d][ES] \in WithSlot /\ c # ES
      BY <2>3, <3>4, CommandNames DEF PcAt, Exports
    <3> QED
      BY <3>1, <3>2, <3>3, <3>4
  <2> QED
    BY <2>2, <2>3
<1>3. \A k \in {IT, SR} : pc'[0][k] \in Streaming => pc[0][k] \in Streaming
  BY DirsFacts, CommandNames DEF PcAt
<1> QED
  BY <1>1, <1>2, <1>3 DEF Quiet

(* Commands start or stop. *)
LEMMA QuietStart ==
  ASSUME TypeOK, \A e \in Dirs, k \in Commands : pc'[e][k] \in {pc[e][k], "off", "init"},
         msr' = msr, SameData, Data, latest' = latest, importType' = importType
  PROVE  Quiet
<1>1. \A e \in Dirs : Exports(e)' => Exports(e)
  BY CommandNames DEF Exports, WithSlot
<1>2. \A k \in {IT, SR} : pc'[0][k] \in Streaming => pc[0][k] \in Streaming
  BY DirsFacts, CommandNames DEF Streaming
<1> QED
  BY <1>1, <1>2, SameSlots DEF Quiet

LEMMA NoFieldsAt ==
  ASSUME NEW d \in Dirs, msr' = msr
  PROVE  MsrAt(d, {})
BY DEF MsrAt

(* A command that turns into another one. *)
LEMMA ExecStarts ==
  ASSUME TypeOK, NEW d \in Dirs, NEW c \in Commands, NEW next \in Commands, Exec(d, c, next)
  PROVE  \A e \in Dirs, k \in Commands : pc'[e][k] \in {pc[e][k], "off", "init"}
<1>1. PICK g : g = [pc EXCEPT ![d][c] = "off"]
  OBVIOUS
<1>2. /\ DOMAIN g = Dirs /\ \A e \in Dirs : DOMAIN g[e] = Commands
      /\ \A e \in Dirs, k \in Commands : g[e][k] \in {pc[e][k], "off"}
  BY <1>1 DEF TypeOK
<1>3. pc' = g \/ \E r : pc' = [g EXCEPT ![r][next] = "init"]
  BY <1>1 DEF Exec
<1>4. ASSUME NEW r, pc' = [g EXCEPT ![r][next] = "init"], NEW e \in Dirs, NEW k \in Commands
      PROVE  pc'[e][k] \in {g[e][k], "init"}
  BY <1>2, <1>4
<1> QED
  BY <1>2, <1>3, <1>4

-----------------------------------------------------------------------------
(* Exporters *)

(* The fields an exporter sets are none of those. *)
LEMMA ExporterFieldsQuiet ==
  ASSUME NEW d \in Dirs, NEW c \in Exporters
  PROVE  /\ {DetectedFlag(Role(d, c))} \cap Watched = {}
         /\ {ProcessedFlag(Role(d, c)), "ExportDataDone"} \cap Watched = {}
         /\ {StartedFlag(d, c)} \cap Watched = {}
         /\ DetectedFlag(Role(d, c)) # "ExportDataDone" /\ StartedFlag(d, c) # "ExportDataDone"
<1>1. Role(d, c) \in {"source_db_exporter", "target_db_exporter_fb", "target_db_exporter_ff"}
  BY RoleFacts, CommandNames
<1>2. /\ StartedFlag(d, c) \in {"ExportDataFromSourceStarted", "ExportFromTargetFallBackStarted",
                                "ExportFromTargetFallForwardStarted"}
      /\ DetectedFlag(Role(d, c)) \in {"CutoverDetectedBySourceExporter",
                                       "CutoverDetectedByTargetFBExporter",
                                       "CutoverDetectedByTargetFFExporter"}
      /\ ProcessedFlag(Role(d, c)) \in {"CutoverProcessedBySourceExporter",
                                        "CutoverToSourceProcessedByTargetExporter",
                                        "CutoverToSourceReplicaProcessedByTargetExporter"}
  BY <1>1, ExporterFlagFacts DEF StartedFlag
<1> QED
  BY <1>2 DEF Watched

(* A step of an exporter between which the data stays. *)
LEMMA QuietSlotStep ==
  ASSUME Control, Data, NEW d \in Dirs, NEW c \in Exporters, NEW l, Goto(d, c, l),
         NEW fs, MsrAt(d, fs), fs \cap Watched = {}, Still, latest' = latest,
         importType' = importType, "ExportDataDone" \in fs => Exports(d),
         l \in WithSlot /\ c = ES => pc[d][ES] \in WithSlot \/ "ExportDataDone" \in msr[d]
  PROVE  Data'
<1>0. c \in {ES, ET} /\ c \in Commands
  BY CommandNames
<1>1a. TypeOK
  BY DEF Control
<1>1b. c # IT /\ c # SR
  BY <1>0 DEF ES, ET, IT, SR
<1>1. TypeOK /\ c \in Commands /\ c \notin {IT, SR}
  BY <1>0, <1>1a, <1>1b
<1>2. PcAt(d, c, l)
  BY <1>1, GotoAt
<1>3. c = ES /\ l \in WithSlot => Exports(d)
  BY DEF Exports
<1>4. Quiet
  BY <1>1, <1>2, <1>3, QuietMove
<1> QED
  BY <1>1, <1>4, QuietData

LEMMA QuietExporterStep ==
  ASSUME Control, Data, NEW d \in Dirs, NEW c \in Exporters, NEW l, Goto(d, c, l),
         NEW fs, MsrAt(d, fs), fs \cap Watched = {}, SameData, latest' = latest,
         importType' = importType, "ExportDataDone" \in fs => Exports(d),
         l \in WithSlot /\ c = ES => pc[d][ES] \in WithSlot \/ "ExportDataDone" \in msr[d]
  PROVE  Data'
BY QuietSlotStep, SameSlots

LEMMA QuietStartStep ==
  ASSUME Control, Data, \A e \in Dirs, k \in Commands : pc'[e][k] \in {pc[e][k], "off", "init"},
         msr' = msr, SameData, latest' = latest, importType' = importType
  PROVE  Data'
<1>1. TypeOK
  BY DEF Control
<1> QED
  BY <1>1, QuietStart, QuietData

LEMMA ExitStarts ==
  ASSUME TypeOK, NEW d \in Dirs, NEW c \in Commands, Goto(d, c, "off")
  PROVE  \A e \in Dirs, k \in Commands : pc'[e][k] \in {pc[e][k], "off", "init"}
<1>1. PcAt(d, c, "off")
  BY GotoAt
<1> QED
  BY <1>1 DEF PcAt

(* The steps of an exporter that move no write: at its start, ... *)
LEMMA ExportInitData ==
  ASSUME Control, Data, NEW d \in Dirs, NEW c \in Exporters, ExportInit(d, c), UNCHANGED userVars
  PROVE  Data'
<1>1. /\ SameData /\ latest' = latest /\ importType' = importType /\ msr' = msr /\ c \in Commands /\ TypeOK
  BY CommandNames DEF ExportInit, SameData, userVars, endVars, dataVars, msrVars, Control
<1>2. PICK l : Goto(d, c, l) /\ (l \in {"off", "further"} \/ l = FirstStep(d, c))
  BY DEF ExportInit, ErrExit, Exit
<1>3. l \in WithSlot /\ c = ES => "ExportDataDone" \in msr[d]
  BY <1>2 DEF FirstStep, WithSlot
<1>4. MsrAt(d, {})
  BY <1>1, NoFieldsAt
<1> QED
  BY <1>1, <1>2, <1>3, <1>4, QuietExporterStep

(* ... between its slot's creation and its removal, ... *)
LEMMA ExporterStepsData ==
  ASSUME Control, Data, NEW d \in Dirs, NEW c \in Exporters, UNCHANGED userVars,
         \/ SaveSlotName(d, c) \/ ExportSnapshot(d, c) \/ SetDataIsExported(d, c)
         \/ StartDebezium(d, c) \/ DebeziumConnects(d, c) \/ HandleSnapshotComplete(d, c)
         \/ UpdateCutoverDetectedFlag(d, c) \/ MarkProcessedByExporter(d, c)
  PROVE  Data'
<1>1. TypeOK /\ c \in Commands /\ (c # ES => c = ET)
  BY CommandNames DEF Control
<1>2. CASE SaveSlotName(d, c)
  <2>1. PICK fs : Set(d, fs) /\ fs \subseteq {"PGReplicationSlotName", "YBReplicationSlotName"}
    BY <1>2 DEF SaveSlotName
  <2>2. MsrAt(d, fs) /\ fs \cap Watched = {} /\ "ExportDataDone" \notin fs
    BY <1>1, <2>1, SetAt DEF Watched
  <2>3. SameData /\ latest' = latest /\ importType' = importType /\ pc[d][c] \in WithSlot
    BY <1>2 DEF SaveSlotName, SameData, userVars, endVars, dataVars, WithSlot
  <2>4. PICK l : Goto(d, c, l)
    BY <1>2 DEF SaveSlotName
  <2> QED
    BY <2>2, <2>3, <2>4, QuietExporterStep
<1>3. CASE ExportSnapshot(d, c)
  <2>1. SameData /\ latest' = latest /\ importType' = importType /\ pc[d][c] \in WithSlot /\ msr' = msr
    BY <1>3 DEF ExportSnapshot, SameData, userVars, endVars, msrVars, WithSlot
  <2>2. Goto(d, c, "exported") /\ MsrAt(d, {})
    BY <1>3, <2>1, NoFieldsAt DEF ExportSnapshot
  <2> QED
    BY <2>1, <2>2, QuietExporterStep
<1>4. CASE SetDataIsExported(d, c)
  <2>1. SameData /\ latest' = latest /\ importType' = importType /\ pc[d][c] = "exported"
    BY <1>4 DEF SetDataIsExported, SameData, userVars, endVars, dataVars
  <2>2. c = ES
    <3>1. pc[d][c] \in StepsOf(c)
      BY <1>1 DEF Control, DirAt, DirectoryAt
    <3>2. "exported" \notin StepsOf(ET)
      BY StepsFacts
    <3> QED
      BY <1>1, <2>1, <3>1, <3>2
  <2>3. Exports(d) /\ pc[d][ES] \in WithSlot
    BY <2>1, <2>2 DEF Exports, WithSlot
  <2>4. Goto(d, c, "debezium") /\ MsrAt(d, {"ExportDataDone"}) /\ {"ExportDataDone"} \cap Watched = {}
    BY <1>1, <1>4, SetAt DEF SetDataIsExported, Watched
  <2> QED
    BY <2>1, <2>3, <2>4, QuietExporterStep
<1>5. CASE StartDebezium(d, c)
  <2>1. SameData /\ latest' = latest /\ importType' = importType /\ pc[d][c] \in WithSlot
    BY <1>5 DEF StartDebezium, SameData, userVars, endVars, WithSlot
  <2>2. PICK fs : Set(d, fs) /\ fs \subseteq {"ExportDataSourceDebeziumStarted", "ExportDataTargetDebeziumStarted"}
    BY <1>5 DEF StartDebezium
  <2>3. MsrAt(d, fs) /\ fs \cap Watched = {} /\ "ExportDataDone" \notin fs
    BY <1>1, <2>2, SetAt DEF Watched
  <2>4. Goto(d, c, "boot")
    BY <1>5 DEF StartDebezium
  <2> QED
    BY <2>1, <2>3, <2>4, QuietExporterStep
<1>6. CASE DebeziumConnects(d, c)
  <2>1. SameData /\ latest' = latest /\ importType' = importType /\ pc[d][c] \in WithSlot /\ msr' = msr
    BY <1>6 DEF DebeziumConnects, SameData, userVars, endVars, msrVars, WithSlot
  <2>2. Goto(d, c, "reached") /\ MsrAt(d, {})
    BY <1>6, <2>1, NoFieldsAt DEF DebeziumConnects
  <2> QED
    BY <2>1, <2>2, QuietExporterStep
<1>7. CASE HandleSnapshotComplete(d, c)
  <2>1. SameData /\ latest' = latest /\ importType' = importType /\ pc[d][c] \in WithSlot
    BY <1>7 DEF HandleSnapshotComplete, SameData, userVars, endVars, dataVars, WithSlot
  <2>2. MsrAt(d, {StartedFlag(d, c)}) /\ {StartedFlag(d, c)} \cap Watched = {}
        /\ StartedFlag(d, c) # "ExportDataDone"
    BY <1>1, <1>7, SetAt, ExporterFieldsQuiet DEF HandleSnapshotComplete
  <2>3. PICK l : Goto(d, c, l)
    BY <1>7 DEF HandleSnapshotComplete
  <2> QED
    BY <2>1, <2>2, <2>3, QuietExporterStep
<1>8. CASE UpdateCutoverDetectedFlag(d, c)
  <2>1. SameData /\ latest' = latest /\ importType' = importType /\ pc[d][c] \in WithSlot
    BY <1>8 DEF UpdateCutoverDetectedFlag, SameData, userVars, endVars, dataVars, WithSlot
  <2>2. MsrAt(d, {DetectedFlag(Role(d, c))}) /\ {DetectedFlag(Role(d, c))} \cap Watched = {}
        /\ DetectedFlag(Role(d, c)) # "ExportDataDone"
    BY <1>1, <1>8, SetAt, ExporterFieldsQuiet DEF UpdateCutoverDetectedFlag
  <2>3. Goto(d, c, "drop")
    BY <1>8 DEF UpdateCutoverDetectedFlag
  <2> QED
    BY <2>1, <2>2, <2>3, QuietExporterStep
<1>9. CASE MarkProcessedByExporter(d, c)
  <2>1. SameData /\ latest' = latest /\ importType' = importType /\ pc[d][c] = "mark"
    BY <1>9 DEF MarkProcessedByExporter, SameData, userVars, endVars, dataVars
  <2>2. "ExportDataDone" \in msr[d]
    <3>1. CASE c = ES
      <4>1. "CutoverDetectedBySourceExporter" \in msr[d] /\ Consistent(d, msr[d], latest)
        BY <2>1, <3>1, SourceExporterThere DEF SourceExporterCutover
      <4>2. "CutoverToTargetRequested" \in msr[d]
        BY <4>1 DEF Consistent, ForwardFlags
      <4> QED
        BY <4>1, <4>2, ConsistentFacts
    <3>2. CASE c = ET
      BY <2>1, <3>2, TargetExporterThere
    <3> QED
      BY <1>1, <3>1, <3>2
  <2>3. Exports(d)
    BY <2>2 DEF Exports
  <2>4. /\ MsrAt(d, {ProcessedFlag(Role(d, c)), "ExportDataDone"})
        /\ {ProcessedFlag(Role(d, c)), "ExportDataDone"} \cap Watched = {}
    BY <1>1, <1>9, SetAt, ExporterFieldsQuiet DEF MarkProcessedByExporter
  <2>5. Goto(d, c, "further")
    BY <1>9 DEF MarkProcessedByExporter
  <2> QED
    BY <2>1, <2>2, <2>3, <2>4, <2>5, QuietExporterStep
<1> QED
  BY <1>2, <1>3, <1>4, <1>5, <1>6, <1>7, <1>8, <1>9

(* ... and at its end. *)
LEMMA ExporterEndsData ==
  ASSUME Control, Data, NEW d \in Dirs, NEW c \in Exporters, UNCHANGED userVars,
         StartFurtherAfterExport(d, c) \/ NextIterationReady(d, c) \/ NextIterationTimeout(d, c)
  PROVE  Data'
<1>1. SameData /\ latest' = latest /\ importType' = importType /\ msr' = msr /\ TypeOK /\ c \in Commands
  BY CommandNames DEF StartFurtherAfterExport, NextIterationReady, NextIterationTimeout, SameData,
     userVars, endVars, dataVars, msrVars, Control
<1>2. CASE Goto(d, c, "waitNext")
  BY <1>1, <1>2, NoFieldsAt, QuietExporterStep DEF WithSlot
<1>3. CASE Goto(d, c, "off")
  BY <1>1, <1>3, ExitStarts, QuietStartStep
<1>4. CASE Exec(d, c, IS) \/ Exec(d, c, IT)
  BY <1>1, <1>4, CommandNames, ExecStarts, QuietStartStep
<1>5. CASE StartFurtherAfterExport(d, c)
  <2>1. Goto(d, c, "off") \/ Goto(d, c, "waitNext") \/ Exec(d, c, "import data to source")
    BY <1>5 DEF StartFurtherAfterExport, Exit
  <2>2. IS = "import data to source"
    BY DEF IS
  <2> QED
    BY <1>2, <1>3, <1>4, <2>1, <2>2
<1>6. CASE NextIterationReady(d, c)
  <2>1. Exec(d, c, "import data to target") /\ IT = "import data to target"
    BY <1>6 DEF NextIterationReady, IT
  <2> QED
    BY <1>4, <2>1
<1>7. CASE NextIterationTimeout(d, c)
  BY <1>3, <1>7 DEF NextIterationTimeout, ErrExit
<1> QED
  BY <1>5, <1>6, <1>7

-----------------------------------------------------------------------------
(* Importers *)

(* A step of an importer that leaves the data as it is. *)
LEMMA QuietImporterStep ==
  ASSUME Control, Data, NEW d \in Dirs, NEW c \in Importers, NEW l, Goto(d, c, l),
         NEW fs, MsrAt(d, fs), fs \cap Watched = {}, "ExportDataDone" \notin fs, SameData,
         latest' = latest, importType'[0] = importType[0] \/ importType'[0] # CHANGES_ONLY,
         d = 0 /\ c \in {IT, SR} /\ l \in Streaming => pc[d][c] \in Streaming
  PROVE  Data'
<1>1. TypeOK
  BY DEF Control
<1>2. c \in Commands /\ c \in {IT, IS, SR}
  BY CommandNames
<1>3. c # ES
  BY <1>2 DEF ES, IT, IS, SR
<1>4. PcAt(d, c, l)
  BY <1>1, <1>2, GotoAt
<1>5. Quiet
  BY <1>1, <1>2, <1>3, <1>4, QuietMove, SameSlots
<1> QED
  BY <1>1, <1>5, QuietData

(* The steps of an importer that move no write: at its start, ... *)
LEMMA ImportInitData ==
  ASSUME Control, Data, NEW d \in Dirs, NEW c \in Importers, ImportInit(d, c), UNCHANGED userVars
  PROVE  Data'
<1>1. SameData /\ latest' = latest /\ msr' = msr
  BY DEF ImportInit, SameData, userVars, endVars, dataVars, msrVars
<1>2. TypeOK /\ exportType[0] # CHANGES_ONLY
  BY DirsFacts DEF Control, DirAt, DirectoryAt
<1>3. importType'[0] = importType[0] \/ importType'[0] # CHANGES_ONLY
  <2>1. importType' = importType \/ importType' = [importType EXCEPT ![d] = exportType[d]]
    BY DEF ImportInit
  <2>2. importType \in [Dirs -> ExportTypes] /\ 0 \in Dirs
    BY <1>2, DirsFacts DEF TypeOK
  <2>3. CASE d = 0
    BY <1>2, <2>1, <2>2, <2>3
  <2>4. CASE d # 0
    BY <2>1, <2>2, <2>4
  <2> QED
    BY <2>3, <2>4
<1>4. PICK l : Goto(d, c, l) /\ l \in {"off", "waitExport", "enable"}
  BY DEF ImportInit, ErrExit
<1>5. MsrAt(d, {}) /\ l \notin Streaming
  BY <1>1, <1>4, NoFieldsAt DEF Streaming
<1> QED
  BY <1>1, <1>3, <1>4, <1>5, QuietImporterStep

(* ... waiting for the exporter, ... *)
LEMMA ImporterMovesData ==
  ASSUME Control, Data, NEW d \in Dirs, NEW c \in Importers, UNCHANGED userVars,
         \/ ExportDataIsDone(d, c) \/ ImportCheckCutover(d, c) \/ DebeziumIsStarted(d, c)
         \/ ExporterHasProcessed(d, c) \/ ExporterTimeout(d, c)
  PROVE  Data'
<1>1. SameData /\ latest' = latest /\ importType' = importType /\ msr' = msr
  BY DEF ExportDataIsDone, ImportCheckCutover, DebeziumIsStarted, ExporterHasProcessed, ExporterTimeout,
     SameData, userVars, endVars, dataVars, msrVars
<1>2. MsrAt(d, {})
  BY <1>1, NoFieldsAt
<1>3. ASSUME NEW l, Goto(d, c, l), l \in Streaming => pc[d][c] \in Streaming
      PROVE  Data'
  BY <1>1, <1>2, <1>3, QuietImporterStep
<1>4. CASE ExportDataIsDone(d, c)
  <2>1. Goto(d, c, "check") /\ "check" \notin Streaming
    BY <1>4 DEF ExportDataIsDone, Streaming
  <2> QED
    BY <1>3, <2>1
<1>5. CASE ImportCheckCutover(d, c)
  <2>1. PICK l : Goto(d, c, l) /\ l \in {"off", "further", "import"}
    BY <1>5 DEF ImportCheckCutover, Exit
  <2>2. l \notin Streaming
    BY <2>1 DEF Streaming
  <2> QED
    BY <1>3, <2>1, <2>2
<1>6. CASE DebeziumIsStarted(d, c)
  <2>1. pc[d][c] = "waitDebezium" /\ \E l : Goto(d, c, l)
    BY <1>6 DEF DebeziumIsStarted
  <2>2. pc[d][c] \in Streaming
    BY <2>1 DEF Streaming
  <2> QED
    BY <1>3, <2>1, <2>2
<1>7. CASE ExporterHasProcessed(d, c)
  <2>1. Goto(d, c, "further") /\ "further" \notin Streaming
    BY <1>7 DEF ExporterHasProcessed, Streaming
  <2> QED
    BY <1>3, <2>1
<1>8. CASE ExporterTimeout(d, c)
  <2>1. Goto(d, c, "off") /\ "off" \notin Streaming
    BY <1>8 DEF ExporterTimeout, ErrExit, Streaming
  <2> QED
    BY <1>3, <2>1
<1> QED
  BY <1>4, <1>5, <1>6, <1>7, <1>8

(* ... past the checks, ... *)
LEMMA ImportStartedData ==
  ASSUME Control, Data, NEW d \in Dirs, NEW c \in Importers, ImportStarted(d, c), UNCHANGED userVars
  PROVE  Data'
<1>1. SameData /\ latest' = latest /\ importType' = importType /\ pc[d][c] = "import"
  BY DEF ImportStarted, SameData, userVars, endVars, dataVars
<1>2. TypeOK /\ Open
  BY <1>1, ImporterThere DEF Control
<1>3. PICK fs : Set(d, fs) /\ fs \subseteq {"ImportDataToTargetStarted", "ImportDataToSourceStarted"}
  BY DEF ImportStarted
<1>4. MsrAt(d, fs) /\ fs \cap Watched = {} /\ "ExportDataDone" \notin fs
  BY <1>2, <1>3, SetAt DEF Watched
<1>5. importType[0] # CHANGES_ONLY
  BY <1>2 DEF Data, Carried, Loaded
<1>6. CASE streamsChanges(d, c)
  <2>1. Goto(d, c, IF importSnapshotRequired(d, c) THEN "snapshot" ELSE "waitDebezium")
    BY <1>6 DEF ImportStarted
  <2>2. d = 0 /\ c = IT => importSnapshotRequired(d, c)
    BY <1>5, <1>6 DEF streamsChanges, importSnapshotRequired, IT
  <2>3. c = SR => importSnapshotRequired(d, c)
    BY DEF importSnapshotRequired, SR
  <2>4. CASE importSnapshotRequired(d, c)
    <3>1. Goto(d, c, "snapshot") /\ "snapshot" \notin Streaming
      BY <2>1, <2>4 DEF Streaming
    <3> QED
      BY <1>1, <1>4, <3>1, QuietImporterStep
  <2>5. CASE ~importSnapshotRequired(d, c)
    <3>1. Goto(d, c, "waitDebezium") /\ ~(d = 0 /\ c \in {IT, SR})
      BY <2>1, <2>2, <2>3, <2>5
    <3> QED
      BY <1>1, <1>4, <3>1, QuietImporterStep
  <2> QED
    BY <2>4, <2>5
<1>7. CASE ~streamsChanges(d, c)
  <2>1. Goto(d, c, "off") /\ "off" \notin Streaming
    BY <1>7 DEF ImportStarted, ErrExit, Streaming
  <2> QED
    BY <1>1, <1>4, <2>1, QuietImporterStep
<1> QED
  BY <1>6, <1>7

(* ... recording that it is through with a cutover, ... *)
LEMMA ImporterMarksData ==
  ASSUME Control, Data, NEW d \in Dirs, NEW c \in Importers, UNCHANGED userVars,
         MarkProcessedByImporter(d, c) \/ SetNextIterationInitialized(d, c)
  PROVE  Data'
<1>1. SameData /\ latest' = latest /\ importType' = importType
  BY DEF MarkProcessedByImporter, SetNextIterationInitialized, SameData, userVars, endVars, dataVars
<1>2. TypeOK /\ c \in {IT, IS, SR}
  BY CommandNames DEF Control
<1>3. CASE MarkProcessedByImporter(d, c)
  <2>1. Goto(d, c, "waitExporter") /\ "waitExporter" \notin Streaming
    BY <1>3 DEF MarkProcessedByImporter, Streaming
  <2>2. ProcessedFlag(Role(d, c)) \in {"CutoverProcessedByTargetImporter",
          "CutoverToSourceProcessedBySourceImporter", "CutoverToSourceReplicaProcessedBySRImporter"}
    BY <1>2, ImporterFlagFacts
  <2>3. MsrAt(d, {ProcessedFlag(Role(d, c))})
    BY <1>2, <1>3, SetAt DEF MarkProcessedByImporter
  <2>4. {ProcessedFlag(Role(d, c))} \cap Watched = {} /\ ProcessedFlag(Role(d, c)) # "ExportDataDone"
    BY <2>2 DEF Watched
  <2> QED
    BY <1>1, <2>1, <2>3, <2>4, QuietImporterStep
<1>4. CASE SetNextIterationInitialized(d, c)
  <2>1. Goto(d, c, "execNext") /\ "execNext" \notin Streaming
    BY <1>4 DEF SetNextIterationInitialized, Streaming
  <2>2. MsrAt(d, {"NextIterationInitialized"}) /\ {"NextIterationInitialized"} \cap Watched = {}
    BY <1>2, <1>4, SetAt DEF SetNextIterationInitialized, Watched
  <2> QED
    BY <1>1, <2>1, <2>2, QuietImporterStep
<1> QED
  BY <1>3, <1>4

(* ... turning into the next command, ... *)
LEMMA ImporterEndsData ==
  ASSUME Control, Data, NEW d \in Dirs, NEW c \in Importers, UNCHANGED userVars,
         StartFurtherAfterImport(d, c) \/ StartNextIteration(d, c)
  PROVE  Data'
<1>1. SameData /\ latest' = latest /\ importType' = importType /\ msr' = msr /\ TypeOK /\ c \in Commands
  BY CommandNames DEF StartFurtherAfterImport, StartNextIteration, SameData,
     userVars, endVars, dataVars, msrVars, Control
<1>2. CASE Goto(d, c, "setLatest")
  <2>1. MsrAt(d, {}) /\ "setLatest" \notin Streaming
    BY <1>1, NoFieldsAt DEF Streaming
  <2> QED
    BY <1>1, <1>2, <2>1, QuietImporterStep
<1>3. CASE Goto(d, c, "off")
  BY <1>1, <1>3, ExitStarts, QuietStartStep
<1>4. CASE Exec(d, c, ET) \/ Exec(d, c, ES)
  BY <1>1, <1>4, CommandNames, ExecStarts, QuietStartStep
<1>5. CASE StartFurtherAfterImport(d, c)
  <2>1. Goto(d, c, "off") \/ Goto(d, c, "setLatest") \/ Exec(d, c, "export data from target")
    BY <1>5 DEF StartFurtherAfterImport, Exit, ErrExit
  <2>2. ET = "export data from target"
    BY DEF ET
  <2> QED
    BY <1>2, <1>3, <1>4, <2>1, <2>2
<1>6. CASE StartNextIteration(d, c)
  <2>1. Exec(d, c, "export data from source") /\ ES = "export data from source"
    BY <1>6 DEF StartNextIteration, ES
  <2> QED
    BY <1>4, <2>1
<1> QED
  BY <1>5, <1>6

(* ... and setting up the next iteration. *)
LEMMA SetUpRecordData ==
  ASSUME Control, Data, NEW d \in Dirs, NEW c \in Importers, SetUpNextRecord(d, c), UNCHANGED userVars
  PROVE  Data'
<1>1. SameData /\ latest' = latest /\ importType' = importType /\ pc[d][c] = "setRecord"
  BY DEF SetUpNextRecord, SameData, userVars, endVars, dataVars
<1>2. TypeOK /\ c \in Commands /\ c \in {IT, IS, SR}
  BY CommandNames DEF Control
<1>3. c = IS
  <2>1. pc[d][c] \in StepsOf(c)
    BY <1>2 DEF Control, DirAt, DirectoryAt
  <2> QED
    BY <1>1, <1>2, <2>1, StepsFacts
<1>4. d + 1 \in Dirs
  <2>1. d < MaxIteration /\ d \in Nat
    BY <1>1, <1>3, SettingUp, DirsFacts
  <2> QED
    BY <2>1, MaxIterationAssumption DEF Dirs
<1>5. PICK n \in Dirs : n = d + 1 /\ MsrAt(n, {"ParentExportDir"})
  BY <1>2, <1>4, SetAt DEF SetUpNextRecord, NextIterationNo
<1>6. {"ParentExportDir"} \cap Watched = {} /\ "setInitialized" \notin WithSlot \cup Streaming
  BY DEF Watched, WithSlot, Streaming
<1>7. PcAt(d, c, "setInitialized") /\ c # ES /\ IT # IS /\ SR # IS
  BY <1>2, <1>3, GotoAt DEF SetUpNextRecord, ES, IT, IS, SR
<1>8. /\ \A e \in Dirs, f \in Watched : f \in msr'[e] <=> f \in msr[e]
      /\ \A e \in Dirs : "ExportDataFromSourceStarted" \in msr[e] =>
                           "ExportDataFromSourceStarted" \in msr'[e]
      /\ \A e \in Dirs : "ExportDataDone" \in msr'[e] => "ExportDataDone" \in msr[e]
  BY <1>5, <1>6, QuietRecord
<1>9. \A e \in Dirs : pc'[e][ES] = pc[e][ES] /\ pc'[e][IT] = pc[e][IT] /\ pc'[e][SR] = pc[e][SR]
  BY <1>3, <1>7, CommandNames DEF PcAt
<1>10. Quiet
  BY <1>1, <1>8, <1>9, DirsFacts, SameSlots DEF Quiet, Exports
<1> QED
  BY <1>2, <1>10, QuietData

-----------------------------------------------------------------------------
(* Commands that the user runs, and that die *)

LEMMA RunData ==
  ASSUME Control, Data, NEW c \in Commands, Run(c)
  PROVE  Data'
<1>1. SameData /\ latest' = latest /\ importType' = importType /\ msr' = msr /\ TypeOK
  BY DEF Run, SameData, userVars, endVars, dataVars, msrVars, Control
<1>2. PICK r : pc' = [pc EXCEPT ![r][c] = "init"]
  BY DEF Run
<1>3. \A e \in Dirs, k \in Commands : pc'[e][k] \in {pc[e][k], "off", "init"}
  BY <1>1, <1>2 DEF TypeOK
<1> QED
  BY <1>1, <1>3, QuietStartStep

LEMMA KillData ==
  ASSUME Control, Data, NEW d \in Dirs, NEW c \in Commands, Kill(d, c)
  PROVE  Data'
<1>1. SameData /\ latest' = latest /\ importType' = importType /\ msr' = msr /\ TypeOK
  BY DEF Kill, SameData, userVars, endVars, dataVars, msrVars, Control
<1>2. \A e \in Dirs, k \in Commands : pc'[e][k] \in {pc[e][k], "off", "init"}
  BY <1>1 DEF Kill, TypeOK
<1> QED
  BY <1>1, <1>2, QuietStartStep

-----------------------------------------------------------------------------
(* Slots *)

(* One slot is replaced. *)
LEMMA SlotAt ==
  ASSUME TypeOK, NEW d \in Dirs, NEW s \in {"source", "target"}, NEW v,
         slot' = [slot EXCEPT ![d][s] = v]
  PROVE  /\ slot'[d][s] = v
         /\ \A e \in Dirs, t \in {"source", "target"} : e # d \/ t # s => slot'[e][t] = slot[e][t]
BY DEF TypeOK

LEMMA SourceOfFacts ==
  ASSUME NEW c \in Exporters
  PROVE  /\ SourceOf(c) \in {"source", "target"} /\ c \in Commands
         /\ c = ES \/ c = ET
         /\ c = ES => SourceOf(c) = "source"
         /\ c = ET => SourceOf(c) = "target"
<1>1. (c = ES \/ c = ET) /\ c \in Commands
  BY CommandNames
<1>2. (c = ES => SourceOf(c) = "source") /\ (c = ET => SourceOf(c) = "target")
  BY DEF SourceOf, ES, ET
<1> QED
  BY <1>1, <1>2

(* The slot goes when there is nothing left in it. *)
LEMMA SlotDroppedData ==
  ASSUME Control, Data, NEW d \in Dirs, NEW c \in Exporters, DeleteReplicationSlot(d, c),
         UNCHANGED userVars
  PROVE  Data'
<1>1. /\ pc[d][c] = "drop" /\ Goto(d, c, "mark") /\ msr' = msr /\ latest' = latest
      /\ importType' = importType /\ files' = files /\ queue' = queue /\ done' = done /\ db' = db
      /\ app' = app /\ written' = written /\ ending' = ending
      /\ slot' = [slot EXCEPT ![d][SourceOf(c)] = NoSlot]
  BY DEF DeleteReplicationSlot, DroppedSlot, msrVars, userVars, endVars
<1>2. TypeOK /\ Open /\ Consistent(d, msr[d], latest)
  BY <1>1, ExporterThere DEF Control
<1>3. NothingLeft
  BY <1>2 DEF Data, Carried
<1>4. slot[d][SourceOf(c)].pending = {}
  <2>1. CASE c = ES
    <3>1. "CutoverDetectedBySourceExporter" \in msr[d]
      BY <1>1, <2>1, SourceExporterThere DEF SourceExporterCutover
    <3>2. "CutoverToTargetRequested" \in msr[d]
      BY <1>2, <3>1 DEF Consistent, ForwardFlags
    <3>3. SourceOf(c) = "source"
      BY <2>1 DEF SourceOf, ES
    <3> QED
      BY <1>3, <3>2, <3>3 DEF NothingLeft
  <2>2. CASE c = ET
    <3>1. "CutoverDetectedByTargetFBExporter" \in msr[d] \/ "CutoverDetectedByTargetFFExporter" \in msr[d]
      BY <1>1, <2>2, TargetExporterThere DEF TargetExporterCutover, ByRole
    <3>2. "CutoverToSourceRequested" \in msr[d] \/ "CutoverToSourceReplicaRequested" \in msr[d]
      BY <1>2, <3>1 DEF Consistent, BackFlags, OnwardFlags
    <3>3. SourceOf(c) = "target"
      BY <2>2 DEF SourceOf, ET
    <3> QED
      BY <1>3, <3>2, <3>3 DEF NothingLeft
  <2> QED
    BY <2>1, <2>2, SourceOfFacts
<1>5. SamePending
  <2>0. PICK s \in {"source", "target"} : s = SourceOf(c)
    BY SourceOfFacts
  <2>0a. slot' = [slot EXCEPT ![d][s] = NoSlot] /\ slot[d][s].pending = {} /\ TypeOK
    BY <1>1, <1>2, <1>4, <2>0
  <2>1. /\ slot'[d][s] = NoSlot
        /\ \A e \in Dirs, t \in {"source", "target"} : e # d \/ t # s => slot'[e][t] = slot[e][t]
    BY <2>0a DEF TypeOK
  <2>2. \A e \in Dirs, t \in {"source", "target"} : ~slot[e][t].exists => slot[e][t].pending = {}
    BY DEF Data, Pending
  <2> QED
    <3>1. NoSlot.pending = {} /\ NoSlot.exists = FALSE
      BY DEF NoSlot
    <3>2. SUFFICES ASSUME NEW e \in Dirs, NEW t \in {"source", "target"}
                   PROVE  /\ slot'[e][t].pending = slot[e][t].pending
                          /\ ~slot'[e][t].exists => slot[e][t].pending = {}
      BY DEF SamePending
    <3>3. CASE e = d /\ t = s
      BY <2>0a, <2>1, <3>1, <3>3
    <3>4. CASE e # d \/ t # s
      BY <2>1, <2>2, <3>4
    <3> QED
      BY <3>3, <3>4
<1>6. MsrAt(d, {}) /\ "mark" \notin WithSlot
  BY <1>1, NoFieldsAt DEF WithSlot
<1> QED
  BY <1>1, <1>5, <1>6, QuietSlotStep DEF Still

(* The slot on the target is made before the application is there. *)
LEMMA TargetSlotCreatedData ==
  ASSUME Control, Data, NEW d \in Dirs, CreateReplicationSlot(d, ET), UNCHANGED userVars
  PROVE  Data'
<1>0. ET = "export data from target" /\ ET # "export data from source" /\ ET \in Exporters /\ ET # ES
      /\ SourceOf(ET) = "target"
  BY CommandNames DEF ET, ES, SourceOf
<1>1. /\ Goto(d, ET, "save") /\ msr' = msr /\ latest' = latest
      /\ importType' = importType /\ files' = files /\ queue' = queue /\ done' = done /\ db' = db
      /\ app' = app /\ written' = written /\ ending' = ending
      /\ slot' = [slot EXCEPT ![d]["target"] = CreateSlot(d, ET)]
  BY <1>0 DEF CreateReplicationSlot, msrVars, userVars, endVars
<1>2. \A e \in Dirs, t \in {"source", "target"} : ~slot[e][t].exists => slot[e][t].pending = {}
  BY DEF Data, Pending
<1>3. SamePending
  <2>0. TypeOK
    BY DEF Control
  <2>1. /\ slot'[d]["target"] = CreateSlot(d, ET)
        /\ \A e \in Dirs, t \in {"source", "target"} :
             e # d \/ t # "target" => slot'[e][t] = slot[e][t]
    BY <1>1, <2>0, SlotAt
  <2>2. CASE slot[d]["target"].exists
    <3>1. CreateSlot(d, ET) = slot[d]["target"]
      BY <1>0, <2>2 DEF CreateSlot
    <3> QED
      BY <1>2, <2>1, <3>1 DEF SamePending
  <2>3. CASE ~slot[d]["target"].exists
    <3>1. CreateSlot(d, ET) = NewSlot /\ NewSlot.pending = {} /\ slot[d]["target"].pending = {}
      BY <1>2, <2>3 DEF CreateSlot, NewSlot
    <3> QED
      BY <1>2, <2>1, <3>1 DEF SamePending, NewSlot
  <2> QED
    BY <2>2, <2>3
<1>4. MsrAt(d, {})
  BY <1>1, NoFieldsAt
<1> QED
  BY <1>0, <1>1, <1>3, <1>4, QuietSlotStep DEF Still

(* The source's slot is made where nothing has been exported yet. *)
LEMMA SourceSlotCreated ==
  ASSUME Control, NEW d \in Dirs, CreateReplicationSlot(d, ES), UNCHANGED userVars
  PROVE  /\ TypeOK /\ Open /\ d = latest /\ "ExportDataDone" \notin msr[d]
         /\ "ExportDataFromSourceStarted" \notin msr[d] /\ "CutoverToTargetRequested" \notin msr[d]
         /\ PcAt(d, ES, "save") /\ msr' = msr /\ latest' = latest
         /\ importType' = importType /\ queue' = queue /\ done' = done /\ db' = db
         /\ app' = app /\ written' = written /\ ending' = ending
         /\ slot'[d]["source"] = NewSlot
         /\ \A e \in Dirs, t \in {"source", "target"} : e # d \/ t # "source" => slot'[e][t] = slot[e][t]
         /\ d = 0 => files' = db["source"]
         /\ d # 0 => files' = files
<1>0. ES = "export data from source" /\ ES # "export data from target" /\ ES \in Exporters /\ ES \in Commands
      /\ SourceOf(ES) = "source"
  BY CommandNames DEF ES, SourceOf
<1>1. /\ pc[d][ES] = "slot" /\ Goto(d, ES, "save") /\ msr' = msr /\ latest' = latest
      /\ importType' = importType /\ queue' = queue /\ done' = done /\ db' = db
      /\ app' = app /\ written' = written /\ ending' = ending
      /\ slot' = [slot EXCEPT ![d]["source"] = NewSlot]
      /\ files' = IF exportType[d] # CHANGES_ONLY THEN db["source"] ELSE files
  BY <1>0 DEF CreateReplicationSlot, CreateSlot, msrVars, userVars, endVars
<1>2. /\ TypeOK /\ Open /\ SourceExporterSnapshot(pc[d][ES], msr[d], exportType[d])
      /\ Consistent(d, msr[d], latest)
  BY <1>1, SourceExporterThere DEF Control
<1>3. "ExportDataDone" \notin msr[d] /\ exportType[d] # ""
  BY <1>1, <1>2 DEF SourceExporterSnapshot
<1>4. "ExportDataFromSourceStarted" \notin msr[d] /\ "CutoverToTargetRequested" \notin msr[d]
  BY <1>2, <1>3 DEF Consistent, ForwardFlags
<1>5. d = latest /\ PcAt(d, ES, "save")
  BY <1>0, <1>1, <1>2, Mates, GotoAt
<1>6. /\ slot'[d]["source"] = NewSlot
      /\ \A e \in Dirs, t \in {"source", "target"} : e # d \/ t # "source" => slot'[e][t] = slot[e][t]
  BY <1>1, <1>2, SlotAt
<1>7. d = 0 => files' = db["source"]
  BY <1>0, <1>1, ExporterThere
<1>8. d # 0 => files' = files
  <2>1. SUFFICES ASSUME d # 0 PROVE files' = files
    OBVIOUS
  <2>2. exportType[d] # SNAPSHOT_AND_CHANGES
    BY <1>0, <1>1, <2>1, ExporterThere, DirPositive
  <2>3. exportType[d] \in ExportTypes
    BY <1>2 DEF TypeOK, MSRTypeOK
  <2>4. exportType[d] = CHANGES_ONLY
    BY <1>3, <2>2, <2>3 DEF ExportTypes
  <2> QED
    BY <1>1, <2>4
<1> QED
  BY <1>1, <1>2, <1>3, <1>4, <1>5, <1>6, <1>7, <1>8

(* Before the parent's data is exported, nothing has gone anywhere. *)
LEMMA NothingExported ==
  ASSUME Control, Open, latest = 0, "ExportDataDone" \notin msr[0]
  PROVE  /\ app.at = "source"
         /\ \A e \in Dirs : queue[e] = <<>>
         /\ \A e \in Dirs : ~slot[e]["target"].exists
         /\ \A e \in Dirs : e # 0 => ~slot[e]["source"].exists
         /\ "CutoverDetectedByTargetImporter" \notin msr[0]
         /\ \A c \in Importers : pc[0][c] \notin Streaming
<1>0. 0 \in Dirs
  BY DirsFacts
<1>1. Consistent(0, msr[0], latest)
  BY <1>0, RecordsConsistent
<1>2. /\ "CutoverToTargetRequested" \notin msr[0] /\ "CutoverDetectedByTargetImporter" \notin msr[0]
      /\ "CutoverProcessedByTargetImporter" \notin msr[0]
  BY <1>1 DEF Consistent, ForwardFlags
<1>3. app.at = "source"
  BY <1>2 DEF Control, AppPlace
<1>4. ASSUME NEW e \in Dirs, e # 0
      PROVE  queue[e] = <<>> /\ ~slot[e]["source"].exists /\ ~slot[e]["target"].exists
  <2>1. e > latest
    BY <1>4, DirPositive
  <2> QED
    BY <2>1 DEF Control, DirAt, FutureAt
<1>5. queue[0] = <<>>
  BY <1>0 DEF Control, DirAt, DirectoryAt, StatusFile
<1>6. ~slot[0]["target"].exists
  <2>1. FbDir = 0
    BY DEF FbDir
  <2>2. ~Alive(ET)
    BY <1>2, <2>1 DEF Control, Places
  <2> QED
    BY <1>0, <2>2 DEF Control, Owners
<1>7. ASSUME NEW c \in Importers
      PROVE  pc[0][c] \notin Streaming
  <2>1. ImporterKnows(pc[0][c], msr[0], DetectedBy(c), ProcessedBy(c))
    BY <1>0 DEF Control, DirAt, ImportersAt
  <2> QED
    BY <2>1 DEF ImporterKnows, ImporterLabels, Streaming
<1> QED
  BY <1>2, <1>3, <1>4, <1>5, <1>6, <1>7

(* The first slot starts from the snapshot ... *)
LEMMA ParentSlotCreatedData ==
  ASSUME Control, Data, CreateReplicationSlot(0, ES), UNCHANGED userVars
  PROVE  Data'
<1>0. 0 \in Dirs /\ IT \in Importers /\ SR \in Importers /\ IT \in Commands /\ SR \in Commands
  BY DirsFacts, CommandNames
<1>1. /\ TypeOK /\ Open /\ latest = 0 /\ "ExportDataDone" \notin msr[0]
      /\ PcAt(0, ES, "save") /\ msr' = msr /\ latest' = latest
      /\ importType' = importType /\ queue' = queue /\ done' = done /\ db' = db
      /\ app' = app /\ written' = written /\ ending' = ending
      /\ slot'[0]["source"] = NewSlot
      /\ \A e \in Dirs, t \in {"source", "target"} : e # 0 \/ t # "source" => slot'[e][t] = slot[e][t]
      /\ files' = db["source"]
  BY <1>0, SourceSlotCreated
<1>2. /\ app.at = "source"
      /\ \A e \in Dirs : queue[e] = <<>>
      /\ \A e \in Dirs : ~slot[e]["target"].exists
      /\ \A e \in Dirs : e # 0 => ~slot[e]["source"].exists
      /\ "CutoverDetectedByTargetImporter" \notin msr[0]
      /\ \A c \in Importers : pc[0][c] \notin Streaming
  BY <1>1, NothingExported
<1>3. Fresh /\ Pending /\ Queued /\ Held /\ Carried
  BY <1>1 DEF Data
<1>4. \A e \in Dirs, t \in {"source", "target"} : slot'[e][t].pending = {}
  BY <1>1, <1>2, <1>3 DEF Pending, NewSlot
<1>5. \A e \in Dirs : DOMAIN queue'[e] = {}
  BY <1>1, <1>2
<1>6. files' = db["source"] /\ 1 .. written \subseteq files' /\ files' \subseteq 1 .. written
  BY <1>1, <1>2, <1>3 DEF Held, Fresh, Databases
<1>7. Fresh'
  BY <1>1, <1>3, <1>4, <1>5, <1>6 DEF Fresh
<1>8. Pending'
  BY <1>4 DEF Pending
<1>9. Queued'
  BY <1>5 DEF Queued
<1>10. Held'
  BY <1>1, <1>3 DEF Held
<1>11. NothingLeft'
  BY <1>4 DEF NothingLeft
<1>12. EventsLast' /\ Applied'
  BY <1>5 DEF EventsLast, Applied
<1>13. Loaded'
  <2>1. IT # ES /\ SR # ES
    BY DEF IT, SR, ES
  <2>2. pc'[0][IT] = pc[0][IT] /\ pc'[0][SR] = pc[0][SR]
    BY <1>0, <1>1, <2>1 DEF PcAt
  <2>3. importType'[0] # CHANGES_ONLY
    BY <1>1, <1>3 DEF Carried, Loaded
  <2> QED
    BY <1>0, <1>1, <1>2, <2>2, <2>3 DEF Loaded, Streaming
<1>14. BackAtSource'
  BY <1>1, <1>3 DEF Carried, BackAtSource
<1>15. ToTarget'
  BY <1>1, <1>2, <1>6 DEF ToTarget
<1>16. ToSource'
  BY <1>1, <1>2 DEF ToSource
<1>17. ToReplica'
  BY <1>1, <1>2, <1>6 DEF ToReplica
<1> QED
  BY <1>7, <1>8, <1>9, <1>10, <1>11, <1>12, <1>13, <1>14, <1>15, <1>16, <1>17 DEF Data, Carried

(* ... and that of an iteration from a target that holds everything. *)
LEMMA IterationSlotCreatedData ==
  ASSUME Control, Data, NEW d \in Dirs, d # 0, CreateReplicationSlot(d, ES), UNCHANGED userVars
  PROVE  Data'
<1>0. 0 \in Dirs /\ IT \in Commands /\ SR \in Commands /\ ES \in Commands
  BY DirsFacts, CommandNames
<1>1. /\ TypeOK /\ Open /\ d = latest /\ "ExportDataFromSourceStarted" \notin msr[d]
      /\ PcAt(d, ES, "save") /\ msr' = msr /\ latest' = latest
      /\ importType' = importType /\ queue' = queue /\ done' = done /\ db' = db
      /\ app' = app /\ written' = written /\ ending' = ending
      /\ slot'[d]["source"] = NewSlot /\ files' = files
      /\ \A e \in Dirs, t \in {"source", "target"} : e # d \/ t # "source" => slot'[e][t] = slot[e][t]
  BY SourceSlotCreated
<1>2. Fresh /\ Pending /\ Queued /\ Held /\ Carried
  BY <1>1 DEF Data
<1>3. latest > 0 /\ app.at # "source" /\ app.dir \in Dirs
  BY <1>1, <1>2, DirPositive DEF Carried, BackAtSource, TypeOK
<1>4. \A e \in Dirs, t \in {"source", "target"} :
        /\ slot'[e][t].pending \subseteq slot[e][t].pending
        /\ ~slot'[e][t].exists => slot'[e][t].pending = {}
        /\ t = "target" \/ e = 0 => slot'[e][t].pending = slot[e][t].pending
  BY <1>1, <1>2 DEF Pending, NewSlot
<1>5. Fresh' /\ Queued' /\ Held'
  BY <1>1, <1>2, <1>4 DEF Fresh, Queued, Held, IsChange
<1>6. Pending'
  BY <1>1, <1>2, <1>4 DEF Pending, IsChange
<1>7. NothingLeft'
  BY <1>1, <1>2, <1>4 DEF Carried, NothingLeft
<1>8. EventsLast' /\ Applied'
  BY <1>1, <1>2 DEF Carried, EventsLast, Applied, IsChange
<1>9. \A k \in Commands : pc'[0][k] = pc[0][k]
  BY <1>0, <1>1 DEF PcAt
<1>10. Loaded'
  BY <1>0, <1>1, <1>2, <1>9 DEF Carried, Loaded
<1>11. BackAtSource' /\ ToTarget'
  BY <1>1, <1>3 DEF BackAtSource, ToTarget
<1>12. \A e, c, w : InQueue(e, c, w)' <=> InQueue(e, c, w)
  BY <1>1 DEF InQueue, IsChange
<1>13. ToSource'
  BY <1>1, <1>2, <1>3, <1>4, <1>12 DEF Carried, ToSource
<1>14. ToReplica'
  <2>1. Exports(0)' <=> Exports(0)
    BY <1>0, <1>1, <1>9 DEF Exports
  <2> QED
    BY <1>0, <1>1, <1>2, <1>4, <1>12, <2>1 DEF Carried, ToReplica
<1> QED
  BY <1>5, <1>6, <1>7, <1>8, <1>10, <1>11, <1>13, <1>14 DEF Data, Carried

LEMMA SlotCreatedData ==
  ASSUME Control, Data, NEW d \in Dirs, NEW c \in Exporters, CreateReplicationSlot(d, c), UNCHANGED userVars
  PROVE  Data'
<1>1. CASE c = ET
  BY <1>1, TargetSlotCreatedData
<1>2. CASE c = ES /\ d = 0
  BY <1>2, ParentSlotCreatedData
<1>3. CASE c = ES /\ d # 0
  BY <1>3, IterationSlotCreatedData
<1> QED
  BY <1>1, <1>2, <1>3, SourceOfFacts

-----------------------------------------------------------------------------
(* Changes on their way *)

(* A write may go on, from a slot to the queue and into a database. *)
Forward ==
  /\ \A x \in Databases : db[x] \subseteq db'[x]
  /\ \A e \in Dirs : \A c, w : InQueue(e, c, w) => InQueue(e, c, w)'
  /\ \A e \in Dirs : \A w \in slot[e]["source"].pending :
       w \in slot'[e]["source"].pending \/ InQueue(e, ES, w)'
  /\ \A e \in Dirs : \A w \in slot[e]["target"].pending :
       w \in slot'[e]["target"].pending \/ InQueue(e, ET, w)'

(* A write that goes on is still on its way, or there. *)
LEMMA ForwardCarried ==
  ASSUME TypeOK, ToTarget, ToSource, ToReplica, Forward, msr' = msr, latest' = latest, files' = files,
         app' = app, written' = written, \A e \in Dirs : Exports(e)' => Exports(e)
  PROVE  ToTarget' /\ ToSource' /\ ToReplica'
<1>1. latest \in Dirs /\ app.dir \in Dirs /\ 0 \in Dirs
  BY DirsFacts DEF TypeOK, MSRTypeOK
<1>2. db["target"] \subseteq db'["target"] /\ db["source"] \subseteq db'["source"]
      /\ db["source-replica"] \subseteq db'["source-replica"]
  BY DEF Forward, Databases
<1>3. ToTarget'
  <2>1. SUFFICES ASSUME app.at = "source", "CutoverToSourceRequested" \notin msr[latest]
                 PROVE  /\ Exports(latest)' => \A w \in 1 .. written :
                             \/ w \in db'["target"] \/ w \in files \/ InQueue(latest, ES, w)'
                             \/ w \in slot'[latest]["source"].pending
                        /\ "CutoverDetectedByTargetImporter" \in msr[latest] => 1 .. written \subseteq db'["target"]
    BY DEF ToTarget, Exports, InQueue, IsChange
  <2>2. Exports(latest)' => Exports(latest)
    BY <1>1 DEF Exports
  <2>3. ASSUME Exports(latest), NEW w \in 1 .. written
        PROVE  \/ w \in db'["target"] \/ w \in files \/ InQueue(latest, ES, w)'
               \/ w \in slot'[latest]["source"].pending
    <3>1. \/ w \in db["target"] \/ w \in files \/ InQueue(latest, ES, w)
          \/ w \in slot[latest]["source"].pending
      BY <2>1, <2>3 DEF ToTarget
    <3>2. InQueue(latest, ES, w) => InQueue(latest, ES, w)'
      BY <1>1 DEF Forward, InQueue, IsChange
    <3>3. w \in slot[latest]["source"].pending =>
            w \in slot'[latest]["source"].pending \/ InQueue(latest, ES, w)'
      BY <1>1 DEF Forward, InQueue, IsChange
    <3> QED
      BY <1>2, <3>1, <3>2, <3>3
  <2> QED
    BY <1>2, <2>1, <2>2, <2>3 DEF ToTarget
<1>4. ToSource'
  <2>1. SUFFICES ASSUME app.at = "target", "FallbackEnabled" \in msr[app.dir]
                 PROVE  /\ \A w \in 1 .. written :
                             \/ w \in db'["source"] \/ InQueue(app.dir, ET, w)'
                             \/ w \in slot'[app.dir]["target"].pending
                        /\ "CutoverDetectedBySourceImporter" \in msr[app.dir] => 1 .. written \subseteq db'["source"]
    BY DEF ToSource, InQueue, IsChange
  <2>3. ASSUME NEW w \in 1 .. written
        PROVE  \/ w \in db'["source"] \/ InQueue(app.dir, ET, w)'
               \/ w \in slot'[app.dir]["target"].pending
    <3>1. w \in db["source"] \/ InQueue(app.dir, ET, w) \/ w \in slot[app.dir]["target"].pending
      BY <2>1, <2>3 DEF ToSource
    <3>2. InQueue(app.dir, ET, w) => InQueue(app.dir, ET, w)'
      BY <1>1 DEF Forward, InQueue, IsChange
    <3>3. w \in slot[app.dir]["target"].pending =>
            w \in slot'[app.dir]["target"].pending \/ InQueue(app.dir, ET, w)'
      BY <1>1 DEF Forward, InQueue, IsChange
    <3> QED
      BY <1>2, <3>1, <3>2, <3>3
  <2> QED
    BY <1>2, <2>1, <2>3 DEF ToSource
<1>5. ToReplica'
  <2>2. Exports(0)' => Exports(0)
    BY <1>1
  <2>3. ASSUME NEW w, \/ w \in files \/ InQueue(0, ES, w) \/ InQueue(0, ET, w)
                      \/ w \in slot[0]["source"].pending \/ w \in slot[0]["target"].pending
        PROVE  \/ w \in files \/ InQueue(0, ES, w)' \/ InQueue(0, ET, w)'
               \/ w \in slot'[0]["source"].pending \/ w \in slot'[0]["target"].pending
    <3>2. (InQueue(0, ES, w) => InQueue(0, ES, w)') /\ (InQueue(0, ET, w) => InQueue(0, ET, w)')
      BY <1>1 DEF Forward
    <3>3. /\ w \in slot[0]["source"].pending => w \in slot'[0]["source"].pending \/ InQueue(0, ES, w)'
          /\ w \in slot[0]["target"].pending => w \in slot'[0]["target"].pending \/ InQueue(0, ET, w)'
      BY <1>1 DEF Forward
    <3> QED
      BY <2>3, <3>2, <3>3
  <2> QED
    BY <1>2, <2>2, <2>3 DEF ToReplica
<1> QED
  BY <1>3, <1>4, <1>5

(* The queue of directory d gets one more item, x. *)
Appended(d, x) == queue' = [queue EXCEPT ![d] = Append(@, x)]

(* The place of the next item. *)
NextPlace(d) == Len(queue[d]) + 1

LEMMA AppendedAt ==
  ASSUME TypeOK, NEW d \in Dirs, NEW x \in QueueItems, Appended(d, x),
         NEW n, n = NextPlace(d)
  PROVE  /\ \A e \in Dirs : e # d => queue'[e] = queue[e]
         /\ DOMAIN queue'[d] = DOMAIN queue[d] \cup {n}
         /\ \A j \in DOMAIN queue[d] : queue'[d][j] = queue[d][j] /\ j < n /\ j \in Nat
         /\ queue'[d][n] = x /\ n \notin DOMAIN queue[d] /\ n \in Nat
         /\ \A c \in Importers : done[d][c] < n /\ done[d][c] \in Nat
<1>0. n = Len(queue[d]) + 1 /\ queue' = [queue EXCEPT ![d] = Append(@, x)]
  BY DEF Appended, NextPlace
<1>1. queue'[d] = Append(queue[d], x) /\ queue[d] \in Seq(QueueItems)
  BY <1>0, QueueGrows
<1>2. \A e \in Dirs : e # d => queue'[e] = queue[e]
  BY <1>0, QueueGrows
<1>3. \A c \in Importers : done[d][c] <= Len(queue[d]) /\ done[d][c] \in Nat
  BY DEF TypeOK
<1>4. PICK q \in Seq(QueueItems) : q = queue[d]
  BY <1>1
<1>5. /\ DOMAIN Append(q, x) = DOMAIN q \cup {n} /\ n \notin DOMAIN q /\ n \in Nat
      /\ \A j \in DOMAIN q : Append(q, x)[j] = q[j] /\ j < n /\ j \in Nat
      /\ Append(q, x)[n] = x
  BY <1>0, <1>4
<1>6. \A c \in Importers : done[d][c] < n
  BY <1>0, <1>3, <1>4
<1> QED
  BY <1>1, <1>2, <1>3, <1>4, <1>5, <1>6

LEMMA InQueueGrows ==
  ASSUME TypeOK, NEW d \in Dirs, NEW x \in QueueItems, Appended(d, x)
  PROVE  \A e \in Dirs : \A c, w : InQueue(e, c, w) => InQueue(e, c, w)'
<1>1. PICK n : n = NextPlace(d)
  OBVIOUS
<1>2. /\ \A e \in Dirs : e # d => queue'[e] = queue[e]
      /\ DOMAIN queue'[d] = DOMAIN queue[d] \cup {n}
      /\ \A j \in DOMAIN queue[d] : queue'[d][j] = queue[d][j]
  BY <1>1, AppendedAt
<1>3. SUFFICES ASSUME NEW e \in Dirs, NEW c, NEW w, InQueue(e, c, w)
               PROVE  \E j \in DOMAIN queue'[e] : /\ queue'[e][j].event = "change"
                                                  /\ queue'[e][j].by = c /\ queue'[e][j].write = w
  BY DEF InQueue, IsChange
<1>4. PICK j \in DOMAIN queue[e] : /\ queue[e][j].event = "change"
                                   /\ queue[e][j].by = c /\ queue[e][j].write = w
  BY <1>3 DEF InQueue, IsChange
<1>5. CASE e = d
  BY <1>2, <1>4, <1>5
<1>6. CASE e # d
  BY <1>2, <1>4, <1>6
<1> QED
  BY <1>5, <1>6

(* What importers have dealt with stays where it is when the queue grows. *)
LEMMA AppliedGrows ==
  ASSUME TypeOK, NEW d \in Dirs, NEW x \in QueueItems, Appended(d, x),
         Applied, done' = done, db' = db
  PROVE  Applied'
<1>1. PICK n : n = NextPlace(d)
  OBVIOUS
<1>2. /\ \A e \in Dirs : e # d => queue'[e] = queue[e]
      /\ DOMAIN queue'[d] = DOMAIN queue[d] \cup {n}
      /\ \A j \in DOMAIN queue[d] : queue'[d][j] = queue[d][j]
      /\ \A c \in Importers : done[d][c] < n /\ done[d][c] \in Nat /\ n \in Nat
  BY <1>1, AppendedAt
<1>3. SUFFICES ASSUME NEW e \in Dirs, NEW c \in Importers, NEW j \in DOMAIN queue'[e],
                      queue'[e][j].event = "change", j <= done[e][c], c = IS => queue'[e][j].by = ET
               PROVE  queue'[e][j].write \in db[DestinationOf(c)]
  BY DEF Applied, IsChange
<1>4. j \in DOMAIN queue[e] /\ queue'[e][j] = queue[e][j]
  <2>1. CASE e = d
    <3>1. ~(n <= done[d][c])
      BY <1>2
    <3> QED
      BY <1>2, <1>3, <2>1, <3>1
  <2>2. CASE e # d
    BY <1>2, <2>2
  <2> QED
    BY <2>1, <2>2
<1> QED
  BY <1>3, <1>4 DEF Applied, IsChange

(* A cutover event is in the queue only if its cutover was requested, and   *)
(* a cutover back only after the one to the target.                         *)
LEMMA NoEventsBefore ==
  ASSUME Control, NEW d \in Dirs, NEW i \in DOMAIN queue[d]
  PROVE  /\ queue[d][i].event \in {"change"} \cup CutoverEvents
         /\ "CutoverToTargetRequested" \notin msr[d] => queue[d][i].event = "change"
         /\ "CutoverToSourceRequested" \notin msr[d] /\ "CutoverToSourceReplicaRequested" \notin msr[d] =>
              queue[d][i].event \in {"change", "cutover.target"}
<1>1. queue[d] \in Seq(QueueItems)
  BY DEF Control, TypeOK, QueueItems
<1>2. queue[d][i] \in QueueItems
  BY <1>1
<1>3. queue[d][i].event \in {"change", "cutover.target", "cutover.source", "cutover.source_replica"}
  BY <1>2 DEF QueueItems, CutoverEvents
<1>4. /\ queue[d][i].event = "cutover.target" => "CutoverToTargetRequested" \in msr[d]
      /\ queue[d][i].event = "cutover.source" => "CutoverToSourceRequested" \in msr[d]
      /\ queue[d][i].event = "cutover.source_replica" => "CutoverToSourceReplicaRequested" \in msr[d]
  BY DEF Control, DirAt, DirectoryAt, EventsRequested
<1>5. Consistent(d, msr[d], latest)
  BY RecordsConsistent
<1>6. /\ "CutoverToSourceRequested" \in msr[d] => "CutoverToTargetRequested" \in msr[d]
      /\ "CutoverToSourceReplicaRequested" \in msr[d] => "CutoverToTargetRequested" \in msr[d]
  BY <1>5, ConsistentFacts DEF Consistent, BackFlags, OnwardFlags
<1> QED
  BY <1>3, <1>4, <1>6 DEF CutoverEvents

(* A change goes from the slot to the queue ... *)
LEMMA ChangeData ==
  ASSUME Control, Data, NEW d \in Dirs, NEW c \in Exporters, ExportChange(d, c), UNCHANGED userVars
  PROVE  Data'
<1>0. TypeOK /\ 0 \in Dirs
  BY DirsFacts DEF Control
<1>1. /\ msr' = msr /\ latest' = latest /\ pc' = pc /\ importType' = importType /\ files' = files
      /\ done' = done /\ db' = db /\ app' = app /\ written' = written /\ ending' = ending
  BY DEF ExportChange, msrVars, procVars, userVars, endVars
<1>2. PICK s \in {"source", "target"} : s = SourceOf(c)
  BY SourceOfFacts
<1>3. PICK w \in slot[d][s].pending :
        /\ slot' = [slot EXCEPT ![d][s].pending = @ \ {w}]
        /\ queue' = [queue EXCEPT ![d] = Append(@, Change(c, w))]
  BY <1>2 DEF ExportChange
<1>4. Fresh /\ Pending /\ Queued /\ Held
  BY DEF Data
<1>5. w \in 1 .. written /\ w \in 0 .. MaxWrites
  <2>1. written \in 0 .. MaxWrites
    BY <1>0 DEF TypeOK
  <2>2. w \in 1 .. written
    BY <1>4 DEF Fresh
  <2> QED
    BY <2>1, <2>2, MigrationBoundsAssumption
<1>6. PICK x \in QueueItems : x = Change(c, w)
  BY <1>5 DEF QueueItems, Change
<1>7. x.event = "change" /\ x.by = c /\ x.write = w
  BY <1>6 DEF Change
<1>8. PICK n : n = NextPlace(d)
  OBVIOUS
<1>9. Appended(d, x)
  BY <1>3, <1>6 DEF Appended
<1>10. /\ \A e \in Dirs : e # d => queue'[e] = queue[e]
       /\ DOMAIN queue'[d] = DOMAIN queue[d] \cup {n}
       /\ \A j \in DOMAIN queue[d] : queue'[d][j] = queue[d][j] /\ j < n /\ j \in Nat
       /\ queue'[d][n] = x /\ n \notin DOMAIN queue[d] /\ n \in Nat
  BY <1>0, <1>8, <1>9, AppendedAt
<1>11. /\ slot'[d][s].pending = slot[d][s].pending \ {w}
       /\ slot'[d][s].exists = slot[d][s].exists
       /\ \A e \in Dirs, t \in {"source", "target"} : e # d \/ t # s => slot'[e][t] = slot[e][t]
  BY <1>0, <1>3 DEF TypeOK
<1>12. \A e \in Dirs, t \in {"source", "target"} :
         /\ slot'[e][t].pending \subseteq slot[e][t].pending
         /\ w \notin slot'[e][t].pending
         /\ slot'[e][t].exists = slot[e][t].exists
  BY <1>3, <1>4, <1>11 DEF Pending
<1>13. \A e \in Dirs : \A j \in DOMAIN queue'[e] :
         \/ e = d /\ j = n /\ queue'[e][j] = x
         \/ j \in DOMAIN queue[e] /\ queue'[e][j] = queue[e][j]
  BY <1>10
<1>14. w \notin files /\ \A e \in Dirs : \A j \in DOMAIN queue[e] : IsChange(e, j) => queue[e][j].write # w
  BY <1>4 DEF Pending
<1>15. Fresh'
  <2>1. \A e \in Dirs : \A j \in DOMAIN queue'[e] :
          queue'[e][j].event = "change" => queue'[e][j].write \in 1 .. written
    BY <1>4, <1>5, <1>7, <1>13 DEF Fresh, IsChange
  <2>2. \A e \in Dirs, t \in {"source", "target"} : slot'[e][t].pending \subseteq 1 .. written
    BY <1>4, <1>12 DEF Fresh
  <2> QED
    BY <1>1, <1>4, <2>1, <2>2 DEF Fresh, IsChange
<1>16. Pending'
  <2>1. \A e \in Dirs, t \in {"source", "target"} : ~slot'[e][t].exists => slot'[e][t].pending = {}
    BY <1>4, <1>12 DEF Pending
  <2>2. ASSUME NEW e \in Dirs, NEW t \in {"source", "target"}, NEW v \in slot'[e][t].pending
        PROVE  /\ \A f \in Dirs, u \in {"source", "target"} : v \in slot'[f][u].pending => e = f /\ t = u
               /\ v \notin files
               /\ \A f \in Dirs : \A j \in DOMAIN queue'[f] :
                    queue'[f][j].event = "change" => queue'[f][j].write # v
    <3>1. v \in slot[e][t].pending /\ v # w
      BY <1>12
    <3>2. /\ \A f \in Dirs, u \in {"source", "target"} : v \in slot[f][u].pending => e = f /\ t = u
          /\ v \notin files
          /\ \A f \in Dirs : \A j \in DOMAIN queue[f] :
               queue[f][j].event = "change" => queue[f][j].write # v
      BY <1>4, <3>1 DEF Pending, IsChange
    <3> QED
      BY <1>7, <1>12, <1>13, <3>1, <3>2
  <2> QED
    BY <1>1, <2>1, <2>2 DEF Pending, IsChange
<1>17. Queued'
  <2>1. SUFFICES ASSUME NEW e \in Dirs, NEW i \in DOMAIN queue'[e], queue'[e][i].event = "change"
                 PROVE  /\ queue'[e][i].write \notin files
                        /\ \A f \in Dirs : \A j \in DOMAIN queue'[f] :
                             queue'[f][j].event = "change" /\ queue'[f][j].write = queue'[e][i].write
                               => e = f /\ i = j
    BY <1>1 DEF Queued, IsChange
  <2>2. CASE e = d /\ i = n /\ queue'[e][i] = x
    BY <1>7, <1>13, <1>14, <2>2 DEF IsChange
  <2>3. CASE i \in DOMAIN queue[e] /\ queue'[e][i] = queue[e][i]
    <3>1. /\ queue[e][i].write \notin files /\ queue[e][i].write # w
          /\ \A f \in Dirs : \A j \in DOMAIN queue[f] :
               queue[f][j].event = "change" /\ queue[f][j].write = queue[e][i].write => e = f /\ i = j
      BY <1>4, <1>14, <2>1, <2>3 DEF Queued, IsChange
    <3> QED
      BY <1>7, <1>13, <2>3, <3>1
  <2> QED
    BY <1>13, <2>2, <2>3
<1>18. Held'
  BY <1>1, <1>4 DEF Held
<1>19. ASSUME Open PROVE Carried'
  <2>1. Carried
    BY <1>19 DEF Data
  <2>2. NothingLeft'
    BY <1>1, <1>12, <2>1 DEF Carried, NothingLeft
  <2>3. EventsLast'
    <3>1. SUFFICES ASSUME NEW e \in Dirs, NEW i \in DOMAIN queue'[e], NEW j \in DOMAIN queue'[e],
                          i < j, queue'[e][j].event = "change"
                   PROVE  /\ queue'[e][j].by = ES => queue'[e][i].event = "change"
                          /\ queue'[e][j].by = ET => queue'[e][i].event \in {"change", "cutover.target"}
      BY DEF EventsLast, IsChange
    <3>2. CASE e = d /\ j = n
      <4>1. i \in DOMAIN queue[d] /\ queue'[d][i] = queue[d][i]
        BY <1>10, <3>1, <3>2
      <4>2. ES # ET
        BY DEF ES, ET
      <4>3. c = ES => "CutoverToTargetRequested" \notin msr[d]
        BY <1>2, <1>3, <2>1, SourceOfFacts DEF Carried, NothingLeft
      <4>4. c = ET => "CutoverToSourceRequested" \notin msr[d] /\ "CutoverToSourceReplicaRequested" \notin msr[d]
        BY <1>2, <1>3, <2>1, SourceOfFacts DEF Carried, NothingLeft
      <4> QED
        BY <1>7, <1>10, <3>2, <4>1, <4>2, <4>3, <4>4, NoEventsBefore
    <3>3. CASE j \in DOMAIN queue[e] /\ queue'[e][j] = queue[e][j]
      <4>1. i \in DOMAIN queue[e] /\ queue'[e][i] = queue[e][i]
        BY <1>10, <3>1, <3>3
      <4> QED
        BY <2>1, <3>1, <3>3, <4>1 DEF Carried, EventsLast, IsChange
    <3> QED
      BY <1>13, <3>2, <3>3
  <2>4. Applied'
    BY <1>0, <1>1, <1>9, <2>1, AppliedGrows DEF Carried
  <2>5. Loaded' /\ BackAtSource'
    BY <1>1, <2>1 DEF Carried, Loaded, BackAtSource
  <2>6. Forward
    <3>1. \A e \in Dirs : \A k, v : InQueue(e, k, v) => InQueue(e, k, v)'
      BY <1>0, <1>9, InQueueGrows
    <3>2. InQueue(d, c, w)'
      BY <1>7, <1>10 DEF InQueue, IsChange
    <3>3. ASSUME NEW e \in Dirs, NEW t \in {"source", "target"}, NEW v \in slot[e][t].pending
          PROVE  v \in slot'[e][t].pending \/ (e = d /\ t = s /\ v = w)
      BY <1>11
    <3>4. (s = "source" => c = ES) /\ (s = "target" => c = ET)
      BY <1>2, SourceOfFacts
    <3>5. ASSUME NEW e \in Dirs, NEW v \in slot[e]["source"].pending
          PROVE  v \in slot'[e]["source"].pending \/ InQueue(e, ES, v)'
      <4>1. v \in slot'[e]["source"].pending \/ (e = d /\ s = "source" /\ v = w)
        BY <3>3
      <4> QED
        BY <3>2, <3>4, <4>1
    <3>6. ASSUME NEW e \in Dirs, NEW v \in slot[e]["target"].pending
          PROVE  v \in slot'[e]["target"].pending \/ InQueue(e, ET, v)'
      <4>1. v \in slot'[e]["target"].pending \/ (e = d /\ s = "target" /\ v = w)
        BY <3>3
      <4> QED
        BY <3>2, <3>4, <4>1
    <3> QED
      BY <1>1, <3>1, <3>5, <3>6 DEF Forward
  <2>7. \A e \in Dirs : Exports(e)' => Exports(e)
    BY <1>1 DEF Exports
  <2>8. ToTarget' /\ ToSource' /\ ToReplica'
    BY <1>0, <1>1, <2>1, <2>6, <2>7, ForwardCarried DEF Carried
  <2> QED
    BY <2>2, <2>3, <2>4, <2>5, <2>8 DEF Carried
<1>20. Open' => Open
  BY <1>1 DEF Open
<1> QED
  BY <1>15, <1>16, <1>17, <1>18, <1>19, <1>20 DEF Data

(* ... and the cutover event after the last one. *)
LEMMA SwitchData ==
  ASSUME Control, Data, NEW d \in Dirs, NEW c \in Exporters, SwitchOperation(d, c), UNCHANGED userVars
  PROVE  Data'
<1>0. TypeOK /\ 0 \in Dirs /\ c \in Commands
  BY DirsFacts, CommandNames DEF Control
<1>1. /\ msr' = msr /\ latest' = latest /\ importType' = importType /\ files' = files /\ slot' = slot
      /\ done' = done /\ db' = db /\ app' = app /\ written' = written /\ ending' = ending
  BY DEF SwitchOperation, msrVars, userVars, endVars
<1>2. PICK x \in QueueItems : /\ Appended(d, x) /\ x.event # "change"
  <2>1. CutoverEvent(Role(d, c)) \in CutoverEvents /\ CutoverEvent(Role(d, c)) # "change"
    BY DEF CutoverEvent, CutoverEvents
  <2>2. Cutover(c, CutoverEvent(Role(d, c))) \in QueueItems
    BY <2>1, MigrationBoundsAssumption DEF QueueItems, Cutover
  <2>3. Cutover(c, CutoverEvent(Role(d, c))).event # "change"
    BY <2>1 DEF Cutover
  <2> QED
    BY <2>2, <2>3 DEF SwitchOperation, Appended
<1>3. PICK n : n = NextPlace(d)
  OBVIOUS
<1>4. /\ \A e \in Dirs : e # d => queue'[e] = queue[e]
      /\ DOMAIN queue'[d] = DOMAIN queue[d] \cup {n}
      /\ \A j \in DOMAIN queue[d] : queue'[d][j] = queue[d][j] /\ j < n /\ j \in Nat
      /\ queue'[d][n] = x /\ n \in Nat
  BY <1>0, <1>2, <1>3, AppendedAt
<1>5. \A e \in Dirs : \A j \in DOMAIN queue'[e] : queue'[e][j].event = "change" =>
        j \in DOMAIN queue[e] /\ queue'[e][j] = queue[e][j]
  BY <1>2, <1>4
<1>6. Fresh /\ Pending /\ Queued /\ Held
  BY DEF Data
<1>7. Fresh' /\ Held'
  BY <1>1, <1>5, <1>6 DEF Fresh, Held, IsChange
<1>8. Pending'
  BY <1>1, <1>5, <1>6 DEF Pending, IsChange
<1>9. Queued'
  BY <1>1, <1>5, <1>6 DEF Queued, IsChange
<1>10. /\ \A e \in Dirs : pc'[e][ES] \in WithSlot => pc[e][ES] \in WithSlot
       /\ pc'[0][IT] = pc[0][IT] /\ pc'[0][SR] = pc[0][SR]
  <2>1. PICK l : Goto(d, c, l)
    BY DEF SwitchOperation
  <2>2. pc[d][c] \in WithSlot
    BY DEF SwitchOperation, DebeziumRuns, WithSlot
  <2>3. PcAt(d, c, l)
    BY <1>0, <2>1, GotoAt
  <2>4. (c = ES \/ c = ET) /\ ES # ET /\ IT # ES /\ IT # ET /\ SR # ES /\ SR # ET
    BY SourceOfFacts DEF ES, ET, IT, SR
  <2>5. IT \in Commands /\ SR \in Commands /\ ES \in Commands
    BY CommandNames
  <2> QED
    BY <1>0, <2>2, <2>3, <2>4, <2>5 DEF PcAt
<1>11. ASSUME Open PROVE Carried'
  <2>1. Carried
    BY <1>11 DEF Data
  <2>2. NothingLeft'
    BY <1>1, <2>1 DEF Carried, NothingLeft
  <2>3. EventsLast'
    <3>1. SUFFICES ASSUME NEW e \in Dirs, NEW i \in DOMAIN queue'[e], NEW j \in DOMAIN queue'[e],
                          i < j, queue'[e][j].event = "change"
                   PROVE  /\ queue'[e][j].by = ES => queue'[e][i].event = "change"
                          /\ queue'[e][j].by = ET => queue'[e][i].event \in {"change", "cutover.target"}
      BY DEF EventsLast, IsChange
    <3>2. j \in DOMAIN queue[e] /\ queue'[e][j] = queue[e][j]
      BY <1>5, <3>1
    <3>3. i \in DOMAIN queue[e] /\ queue'[e][i] = queue[e][i]
      BY <1>4, <3>1, <3>2
    <3> QED
      BY <2>1, <3>1, <3>2, <3>3 DEF Carried, EventsLast, IsChange
  <2>4. Applied'
    BY <1>0, <1>1, <1>2, <2>1, AppliedGrows DEF Carried
  <2>5. Loaded' /\ BackAtSource'
    BY <1>1, <1>10, <2>1 DEF Carried, Loaded, BackAtSource
  <2>6. Forward
    <3>1. \A e \in Dirs : \A k, v : InQueue(e, k, v) => InQueue(e, k, v)'
      BY <1>0, <1>2, InQueueGrows
    <3> QED
      BY <1>1, <3>1 DEF Forward
  <2>7. \A e \in Dirs : Exports(e)' => Exports(e)
    BY <1>1, <1>10 DEF Exports
  <2>8. ToTarget' /\ ToSource' /\ ToReplica'
    BY <1>0, <1>1, <2>1, <2>6, <2>7, ForwardCarried DEF Carried
  <2> QED
    BY <2>2, <2>3, <2>4, <2>5, <2>8 DEF Carried
<1>12. Open' => Open
  BY <1>1 DEF Open
<1> QED
  BY <1>7, <1>8, <1>9, <1>11, <1>12 DEF Data

-----------------------------------------------------------------------------
(* Changes arrive *)

(* There is no slot on a database while an importer writes to it. *)
LEMMA NoSlotAtDestination ==
  ASSUME Control, NEW d \in Dirs, NEW c \in Importers, pc[d][c] # "off"
  PROVE  /\ DestinationOf(c) \in Databases
         /\ \A e \in Dirs, s \in {"source", "target"} : s = DestinationOf(c) => ~slot[e][s].exists
<1>1. c = IT \/ c = IS \/ c = SR
  BY CommandNames
<1>2. Alive(c)
  BY DEF Alive
<1>3. /\ Alive(IT) => \A e \in Dirs : ~slot[e]["target"].exists
      /\ Alive(IS) => \A e \in Dirs : ~slot[e]["source"].exists
  BY DEF Control, Owners
<1>4. /\ DestinationOf(IT) = "target" /\ DestinationOf(IS) = "source"
      /\ DestinationOf(SR) = "source-replica"
  BY DEF DestinationOf, IT, IS, SR
<1>5. DestinationOf(c) \in Databases
  BY <1>1, <1>4 DEF Databases
<1>6. CASE c = IT
  BY <1>2, <1>3, <1>4, <1>5, <1>6
<1>7. CASE c = IS
  BY <1>2, <1>3, <1>4, <1>5, <1>7
<1>8. CASE c = SR
  BY <1>4, <1>5, <1>8
<1> QED
  BY <1>1, <1>6, <1>7, <1>8

LEMMA ImporterWrites ==
  ASSUME Control, NEW d \in Dirs, NEW c \in Importers, pc[d][c] # "off", NEW ws,
         Write(DestinationOf(c), ws)
  PROVE  /\ db'[DestinationOf(c)] = db[DestinationOf(c)] \cup ws
         /\ \A x \in Databases : db[x] \subseteq db'[x] /\ db'[x] \subseteq db[x] \cup ws
         /\ \A e \in Dirs, s \in {"source", "target"} : slot'[e][s] = slot[e][s]
<1>1. PICK y \in Databases : /\ y = DestinationOf(c)
                             /\ \A e \in Dirs, s \in {"source", "target"} : s = y => ~slot[e][s].exists
  BY NoSlotAtDestination
<1>2. db \in [Databases -> SUBSET Writes]
  BY DEF Control, TypeOK
<1>3. db' = [db EXCEPT ![y] = @ \cup ws]
  BY <1>1 DEF Write
<1>4. slot' = [e \in Dirs |-> [s \in {"source", "target"} |->
                IF s = y /\ slot[e][s].exists
                THEN [slot[e][s] EXCEPT !.pending = @ \cup ws]
                ELSE slot[e][s]]]
  BY <1>1 DEF Write
<1>5. \A e \in Dirs, s \in {"source", "target"} : slot'[e][s] = slot[e][s]
  BY <1>1, <1>4
<1>6. db'[y] = db[y] \cup ws /\ \A x \in Databases : x # y => db'[x] = db[x]
  BY <1>2, <1>3
<1> QED
  BY <1>1, <1>5, <1>6

(* Writes that were made before reach one more database. *)
LEMMA ArrivalKeeps ==
  ASSUME Control, Data, NEW ws \in SUBSET (1 .. written), queue' = queue, files' = files, app' = app,
         written' = written, \A x \in Databases : db[x] \subseteq db'[x] /\ db'[x] \subseteq db[x] \cup ws,
         \A e \in Dirs, s \in {"source", "target"} : slot'[e][s] = slot[e][s]
  PROVE  Fresh' /\ Pending' /\ Queued' /\ Held' /\ Forward
<1>1. Fresh /\ Pending /\ Queued /\ Held /\ app.at \in Databases
  BY DEF Data, Control, TypeOK
<1>2. Fresh'
  BY <1>1 DEF Fresh, IsChange
<1>3. Pending'
  BY <1>1 DEF Pending, IsChange
<1>4. Queued'
  BY <1>1 DEF Queued, IsChange
<1>5. Held'
  BY <1>1 DEF Held
<1>6. \A e, c, w : InQueue(e, c, w)' <=> InQueue(e, c, w)
  BY DEF InQueue, IsChange
<1>7. Forward
  BY <1>6 DEF Forward
<1> QED
  BY <1>2, <1>3, <1>4, <1>5, <1>7

(* The snapshot is imported. *)
LEMMA SnapshotData ==
  ASSUME Control, Data, NEW d \in Dirs, NEW c \in Importers, ImportSnapshot(d, c), UNCHANGED userVars
  PROVE  Data'
<1>0. /\ pc[d][c] = "snapshot" /\ Write(DestinationOf(c), files) /\ Goto(d, c, "waitDebezium")
      /\ msr' = msr /\ latest' = latest /\ importType' = importType /\ files' = files /\ queue' = queue
      /\ done' = done /\ app' = app /\ written' = written /\ ending' = ending
  BY DEF ImportSnapshot, msrVars, userVars, endVars
<1>1. TypeOK /\ Open /\ c \in Commands /\ pc[d][c] \in StepsOf(c) /\ c # ES
  BY <1>0, ImporterThere DEF Control
<1>2. c = IT \/ c = SR
  BY <1>0, <1>1, CommandNames, StepsFacts
<1>3. files \in SUBSET (1 .. written) /\ Carried
  BY <1>1 DEF Data, Fresh
<1>4. /\ db'[DestinationOf(c)] = db[DestinationOf(c)] \cup files
      /\ \A x \in Databases : db[x] \subseteq db'[x] /\ db'[x] \subseteq db[x] \cup files
      /\ \A e \in Dirs, s \in {"source", "target"} : slot'[e][s] = slot[e][s]
  BY <1>0, ImporterWrites
<1>5. Fresh' /\ Pending' /\ Queued' /\ Held' /\ Forward
  BY <1>0, <1>3, <1>4, ArrivalKeeps
<1>6. PcAt(d, c, "waitDebezium")
  BY <1>0, <1>1, GotoAt
<1>7. \A e \in Dirs : Exports(e)' => Exports(e)
  BY <1>0, <1>1, <1>6, CommandNames DEF Exports, PcAt
<1>8. ToTarget' /\ ToSource' /\ ToReplica'
  BY <1>0, <1>1, <1>3, <1>5, <1>7, ForwardCarried DEF Carried
<1>9. NothingLeft' /\ EventsLast' /\ BackAtSource'
  BY <1>0, <1>3, <1>4 DEF Carried, NothingLeft, EventsLast, BackAtSource, IsChange
<1>10. Applied'
  <2>1. \A k \in Importers : DestinationOf(k) \in Databases
    BY DEF DestinationOf, Databases, Importers
  <2> QED
    BY <1>0, <1>3, <1>4, <2>1 DEF Carried, Applied, IsChange
<1>11. Loaded'
  <2>1. DestinationOf(IT) = "target" /\ DestinationOf(SR) = "source-replica" /\ IT # SR
    BY DEF DestinationOf, IT, SR
  <2>2. db["target"] \subseteq db'["target"] /\ db["source-replica"] \subseteq db'["source-replica"]
    BY <1>4 DEF Databases
  <2>3. c = IT => files \subseteq db'["target"]
    BY <1>4, <2>1
  <2>4. c = SR => files \subseteq db'["source-replica"]
    BY <1>4, <2>1
  <2>5. /\ c # IT => pc'[0][IT] = pc[0][IT]
        /\ c # SR => pc'[0][SR] = pc[0][SR]
    BY <1>6, CommandNames, DirsFacts DEF PcAt
  <2>6. Loaded
    BY <1>3 DEF Carried
  <2>7. pc'[0][IT] \in {"waitDebezium", "stream"} => files \subseteq db'["target"]
    BY <2>2, <2>3, <2>5, <2>6 DEF Loaded
  <2>8. pc'[0][SR] \in {"waitDebezium", "stream"} => files \subseteq db'["source-replica"]
    BY <2>2, <2>4, <2>5, <2>6 DEF Loaded
  <2> QED
    BY <1>0, <2>2, <2>6, <2>7, <2>8 DEF Loaded
<1> QED
  BY <1>5, <1>8, <1>9, <1>10, <1>11 DEF Data, Carried

(* Streaming leaves no item out that the importer is to apply. *)
LEMMA NextItemFirst ==
  ASSUME TypeOK, NEW d \in Dirs, NEW c \in Importers, NextItem(d, c) # 0, NEW j \in DOMAIN queue[d],
         j > done[d][c], c = IS => queue[d][j].by = ET
  PROVE  NextItem(d, c) <= j
<1> DEFINE unread == {i \in DOMAIN queue[d] :
                        /\ i > done[d][c]
                        /\ c = "import data to source" /\ done[d][c] = 0
                             => queue[d][i].by = "export data from target"}
<1>1. queue[d] \in Seq(QueueItems)
  BY DataTypes DEF QueueItems
<1>2. DOMAIN queue[d] \subseteq Nat
  BY <1>1
<1>3. unread \subseteq DOMAIN queue[d] /\ j \in unread
  BY DEF IS, ET
<1>4. NextItem(d, c) = IF unread = {} THEN 0 ELSE CHOOSE i \in unread : \A k \in unread : i <= k
  BY DEF NextItem
<1> HIDE DEF unread
<1>5. \E i \in unread : \A k \in unread : i <= k
  <2>1. unread \in SUBSET Nat /\ unread # {}
    BY <1>2, <1>3
  <2> QED
    BY <2>1, Smallest
<1>6. \A k \in unread : NextItem(d, c) <= k
  BY <1>3, <1>4, <1>5
<1> QED
  BY <1>3, <1>6

(* The importer has dealt with one more item. *)
LEMMA AppliedNext ==
  ASSUME TypeOK, NEW d \in Dirs, NEW c \in Importers, NEW i, i = NextItem(d, c), i # 0,
         done' = [done EXCEPT ![d][c] = i], queue' = queue,
         \A x \in Databases : db[x] \subseteq db'[x], Applied,
         queue[d][i].event = "change" => queue[d][i].write \in db'[DestinationOf(c)]
  PROVE  Applied'
<1>1. i \in DOMAIN queue[d] /\ i \in Nat
  BY NextItemThere
<1>2. \A k \in Importers : DestinationOf(k) \in Databases
  BY DEF DestinationOf, Databases, Importers
<1>3. \A e \in Dirs, k \in Importers : done'[e][k] = IF e = d /\ k = c THEN i ELSE done[e][k]
  BY DEF TypeOK
<1>4. SUFFICES ASSUME NEW e \in Dirs, NEW k \in Importers, NEW j \in DOMAIN queue[e],
                      queue[e][j].event = "change", j <= done'[e][k], k = IS => queue[e][j].by = ET
               PROVE  queue[e][j].write \in db'[DestinationOf(k)]
  BY DEF Applied, IsChange
<1>5. CASE j <= done[e][k]
  <2>1. queue[e][j].write \in db[DestinationOf(k)]
    BY <1>4, <1>5 DEF Applied, IsChange
  <2> QED
    BY <1>2, <2>1
<1>6. CASE ~(j <= done[e][k])
  <2>1. e = d /\ k = c /\ j <= i
    BY <1>3, <1>4, <1>6
  <2>2. j \in Nat /\ done[d][c] \in Nat
    <3>1. queue[d] \in Seq(QueueItems)
      BY DataTypes DEF QueueItems
    <3>2. DOMAIN queue[d] \subseteq Nat
      BY <3>1
    <3> QED
      BY <2>1, <3>2 DEF TypeOK
  <2>3. i <= j
    BY <1>4, <1>6, <2>1, <2>2, NextItemFirst
  <2>4. j = i
    BY <1>1, <2>1, <2>2, <2>3
  <2> QED
    BY <1>4, <2>1, <2>4
<1> QED
  BY <1>5, <1>6

(* A change is applied. *)
LEMMA StreamChangeData ==
  ASSUME Control, Data, NEW d \in Dirs, NEW c \in Importers, StreamItem(d, c), UNCHANGED userVars,
         queue[d][NextItem(d, c)].event \notin CutoverEvents
  PROVE  Data'
<1>0. PICK i : i = NextItem(d, c)
  OBVIOUS
<1>1. /\ pc[d][c] = "stream" /\ i > 0 /\ done' = [done EXCEPT ![d][c] = i]
      /\ Write(DestinationOf(c), {queue[d][i].write}) /\ msr' = msr /\ pc' = pc
      /\ latest' = latest /\ importType' = importType /\ files' = files /\ queue' = queue
      /\ app' = app /\ written' = written /\ ending' = ending
  BY <1>0 DEF StreamItem, userVars, endVars
<1>2. TypeOK
  BY DEF Control
<1>3. i # 0 /\ i \in DOMAIN queue[d]
  <2>1. i # 0
    BY <1>1
  <2> QED
    BY <1>0, <1>2, <2>1, NextItemThere
<1>4. queue[d][i].event = "change"
  BY <1>0, <1>3, NoEventsBefore
<1>5. {queue[d][i].write} \in SUBSET (1 .. written)
  BY <1>3, <1>4 DEF Data, Fresh, IsChange
<1>6. /\ db'[DestinationOf(c)] = db[DestinationOf(c)] \cup {queue[d][i].write}
      /\ \A x \in Databases : db[x] \subseteq db'[x] /\ db'[x] \subseteq db[x] \cup {queue[d][i].write}
      /\ \A e \in Dirs, s \in {"source", "target"} : slot'[e][s] = slot[e][s]
  BY <1>1, ImporterWrites
<1>7. Fresh' /\ Pending' /\ Queued' /\ Held' /\ Forward
  BY <1>1, <1>5, <1>6, ArrivalKeeps
<1>8. ASSUME Open PROVE Carried'
  <2>1. Carried
    BY <1>8 DEF Data
  <2>2. \A e \in Dirs : Exports(e)' => Exports(e)
    BY <1>1 DEF Exports
  <2>3. ToTarget' /\ ToSource' /\ ToReplica'
    BY <1>1, <1>2, <1>7, <2>1, <2>2, ForwardCarried DEF Carried
  <2>4. NothingLeft' /\ EventsLast' /\ BackAtSource'
    BY <1>1, <1>6, <2>1 DEF Carried, NothingLeft, EventsLast, BackAtSource, IsChange
  <2>5. Applied'
    <3>1. Applied /\ queue[d][i].write \in db'[DestinationOf(c)]
      BY <1>6, <2>1 DEF Carried
    <3>2. \A x \in Databases : db[x] \subseteq db'[x]
      BY <1>6
    <3> QED
      BY <1>0, <1>1, <1>2, <1>3, <3>1, <3>2, AppliedNext
  <2>6. Loaded'
    <3>1. db["target"] \subseteq db'["target"] /\ db["source-replica"] \subseteq db'["source-replica"]
      BY <1>6 DEF Databases
    <3> QED
      BY <1>1, <2>1, <3>1 DEF Carried, Loaded
  <2> QED
    BY <2>3, <2>4, <2>5, <2>6 DEF Carried
<1>9. Open' => Open
  BY <1>1 DEF Open
<1> QED
  BY <1>7, <1>8, <1>9 DEF Data

(* A migration past its first iteration has come back from the target once. *)
LEMMA LaterIteration ==
  ASSUME Control, latest # 0
  PROVE  /\ "CutoverDetectedByTargetImporter" \in msr[0] /\ "CutoverToTargetRequested" \in msr[0]
         /\ "FallForwardEnabled" \notin msr[0] /\ "FallbackEnabled" \in msr[0]
<1>1. 0 \in Dirs /\ latest > 0 /\ 0 < latest
  BY DirsFacts, FbDirType, DirPositive
<1>2. Consistent(0, msr[0], latest)
  BY <1>1, RecordsConsistent
<1>3. "RestartDataMigrationSourceTargetNextIteration" \in msr[0]
  BY <1>1, <1>2 DEF Consistent, IterationFlags
<1>4. "CutoverToSourceRequested" \in msr[0]
  BY <1>2, <1>3 DEF Consistent, IterationFlags
<1>5. "FallbackEnabled" \in msr[0] /\ "CutoverProcessedByTargetImporter" \in msr[0]
  BY <1>2, <1>4 DEF Consistent, BackFlags
<1> QED
  BY <1>2, <1>5 DEF Consistent, ForwardFlags

(* Every change before the place an importer has come to was applied. *)
LEMMA AppliedBefore ==
  ASSUME TypeOK, NEW d \in Dirs, NEW c \in Importers, NEW i \in DOMAIN queue[d], Applied', EventsLast,
         done'[d][c] = i, queue' = queue, db' = db, queue[d][i].event \in CutoverEvents,
         NEW x, NEW w, InQueue(d, x, w), x = ES \/ x = ET, c = IS => x = ET,
         x = ET => queue[d][i].event # "cutover.target"
  PROVE  w \in db[DestinationOf(c)]
<1>1. PICK j \in DOMAIN queue[d] : queue[d][j].event = "change" /\ queue[d][j].by = x /\ queue[d][j].write = w
  BY DEF InQueue, IsChange
<1>2. queue[d][i].event # "change"
  BY DEF CutoverEvents
<1>3. ~(i < j)
  BY <1>1, <1>2 DEF EventsLast, IsChange
<1>4. i \in Nat /\ j \in Nat
  <2>1. queue[d] \in Seq(QueueItems)
    BY DataTypes DEF QueueItems
  <2> QED
    BY <1>1, <2>1
<1>5. j <= done'[d][c]
  BY <1>3, <1>4
<1> QED
  BY <1>1, <1>5 DEF Applied, IsChange

(* An importer at the cutover event has everything: the target, ... *)
LEMMA TargetReached ==
  ASSUME Control, Carried, NEW d \in Dirs, pc[d][IT] = "stream", NEW i \in DOMAIN queue[d], Applied',
         done'[d][IT] = i, queue' = queue, db' = db, queue[d][i].event = "cutover.target",
         app.at = "source", "CutoverToSourceRequested" \notin msr[d]
  PROVE  1 .. written \subseteq db["target"]
<1>1. TypeOK /\ d = latest /\ 0 \in Dirs /\ IT \in Importers /\ Consistent(d, msr[d], latest)
  BY Mates, DirsFacts, CommandNames, RecordsConsistent DEF Control
<1>2. DestinationOf(IT) = "target" /\ IT # IS /\ ES # ET
  BY DEF DestinationOf, IT, IS, ES, ET
<1>3. "CutoverToTargetRequested" \in msr[d]
  BY DEF Control, DirAt, DirectoryAt, EventsRequested
<1>4. slot[d]["source"].pending = {}
  BY <1>3 DEF Carried, NothingLeft
<1>5. Exports(d)
  BY <1>1, <1>3, ConsistentFacts DEF Exports
<1>6. files \subseteq db["target"]
  <2>1. CASE d = 0
    BY <2>1 DEF Carried, Loaded
  <2>2. CASE d # 0
    BY <1>1, <2>2, LaterIteration DEF Carried, Loaded
  <2> QED
    BY <2>1, <2>2
<1>7. ASSUME NEW w \in 1 .. written
      PROVE  w \in db["target"]
  <2>1. w \in db["target"] \/ w \in files \/ InQueue(d, ES, w)
    BY <1>1, <1>4, <1>5 DEF Carried, ToTarget
  <2>2. CASE InQueue(d, ES, w)
    <3>1. queue[d][i].event \in CutoverEvents /\ EventsLast
      BY DEF CutoverEvents, Carried
    <3>2. w \in db[DestinationOf(IT)]
      BY <1>1, <1>2, <2>2, <3>1, AppliedBefore
    <3> QED
      BY <1>2, <3>2
  <2> QED
    BY <1>6, <2>1, <2>2
<1> QED
  BY <1>7

(* ... the source ... *)
LEMMA SourceReached ==
  ASSUME Control, Carried, NEW d \in Dirs, pc[d][IS] = "stream", NEW i \in DOMAIN queue[d], Applied',
         done'[d][IS] = i, queue' = queue, db' = db, queue[d][i].event = "cutover.source",
         app.at = "target"
  PROVE  app.dir = d /\ 1 .. written \subseteq db["source"]
<1>1. TypeOK /\ d = FbDir /\ IS \in Importers /\ Consistent(d, msr[d], latest)
  BY Mates, CommandNames, RecordsConsistent DEF Control
<1>2. DestinationOf(IS) = "source" /\ ES # ET
  BY DEF DestinationOf, IS, ES, ET
<1>3. app.dir = d
  BY <1>1 DEF Control, AppPlace
<1>4. "CutoverToSourceRequested" \in msr[d]
  BY DEF Control, DirAt, DirectoryAt, EventsRequested
<1>5. slot[d]["target"].pending = {} /\ "FallbackEnabled" \in msr[d]
  BY <1>1, <1>4 DEF Carried, NothingLeft, Consistent, BackFlags
<1>6. ASSUME NEW w \in 1 .. written
      PROVE  w \in db["source"]
  <2>1. w \in db["source"] \/ InQueue(d, ET, w)
    BY <1>3, <1>5 DEF Carried, ToSource
  <2>2. CASE InQueue(d, ET, w)
    <3>1. queue[d][i].event \in CutoverEvents /\ EventsLast /\ queue[d][i].event # "cutover.target"
      BY DEF CutoverEvents, Carried
    <3>2. w \in db[DestinationOf(IS)]
      BY <1>1, <1>2, <2>2, <3>1, AppliedBefore
    <3> QED
      BY <1>2, <3>2
  <2> QED
    BY <2>1, <2>2
<1> QED
  BY <1>3, <1>6

(* ... and the source replica. *)
LEMMA ReplicaReached ==
  ASSUME Control, Carried, NEW i \in DOMAIN queue[0], pc[0][SR] = "stream", Applied',
         done'[0][SR] = i, queue' = queue, db' = db, queue[0][i].event = "cutover.source_replica",
         app.at = "target"
  PROVE  1 .. written \subseteq db["source-replica"]
<1>1. TypeOK /\ 0 \in Dirs /\ SR \in Importers
  BY CommandNames, DirsFacts DEF Control
<1>1a. Consistent(0, msr[0], latest)
  BY <1>1, RecordsConsistent
<1>2. DestinationOf(SR) = "source-replica" /\ ES # ET /\ SR # IS
  BY DEF DestinationOf, IS, SR, ES, ET
<1>3. "CutoverToSourceReplicaRequested" \in msr[0]
  BY <1>1 DEF Control, DirAt, DirectoryAt, EventsRequested
<1>4. /\ "FallForwardEnabled" \in msr[0] /\ "CutoverToTargetRequested" \in msr[0]
      /\ "ExportDataDone" \in msr[0]
  BY <1>1a, <1>3, ConsistentFacts DEF Consistent, OnwardFlags
<1>5. slot[0]["target"].pending = {} /\ slot[0]["source"].pending = {} /\ Exports(0)
  BY <1>1, <1>3, <1>4 DEF Carried, NothingLeft, Exports
<1>6. files \subseteq db["source-replica"]
  BY DEF Carried, Loaded
<1>7. ASSUME NEW w \in 1 .. written
      PROVE  w \in db["source-replica"]
  <2>1. w \in files \/ InQueue(0, ES, w) \/ InQueue(0, ET, w)
    BY <1>4, <1>5 DEF Carried, ToReplica
  <2>2. CASE InQueue(0, ES, w) \/ InQueue(0, ET, w)
    <3>1. queue[0][i].event \in CutoverEvents /\ EventsLast /\ queue[0][i].event # "cutover.target"
      BY DEF CutoverEvents, Carried
    <3>2. w \in db[DestinationOf(SR)]
      BY <1>1, <1>2, <2>2, <3>1, AppliedBefore
    <3> QED
      BY <1>2, <3>2
  <2> QED
    BY <1>6, <2>1, <2>2
<1> QED
  BY <1>7

(* The steps that change neither slots, queues, files nor databases. *)
LEMMA StillThere ==
  ASSUME Data, files' = files, queue' = queue, db' = db, slot' = slot, app'.at = app.at, written' = written
  PROVE  Fresh' /\ Pending' /\ Queued' /\ Held' /\ Forward
<1>1. Fresh' /\ Queued' /\ Held'
  BY DEF Data, Fresh, Queued, Held, IsChange
<1>2. Pending'
  BY DEF Data, Pending, IsChange
<1>3. \A e, c, w : InQueue(e, c, w)' <=> InQueue(e, c, w)
  BY DEF InQueue, IsChange
<1> QED
  BY <1>1, <1>2, <1>3 DEF Forward

(* An importer takes the cutover event. *)
LEMMA StreamEventData ==
  ASSUME Control, Data, NEW d \in Dirs, NEW c \in Importers, StreamItem(d, c), UNCHANGED userVars,
         NEW i, i = NextItem(d, c), queue[d][i].event \in CutoverEvents
  PROVE  Data'
<1>1. /\ pc[d][c] = "stream" /\ i > 0 /\ done' = [done EXCEPT ![d][c] = i]
      /\ db' = db /\ slot' = slot
      /\ latest' = latest /\ importType' = importType /\ files' = files /\ queue' = queue
      /\ app' = app /\ written' = written /\ ending' = ending
  BY DEF StreamItem, userVars, endVars
<1>2. /\ TypeOK /\ 0 \in Dirs /\ latest \in Dirs /\ app.dir \in Dirs /\ c \in Commands
      /\ (c = IT \/ c = IS \/ c = SR)
  BY DirsFacts, CommandNames DEF Control, TypeOK, MSRTypeOK
<1>3. i # 0 /\ i \in DOMAIN queue[d] /\ done'[d][c] = i
  <2>1. i # 0
    BY <1>1
  <2>2. done'[d][c] = i
    BY <1>1, <1>2 DEF TypeOK
  <2> QED
    BY <1>2, <2>1, <2>2, NextItemThere
<1>4. Fresh' /\ Pending' /\ Queued' /\ Held' /\ Forward
  BY <1>1, StillThere
<1>5. Open' => Open
  BY <1>1 DEF Open
<1>6. ASSUME Open PROVE Applied'
  <2>1. Applied /\ queue[d][i].event # "change"
    BY <1>6 DEF Data, Carried, CutoverEvents
  <2>2. \A x \in Databases : db[x] \subseteq db'[x]
    BY <1>1
  <2> QED
    BY <1>1, <1>2, <1>3, <2>1, <2>2, AppliedNext
<1>7. CASE ~OwnCutover(d, c, queue[d][i].event)
  <2>1. msr' = msr /\ pc' = pc
    BY <1>7 DEF StreamItem
  <2>2. ASSUME Open PROVE Carried'
    <3>1. Carried
      BY <2>2 DEF Data
    <3>2. NothingLeft' /\ EventsLast' /\ BackAtSource' /\ Loaded'
      BY <1>1, <2>1, <3>1 DEF Carried, NothingLeft, EventsLast, BackAtSource, Loaded, IsChange
    <3>3. \A e \in Dirs : Exports(e)' => Exports(e)
      BY <2>1 DEF Exports
    <3>4. ToTarget' /\ ToSource' /\ ToReplica'
      BY <1>1, <1>2, <1>4, <2>1, <3>1, <3>3, ForwardCarried DEF Carried
    <3> QED
      BY <1>6, <2>2, <3>2, <3>4 DEF Carried
  <2> QED
    BY <1>4, <1>5, <2>2 DEF Data
<1>8. CASE OwnCutover(d, c, queue[d][i].event)
  <2>1. Set(d, {DetectedBy(c)}) /\ Goto(d, c, "post") /\ queue[d][i].event = CutoverEvent(Role(d, c))
    BY <1>8, ImporterFlagFacts DEF StreamItem, OwnCutover
  <2>2. MsrAt(d, {DetectedBy(c)}) /\ PcAt(d, c, "post")
    BY <1>2, <2>1, SetAt, GotoAt
  <2>3. DetectedBy(c) \in {"CutoverDetectedByTargetImporter", "CutoverDetectedBySourceImporter",
                           "CutoverDetectedBySourceReplicaImporter"}
    BY <1>2, ImporterFlagFacts
  <2>4. \A e \in Dirs :
          /\ "CutoverToTargetRequested" \in msr'[e] <=> "CutoverToTargetRequested" \in msr[e]
          /\ "CutoverToSourceRequested" \in msr'[e] <=> "CutoverToSourceRequested" \in msr[e]
          /\ "CutoverToSourceReplicaRequested" \in msr'[e] <=> "CutoverToSourceReplicaRequested" \in msr[e]
          /\ "FallbackEnabled" \in msr'[e] <=> "FallbackEnabled" \in msr[e]
          /\ "FallForwardEnabled" \in msr'[e] <=> "FallForwardEnabled" \in msr[e]
          /\ "RestartDataMigrationSourceTargetNextIteration" \in msr'[e] <=>
               "RestartDataMigrationSourceTargetNextIteration" \in msr[e]
          /\ "ExportDataFromSourceStarted" \in msr'[e] <=> "ExportDataFromSourceStarted" \in msr[e]
          /\ "ExportDataDone" \in msr'[e] <=> "ExportDataDone" \in msr[e]
    BY <2>2, <2>3 DEF MsrAt
  <2>5. \A e \in Dirs :
          /\ "CutoverDetectedByTargetImporter" \in msr'[e] =>
               "CutoverDetectedByTargetImporter" \in msr[e] \/ (e = d /\ c = IT)
          /\ "CutoverDetectedBySourceImporter" \in msr'[e] =>
               "CutoverDetectedBySourceImporter" \in msr[e] \/ (e = d /\ c = IS)
          /\ "CutoverDetectedBySourceReplicaImporter" \in msr'[e] =>
               "CutoverDetectedBySourceReplicaImporter" \in msr[e] \/ (e = d /\ c = SR)
    <3>1. \A e \in Dirs : \A f \in msr'[e] : f \in msr[e] \/ (e = d /\ f = DetectedBy(c))
      BY <2>2 DEF MsrAt
    <3>2. /\ c = IT => DetectedBy(c) = "CutoverDetectedByTargetImporter"
          /\ c = IS => DetectedBy(c) = "CutoverDetectedBySourceImporter"
          /\ c = SR => DetectedBy(c) = "CutoverDetectedBySourceReplicaImporter"
      BY ImporterFlagFacts
    <3> QED
      BY <1>2, <3>1, <3>2
  <2>6. /\ c = IT => queue[d][i].event = "cutover.target"
        /\ c = IS => queue[d][i].event = "cutover.source"
        /\ c = SR => queue[d][i].event = "cutover.source_replica" /\ d = 0
    BY <1>1, <2>1, RoleFacts, EventFacts, Mates
  <2>7. ASSUME Open PROVE Carried'
    <3>1. Carried /\ Applied'
      BY <1>6, <2>7 DEF Data
    <3>2. NothingLeft'
      BY <1>1, <2>4, <3>1 DEF Carried, NothingLeft
    <3>3. EventsLast'
      BY <1>1, <3>1 DEF Carried, EventsLast, IsChange
    <3>4. BackAtSource'
      BY <1>1, <1>2, <2>4, <3>1 DEF Carried, BackAtSource
    <3>5. /\ c # ES /\ pc[d][c] = "stream"
          /\ \A e \in Dirs : pc'[e][ES] = pc[e][ES]
          /\ c # IT => pc'[0][IT] = pc[0][IT]
          /\ c # SR => pc'[0][SR] = pc[0][SR]
          /\ d # 0 => pc'[0][IT] = pc[0][IT] /\ pc'[0][SR] = pc[0][SR]
          /\ pc'[d][c] = "post"
      <4>1. c # ES
        BY <1>2 DEF ES, IT, IS, SR
      <4> QED
        BY <1>1, <1>2, <2>2, <4>1, CommandNames DEF PcAt
    <3>6. Loaded'
      <4>1. Loaded
        BY <3>1 DEF Carried
      <4>2. pc'[0][IT] \in {"waitDebezium", "stream"} => pc[0][IT] \in {"waitDebezium", "stream"}
        BY <3>5
      <4>3. pc'[0][SR] \in {"waitDebezium", "stream"} => pc[0][SR] \in {"waitDebezium", "stream"}
        BY <3>5
      <4>4. "CutoverDetectedByTargetImporter" \in msr'[0] =>
              \/ "CutoverDetectedByTargetImporter" \in msr[0]
              \/ pc[0][IT] = "stream"
        BY <1>1, <1>2, <2>5
      <4> QED
        BY <1>1, <4>1, <4>2, <4>3, <4>4 DEF Loaded
    <3>7. \A e \in Dirs : Exports(e)' <=> Exports(e)
      BY <2>4, <3>5 DEF Exports
    <3>8. \A e, k, w : InQueue(e, k, w)' <=> InQueue(e, k, w)
      BY <1>1 DEF InQueue, IsChange
    <3>9. ToTarget'
      <4>1. ASSUME app.at = "source", "CutoverToSourceRequested" \notin msr[latest],
                   "CutoverDetectedByTargetImporter" \in msr'[latest]
            PROVE  1 .. written \subseteq db["target"]
        <5>1. CASE "CutoverDetectedByTargetImporter" \in msr[latest]
          BY <3>1, <4>1, <5>1 DEF Carried, ToTarget
        <5>2. CASE latest = d /\ c = IT
          BY <1>1, <1>3, <2>6, <3>1, <4>1, <5>2, TargetReached
        <5> QED
          BY <1>2, <2>5, <4>1, <5>1, <5>2
      <4>2. Exports(latest)' <=> Exports(latest)
        BY <1>1, <1>2, <3>7 DEF Exports
      <4> QED
        BY <1>1, <1>2, <2>4, <3>1, <3>8, <4>1, <4>2 DEF Carried, ToTarget, Exports
    <3>10. ToSource'
      <4>1. ASSUME app.at = "target", "CutoverDetectedBySourceImporter" \in msr'[app.dir], "FallbackEnabled" \in msr[app.dir]
            PROVE  1 .. written \subseteq db["source"]
        <5>1. CASE "CutoverDetectedBySourceImporter" \in msr[app.dir]
          BY <3>1, <4>1, <5>1 DEF Carried, ToSource
        <5>2. CASE app.dir = d /\ c = IS
          BY <1>1, <1>3, <2>6, <3>1, <4>1, <5>2, SourceReached
        <5> QED
          BY <1>2, <2>5, <4>1, <5>1, <5>2
      <4> QED
        BY <1>1, <1>2, <2>4, <3>1, <3>8, <4>1 DEF Carried, ToSource
    <3>11. ToReplica'
      <4>1. ASSUME app.at = "target", "CutoverDetectedBySourceReplicaImporter" \in msr'[0]
            PROVE  1 .. written \subseteq db["source-replica"]
        <5>1. CASE "CutoverDetectedBySourceReplicaImporter" \in msr[0]
          BY <3>1, <4>1, <5>1 DEF Carried, ToReplica
        <5>2. CASE 0 = d /\ c = SR
          BY <1>1, <1>3, <2>6, <3>1, <4>1, <5>2, ReplicaReached
        <5> QED
          BY <1>2, <2>5, <4>1, <5>1, <5>2
      <4>2. Exports(0)' <=> Exports(0)
        BY <1>2, <3>7
      <4> QED
        BY <1>1, <1>2, <2>4, <3>1, <3>8, <4>1, <4>2 DEF Carried, ToReplica
    <3> QED
      BY <3>1, <3>2, <3>3, <3>4, <3>6, <3>9, <3>10, <3>11 DEF Carried
  <2> QED
    BY <1>4, <1>5, <2>7 DEF Data
<1> QED
  BY <1>7, <1>8

LEMMA StreamData ==
  ASSUME Control, Data, NEW d \in Dirs, NEW c \in Importers, StreamItem(d, c), UNCHANGED userVars
  PROVE  Data'
<1>1. CASE queue[d][NextItem(d, c)].event \notin CutoverEvents
  BY <1>1, StreamChangeData
<1>2. CASE queue[d][NextItem(d, c)].event \in CutoverEvents
  BY <1>2, StreamEventData
<1> QED
  BY <1>1, <1>2

(* Only commands and records change. *)
LEMMA SetLatestData ==
  ASSUME Control, Data, NEW d \in Dirs, NEW c \in Importers, SetLatestIteration(d, c), UNCHANGED userVars
  PROVE  Data'
<1>1. /\ SameData /\ pc[d][c] = "setLatest" /\ Goto(d, c, "setRecord") /\ latest' = d + 1
      /\ importType' = importType /\ msr' = msr
  BY DEF SetLatestIteration, NextIterationNo, SameData, userVars, endVars, dataVars
<1>2. TypeOK /\ c \in Commands /\ (c = IT \/ c = IS \/ c = SR) /\ 0 \in Dirs /\ app.dir \in Dirs
  BY CommandNames, DirsFacts DEF Control, TypeOK
<1>3. c = IS
  <2>1. pc[d][c] \in StepsOf(c)
    BY <1>2 DEF Control, DirAt, DirectoryAt
  <2> QED
    BY <1>1, <1>2, <2>1, StepsFacts
<1>4. /\ "RestartDataMigrationSourceTargetNextIteration" \in msr[d] /\ d < MaxIteration
      /\ d = FbDir /\ Open
  BY <1>1, <1>3, SettingUp
<1>5. d + 1 \in Dirs /\ (latest = d \/ latest = d + 1) /\ d + 1 > 0 /\ d + 1 # 0
  BY <1>4, NextNumber, DirPositive
<1>6. CASE latest = d + 1
  <2>1. MsrAt(d, {}) /\ "setRecord" \notin Streaming
    BY <1>1, NoFieldsAt DEF Streaming
  <2> QED
    BY <1>1, <1>6, <2>1, QuietImporterStep
<1>7. CASE latest = d
  <2>1. Carried
    BY <1>4 DEF Data
  <2>2. app.at # "source"
    <3>1. ~(d < latest)
      BY <1>7, DirsFacts
    <3> QED
      BY <1>4, <2>1, <3>1 DEF Carried, BackAtSource
  <2>3. PcAt(d, IS, "setRecord")
    BY <1>1, <1>2, <1>3, GotoAt
  <2>4. /\ \A e \in Dirs : pc'[e][ES] = pc[e][ES]
        /\ pc'[0][IT] = pc[0][IT] /\ pc'[0][SR] = pc[0][SR]
    <3>1. IS # ES /\ IS # IT /\ IS # SR
      BY DEF IS, ES, IT, SR
    <3> QED
      BY <1>2, <2>3, <3>1, CommandNames DEF PcAt
  <2>5. /\ files' = files /\ queue' = queue /\ done' = done /\ db' = db /\ slot' = slot
        /\ app' = app /\ written' = written /\ ending' = ending
    BY <1>1 DEF SameData
  <2>6. Fresh' /\ Pending' /\ Queued' /\ Held'
    BY <2>5, StillThere
  <2>7. NothingLeft' /\ EventsLast' /\ Applied' /\ Loaded'
    BY <1>1, <2>1, <2>4, <2>5 DEF Carried, NothingLeft, EventsLast, Applied, Loaded, IsChange
  <2>8. BackAtSource' /\ ToTarget'
    BY <2>2, <2>5 DEF BackAtSource, ToTarget
  <2>9. \A e, k, w : InQueue(e, k, w)' <=> InQueue(e, k, w)
    BY <2>5 DEF InQueue, IsChange
  <2>10. ToSource'
    BY <1>1, <2>1, <2>5, <2>9 DEF Carried, ToSource
  <2>11. ToReplica'
    <3>1. Exports(0)' <=> Exports(0)
      BY <1>1, <1>2, <2>4 DEF Exports
    <3>2. latest' # 0
      BY <1>1, <1>5
    <3> QED
      BY <1>1, <2>1, <2>5, <2>9, <3>1, <3>2 DEF Carried, ToReplica
  <2> QED
    BY <2>6, <2>7, <2>8, <2>10, <2>11 DEF Data, Carried
<1> QED
  BY <1>5, <1>6, <1>7

(* Fall-forward is enabled while the snapshot and queue still hold it all. *)
LEMMA EnableData ==
  ASSUME Control, Data, NEW d \in Dirs, NEW c \in Importers, EnableFallForward(d, c), UNCHANGED userVars
  PROVE  Data'
<1>1. /\ SameData /\ pc[d][c] = "enable" /\ Goto(d, c, "waitExport") /\ latest' = latest
      /\ importType' = importType /\ Set(d, {"FallForwardEnabled"})
  BY DEF EnableFallForward, SameData, userVars, endVars, dataVars
<1>2. /\ TypeOK /\ c \in Commands /\ (c = IT \/ c = IS \/ c = SR) /\ 0 \in Dirs
      /\ app.dir \in Dirs /\ latest \in Dirs
  BY CommandNames, DirsFacts DEF Control, TypeOK, MSRTypeOK
<1>3. c = SR /\ d = 0 /\ Open
  <2>1. pc[d][c] \in StepsOf(c)
    BY <1>2 DEF Control, DirAt, DirectoryAt
  <2>2. c = SR
    BY <1>1, <1>2, <2>1, StepsFacts
  <2> QED
    BY <1>1, <2>2, Mates, ImporterThere
<1>4. /\ files' = files /\ queue' = queue /\ done' = done /\ db' = db /\ slot' = slot
      /\ app' = app /\ written' = written /\ ending' = ending
  BY <1>1 DEF SameData
<1>5. PcAt(0, SR, "waitExport") /\ MsrAt(0, {"FallForwardEnabled"})
  BY <1>1, <1>2, <1>3, GotoAt, SetAt
<1>6. Carried
  BY <1>3 DEF Data
<1>7. "FallForwardEnabled" \in msr[0] \/ (latest = 0 /\ "CutoverToTargetRequested" \notin msr[0])
  <2>1. "CutoverToTargetRequested" \in msr[0] => "FallForwardEnabled" \in msr[0]
    BY <1>1, <1>3 DEF Control, Replica
  <2> QED
    BY <2>1, LaterIteration
<1>8. \A e \in Dirs : \A f : f # "FallForwardEnabled" => (f \in msr'[e] <=> f \in msr[e])
  BY <1>5 DEF MsrAt
<1>9. /\ \A e \in Dirs : pc'[e][ES] = pc[e][ES]
      /\ pc'[0][IT] = pc[0][IT] /\ pc'[0][SR] = "waitExport"
  <2>1. SR # ES /\ SR # IT
    BY DEF SR, ES, IT
  <2> QED
    BY <1>2, <1>5, <2>1, CommandNames DEF PcAt
<1>10. Fresh' /\ Pending' /\ Queued' /\ Held'
  BY <1>4, StillThere
<1>11. \A e \in Dirs :
         /\ "CutoverToTargetRequested" \in msr'[e] <=> "CutoverToTargetRequested" \in msr[e]
         /\ "CutoverToSourceRequested" \in msr'[e] <=> "CutoverToSourceRequested" \in msr[e]
         /\ "CutoverToSourceReplicaRequested" \in msr'[e] <=> "CutoverToSourceReplicaRequested" \in msr[e]
         /\ "FallbackEnabled" \in msr'[e] <=> "FallbackEnabled" \in msr[e]
         /\ "RestartDataMigrationSourceTargetNextIteration" \in msr'[e] <=>
              "RestartDataMigrationSourceTargetNextIteration" \in msr[e]
         /\ "ExportDataFromSourceStarted" \in msr'[e] <=> "ExportDataFromSourceStarted" \in msr[e]
         /\ "ExportDataDone" \in msr'[e] <=> "ExportDataDone" \in msr[e]
         /\ "CutoverDetectedByTargetImporter" \in msr'[e] <=> "CutoverDetectedByTargetImporter" \in msr[e]
         /\ "CutoverDetectedBySourceImporter" \in msr'[e] <=> "CutoverDetectedBySourceImporter" \in msr[e]
         /\ "CutoverDetectedBySourceReplicaImporter" \in msr'[e] <=>
              "CutoverDetectedBySourceReplicaImporter" \in msr[e]
  BY <1>8
<1>12. NothingLeft' /\ EventsLast' /\ Applied'
  BY <1>4, <1>6, <1>11 DEF Carried, NothingLeft, EventsLast, Applied, IsChange
<1>13. Loaded'
  BY <1>1, <1>2, <1>4, <1>6, <1>9, <1>11 DEF Carried, Loaded
<1>14. BackAtSource'
  BY <1>1, <1>2, <1>4, <1>6, <1>11 DEF Carried, BackAtSource
<1>15. \A e, k, w : InQueue(e, k, w)' <=> InQueue(e, k, w)
  BY <1>4 DEF InQueue, IsChange
<1>16. \A e \in Dirs : Exports(e)' <=> Exports(e)
  BY <1>9, <1>11 DEF Exports
<1>17. ToTarget'
  <2>1. Exports(latest)' <=> Exports(latest)
    BY <1>1, <1>2, <1>16 DEF Exports
  <2> QED
    BY <1>1, <1>2, <1>4, <1>6, <1>11, <1>15, <2>1 DEF Carried, ToTarget, Exports
<1>18. ToSource'
  BY <1>2, <1>4, <1>6, <1>11, <1>15 DEF Carried, ToSource
<1>19. ToReplica'
  <2>1. Exports(0)' <=> Exports(0)
    BY <1>2, <1>16
  <2> QED
    BY <1>2, <1>4, <1>6, <1>7, <1>11, <1>15, <2>1 DEF Carried, ToReplica
<1> QED
  BY <1>10, <1>12, <1>13, <1>14, <1>17, <1>18, <1>19 DEF Data, Carried

-----------------------------------------------------------------------------
(* The application *)

LEMMA StopAppData ==
  ASSUME Control, Data, StopApp
  PROVE  Data'
<1>1. /\ app' = [app EXCEPT !.up = FALSE] /\ msr' = msr /\ latest' = latest /\ pc' = pc
      /\ importType' = importType /\ files' = files /\ queue' = queue /\ done' = done /\ db' = db
      /\ slot' = slot /\ written' = written /\ ending' = ending
  BY DEF StopApp, msrVars, procVars, dataVars, endVars
<1>2. app'.at = app.at /\ app'.dir = app.dir /\ ~app'.up
  BY <1>1 DEF Control, TypeOK
<1>3. Fresh' /\ Pending' /\ Queued' /\ Held'
  BY <1>1, <1>2, StillThere
<1>4. ASSUME Open PROVE Carried'
  <2>1. Carried
    BY <1>4 DEF Data
  <2>2. NothingLeft' /\ EventsLast' /\ Applied' /\ Loaded'
    BY <1>1, <2>1 DEF Carried, NothingLeft, EventsLast, Applied, Loaded, IsChange
  <2>3. BackAtSource'
    BY <1>1, <1>2, <2>1 DEF Carried, BackAtSource
  <2>4. /\ \A e, k, w : InQueue(e, k, w)' <=> InQueue(e, k, w)
        /\ \A e : Exports(e)' <=> Exports(e)
    BY <1>1 DEF InQueue, IsChange, Exports
  <2>5. ToTarget'
    BY <1>1, <1>2, <2>1, <2>4 DEF Carried, ToTarget, Exports
  <2>6. ToSource'
    BY <1>1, <1>2, <2>1, <2>4 DEF Carried, ToSource
  <2>7. ToReplica'
    BY <1>1, <1>2, <2>1, <2>4 DEF Carried, ToReplica
  <2> QED
    BY <2>2, <2>3, <2>5, <2>6, <2>7 DEF Carried
<1>5. Open' => Open
  BY <1>1 DEF Open
<1> QED
  BY <1>3, <1>4, <1>5 DEF Data

(* While the application runs on a database, its exporter has a slot there. *)
LEMMA SourceIsCaptured ==
  ASSUME Control, Carried, Open, app.up, app.at = "source", Exports(latest),
         "CutoverToSourceRequested" \notin msr[latest]
  PROVE  /\ slot[latest]["source"].exists
         /\ "CutoverToTargetRequested" \notin msr[latest]
         /\ "CutoverDetectedByTargetImporter" \notin msr[latest]
<1>1. latest \in Dirs /\ Consistent(latest, msr[latest], latest)
  BY FbDirType, RecordsConsistent
<1>2. "CutoverToTargetRequested" \notin msr[latest]
  BY DEF Carried, BackAtSource
<1>3. /\ "CutoverDetectedBySourceExporter" \notin msr[latest]
      /\ "CutoverDetectedByTargetImporter" \notin msr[latest]
  BY <1>1, <1>2 DEF Consistent, ForwardFlags
<1>4. SourceExporterSlot(pc[latest][ES], msr[latest], slot[latest]["source"].exists, Open)
  BY <1>1 DEF Control, DirAt, ExportersAt
<1>5. slot[latest]["source"].exists
  BY <1>3, <1>4 DEF SourceExporterSlot, Exports
<1> QED
  BY <1>2, <1>3, <1>5

LEMMA RunningOnTarget ==
  ASSUME Control, Open, app.up, app.at = "target"
  PROVE  /\ app.dir = FbDir /\ app.dir \in Dirs
         /\ "CutoverToTargetRequested" \in msr[app.dir]
         /\ "CutoverToSourceRequested" \notin msr[app.dir]
         /\ "CutoverToSourceReplicaRequested" \notin msr[app.dir]
         /\ "CutoverDetectedBySourceImporter" \notin msr[app.dir]
         /\ "CutoverDetectedBySourceReplicaImporter" \notin msr[app.dir]
         /\ WayBack(msr[app.dir]) => slot[app.dir]["target"].exists
<1>1. /\ app.dir = FbDir /\ "CutoverProcessedByTargetImporter" \in msr[app.dir]
      /\ "CutoverToSourceRequested" \notin msr[app.dir]
      /\ "CutoverToSourceReplicaRequested" \notin msr[app.dir]
  BY DEF Control, AppPlace
<1>2. app.dir \in Dirs /\ Consistent(app.dir, msr[app.dir], latest)
  BY <1>1, FbDirType, RecordsConsistent
<1>3. "CutoverToTargetRequested" \in msr[app.dir]
  BY <1>1, <1>2, ConsistentFacts
<1>4. /\ "CutoverDetectedBySourceImporter" \notin msr[app.dir]
      /\ "CutoverDetectedBySourceReplicaImporter" \notin msr[app.dir]
  BY <1>1, <1>2 DEF Consistent, BackFlags, OnwardFlags
<1>5. WayBack(msr[app.dir]) => slot[app.dir]["target"].exists
  <2>1. TargetIsCaptured
    BY TargetHasSlot
  <2>2. WayBack(msr[app.dir]) => {"FallbackEnabled", "FallForwardEnabled"} \cap msr[app.dir] # {}
    BY DEF WayBack
  <2> QED
    BY <1>2, <2>1, <2>2 DEF TargetIsCaptured, Open
<1> QED
  BY <1>1, <1>2, <1>3, <1>4, <1>5

LEMMA ReplicaCaptured ==
  ASSUME Control, Carried, Open, app.up, app.at # "source-replica", Exports(0),
         "FallForwardEnabled" \in msr[0] \/ (latest = 0 /\ "CutoverToTargetRequested" \notin msr[0])
  PROVE  slot[0][app.at].exists
<1>1. latest = 0 /\ 0 \in Dirs
  BY LaterIteration, DirsFacts
<1>2. Consistent(0, msr[0], latest) /\ app.at \in Databases
  BY <1>1, RecordsConsistent DEF Control, TypeOK
<1>3. CASE app.at = "source"
  <2>1. "CutoverToSourceRequested" \notin msr[0]
    BY <1>2, ConsistentFacts DEF Consistent, BackFlags, ForwardFlags
  <2> QED
    BY <1>1, <1>3, <2>1, SourceIsCaptured
<1>4. CASE app.at = "target"
  <2>1. app.dir = 0
    BY <1>1, <1>4, RunningOnTarget DEF FbDir
  <2>2. WayBack(msr[0])
    BY <1>4, <2>1, RunningOnTarget DEF WayBack
  <2> QED
    BY <1>4, <2>1, <2>2, RunningOnTarget
<1> QED
  BY <1>2, <1>3, <1>4 DEF Databases

LEMMA WriteLands ==
  ASSUME TypeOK, NEW n, Write(app.at, {n})
  PROVE  /\ db'[app.at] = db[app.at] \cup {n}
         /\ \A x \in Databases : x # app.at => db'[x] = db[x]
         /\ \A e \in Dirs, s \in {"source", "target"} :
              /\ slot'[e][s].exists = slot[e][s].exists
              /\ slot'[e][s].pending = IF s = app.at /\ slot[e][s].exists
                                       THEN slot[e][s].pending \cup {n} ELSE slot[e][s].pending
<1>1. /\ db \in [Databases -> SUBSET Writes] /\ app.at \in Databases
      /\ slot \in [Dirs -> [{"source", "target"} -> [exists : BOOLEAN, pending : SUBSET Writes]]]
  BY DEF TypeOK
<1>2. /\ db'[app.at] = db[app.at] \cup {n}
      /\ \A x \in Databases : x # app.at => db'[x] = db[x]
  BY <1>1 DEF Write
<1>3. slot' = [e \in Dirs |-> [s \in {"source", "target"} |->
                IF s = app.at /\ slot[e][s].exists
                THEN [slot[e][s] EXCEPT !.pending = @ \cup {n}]
                ELSE slot[e][s]]]
  BY DEF Write
<1>4. ASSUME NEW e \in Dirs, NEW s \in {"source", "target"}
      PROVE  /\ slot'[e][s].exists = slot[e][s].exists
             /\ slot'[e][s].pending = IF s = app.at /\ slot[e][s].exists
                                      THEN slot[e][s].pending \cup {n} ELSE slot[e][s].pending
  <2>1. slot'[e][s] = IF s = app.at /\ slot[e][s].exists
                      THEN [slot[e][s] EXCEPT !.pending = @ \cup {n}] ELSE slot[e][s]
    BY <1>3
  <2>2. slot[e][s] \in [exists : BOOLEAN, pending : SUBSET Writes]
    BY <1>1
  <2> QED
    BY <2>1, <2>2
<1> QED
  BY <1>2, <1>4

LEMMA OneSlotThere ==
  ASSUME Control, NEW d \in Dirs, NEW e \in Dirs, NEW s \in {"source", "target"},
         slot[d][s].exists, slot[e][s].exists
  PROVE  d = e /\ (s = "source" => d = latest) /\ (s = "target" => d = FbDir)
BY DEF Control, Owners

(* A new write lands in the one slot on its database. *)
LEMMA AppWritesData ==
  ASSUME Control, Data, AppWrites
  PROVE  Data'
<1>0. PICK n : n = written + 1
  OBVIOUS
<1>1. /\ app.up /\ written' = n /\ Write(app.at, {n}) /\ msr' = msr /\ latest' = latest /\ pc' = pc
      /\ importType' = importType /\ files' = files /\ queue' = queue /\ done' = done
      /\ app' = app /\ ending' = ending
  BY <1>0 DEF AppWrites, msrVars, procVars, endVars
<1>2. TypeOK /\ written \in Nat /\ app.at \in Databases /\ 0 \in Dirs /\ latest \in Dirs
  <2>1. TypeOK /\ app \in [at : Databases, up : BOOLEAN, dir : Dirs] /\ written \in 0 .. MaxWrites
    BY DEF Control, TypeOK
  <2>2. latest \in Dirs
    BY <2>1 DEF TypeOK, MSRTypeOK
  <2>3. written \in Nat
    BY <2>1
  <2>4. app.at \in Databases
    BY <2>1
  <2> QED
    BY <2>1, <2>2, <2>3, <2>4, DirsFacts
<1>3. /\ db'[app.at] = db[app.at] \cup {n}
      /\ \A x \in Databases : x # app.at => db'[x] = db[x]
      /\ \A e \in Dirs, s \in {"source", "target"} :
           /\ slot'[e][s].exists = slot[e][s].exists
           /\ slot'[e][s].pending = IF s = app.at /\ slot[e][s].exists
                                    THEN slot[e][s].pending \cup {n} ELSE slot[e][s].pending
  BY <1>1, <1>2, WriteLands
<1>4. /\ 1 .. n = (1 .. written) \cup {n} /\ n \notin 1 .. written
  BY <1>0, <1>2
<1>5. \A x \in Databases : db[x] \subseteq db'[x] /\ db'[x] \subseteq db[x] \cup {n}
  BY <1>3
<1>6. Fresh /\ Pending /\ Queued /\ Held
  BY DEF Data
<1>7. Fresh'
  <2>1. \A e \in Dirs, s \in {"source", "target"} : slot'[e][s].pending \subseteq slot[e][s].pending \cup {n}
    BY <1>3
  <2>2. /\ files \subseteq 1 .. n /\ \A x \in Databases : db'[x] \subseteq 1 .. n
    BY <1>4, <1>5, <1>6 DEF Fresh
  <2>3. \A e \in Dirs, s \in {"source", "target"} : slot'[e][s].pending \subseteq 1 .. n
    BY <1>4, <1>6, <2>1 DEF Fresh
  <2>4. \A e \in Dirs : \A j \in DOMAIN queue[e] : queue[e][j].event = "change" => queue[e][j].write \in 1 .. n
    BY <1>4, <1>6 DEF Fresh, IsChange
  <2> QED
    BY <1>1, <2>2, <2>3, <2>4 DEF Fresh, IsChange
<1>8. Pending'
  <2>1. \A e \in Dirs, s \in {"source", "target"} : ~slot'[e][s].exists => slot'[e][s].pending = {}
    <3>1. SUFFICES ASSUME NEW e \in Dirs, NEW s \in {"source", "target"}, ~slot'[e][s].exists
                   PROVE  slot'[e][s].pending = {}
      OBVIOUS
    <3>2. ~slot[e][s].exists
      BY <1>3, <3>1
    <3>3. slot'[e][s].pending = slot[e][s].pending
      BY <1>3, <3>2
    <3> QED
      BY <1>6, <3>2, <3>3 DEF Pending
  <2>2. ASSUME NEW d \in Dirs, NEW s \in {"source", "target"}, NEW w \in slot'[d][s].pending
        PROVE  /\ \A e \in Dirs, t \in {"source", "target"} : w \in slot'[e][t].pending => d = e /\ s = t
               /\ w \notin files
               /\ \A e \in Dirs : \A j \in DOMAIN queue[e] :
                    queue[e][j].event = "change" => queue[e][j].write # w
    <3>1. CASE w = n
      <4>1. w \notin files /\ \A e \in Dirs : \A j \in DOMAIN queue[e] :
              queue[e][j].event = "change" => queue[e][j].write # w
        BY <1>4, <1>6, <3>1 DEF Fresh, IsChange
      <4>2. \A e \in Dirs, t \in {"source", "target"} : w \notin slot[e][t].pending
        BY <1>4, <1>6, <3>1 DEF Fresh
      <4>3. \A e \in Dirs, t \in {"source", "target"} :
              w \in slot'[e][t].pending => t = app.at /\ slot[e][t].exists
        BY <1>3, <4>2
      <4>4. \A e \in Dirs, t \in {"source", "target"} : w \in slot'[e][t].pending => d = e /\ s = t
        BY <4>3, OneSlotThere
      <4> QED
        BY <4>1, <4>4
    <3>2. CASE w # n
      <4>1. \A e \in Dirs, t \in {"source", "target"} : w \in slot'[e][t].pending => w \in slot[e][t].pending
        <5>1. SUFFICES ASSUME NEW e \in Dirs, NEW t \in {"source", "target"}, w \in slot'[e][t].pending
                       PROVE  w \in slot[e][t].pending
          OBVIOUS
        <5>2. CASE t = app.at /\ slot[e][t].exists
          <6>1. slot'[e][t].pending = slot[e][t].pending \cup {n}
            BY <1>3, <5>2
          <6> QED
            BY <3>2, <5>1, <6>1
        <5>3. CASE ~(t = app.at /\ slot[e][t].exists)
          <6>1. slot'[e][t].pending = slot[e][t].pending
            BY <1>3, <5>3
          <6> QED
            BY <5>1, <6>1
        <5> QED
          BY <5>2, <5>3
      <4> QED
        BY <1>6, <4>1 DEF Pending, IsChange
    <3> QED
      BY <3>1, <3>2
  <2> QED
    BY <1>1, <2>1, <2>2 DEF Pending, IsChange
<1>9. Queued'
  BY <1>1, <1>6 DEF Queued, IsChange
<1>10. Held'
  BY <1>1, <1>3, <1>4, <1>6 DEF Held
<1>11. ASSUME Open PROVE Carried'
  <2>1. Carried
    BY <1>11 DEF Data
  <2>2. NothingLeft'
    <3>1. SUFFICES ASSUME NEW d \in Dirs
                   PROVE  /\ "CutoverToTargetRequested" \in msr[d] => slot'[d]["source"].pending = {}
                          /\ "CutoverToSourceRequested" \in msr[d] \/ "CutoverToSourceReplicaRequested" \in msr[d] =>
                               slot'[d]["target"].pending = {}
      BY <1>1 DEF NothingLeft
    <3>2. /\ "CutoverToTargetRequested" \in msr[d] => slot[d]["source"].pending = {}
          /\ "CutoverToSourceRequested" \in msr[d] \/ "CutoverToSourceReplicaRequested" \in msr[d] =>
               slot[d]["target"].pending = {}
      BY <2>1 DEF Carried, NothingLeft
    <3>3. ASSUME "CutoverToTargetRequested" \in msr[d], app.at = "source", slot[d]["source"].exists
          PROVE  FALSE
      <4>1. d = latest
        BY <3>3, OneSlotThere
      <4>2. "CutoverToSourceRequested" \in msr[d]
        BY <1>1, <2>1, <3>3, <4>1 DEF Carried, BackAtSource
      <4>3. "CutoverProcessedBySourceExporter" \in msr[d]
        BY <4>2, RecordsConsistent DEF Consistent, BackFlags
      <4>4. SourceExporterSlot(pc[d][ES], msr[d], slot[d]["source"].exists, Open)
        BY DEF Control, DirAt, ExportersAt
      <4> QED
        BY <3>3, <4>3, <4>4 DEF SourceExporterSlot
    <3>4. ASSUME "CutoverToSourceRequested" \in msr[d] \/ "CutoverToSourceReplicaRequested" \in msr[d],
                 app.at = "target", slot[d]["target"].exists
          PROVE  FALSE
      BY <1>1, <1>11, <3>4, OneSlotThere, RunningOnTarget
    <3> QED
      BY <1>3, <3>2, <3>3, <3>4
  <2>3. EventsLast'
    BY <1>1, <2>1 DEF Carried, EventsLast, IsChange
  <2>4. Applied'
    <3>1. \A k \in Importers : DestinationOf(k) \in Databases
      BY DEF DestinationOf, Databases, Importers
    <3> QED
      BY <1>1, <1>5, <2>1, <3>1 DEF Carried, Applied, IsChange
  <2>5. Loaded'
    <3>1. db["target"] \subseteq db'["target"] /\ db["source-replica"] \subseteq db'["source-replica"]
      BY <1>5 DEF Databases
    <3> QED
      BY <1>1, <2>1, <3>1 DEF Carried, Loaded
  <2>6. BackAtSource'
    BY <1>1, <2>1 DEF Carried, BackAtSource
  <2>7. /\ \A e, k, w : InQueue(e, k, w)' <=> InQueue(e, k, w)
        /\ \A e : Exports(e)' <=> Exports(e)
        /\ \A e \in Dirs, s \in {"source", "target"} : slot[e][s].pending \subseteq slot'[e][s].pending
        /\ \A e \in Dirs, s \in {"source", "target"} :
             s = app.at /\ slot[e][s].exists => n \in slot'[e][s].pending
    BY <1>1, <1>3 DEF InQueue, IsChange, Exports
  <2>7a. db["target"] \subseteq db'["target"] /\ db["source"] \subseteq db'["source"]
         /\ db["source-replica"] \subseteq db'["source-replica"]
    BY <1>5 DEF Databases
  <2>8. ToTarget'
    <3>1. SUFFICES ASSUME app.at = "source", "CutoverToSourceRequested" \notin msr[latest]
                   PROVE  /\ Exports(latest) => \A w \in 1 .. n :
                               \/ w \in db'["target"] \/ w \in files \/ InQueue(latest, ES, w)
                               \/ w \in slot'[latest]["source"].pending
                          /\ "CutoverDetectedByTargetImporter" \notin msr[latest]
      BY <1>1, <2>7 DEF ToTarget, Exports, InQueue, IsChange
    <3>2. ASSUME Exports(latest), NEW w \in 1 .. written
          PROVE  \/ w \in db'["target"] \/ w \in files \/ InQueue(latest, ES, w)
                 \/ w \in slot'[latest]["source"].pending
      <4>1. \/ w \in db["target"] \/ w \in files \/ InQueue(latest, ES, w)
            \/ w \in slot[latest]["source"].pending
        BY <2>1, <3>1, <3>2 DEF Carried, ToTarget
      <4> QED
        BY <1>2, <2>7, <2>7a, <4>1
    <3>3. ASSUME Exports(latest)
          PROVE  n \in slot'[latest]["source"].pending
      <4>1. slot[latest]["source"].exists
        BY <1>1, <1>11, <2>1, <3>1, <3>3, SourceIsCaptured
      <4> QED
        BY <1>2, <2>7, <3>1, <4>1
    <3>4. "CutoverDetectedByTargetImporter" \notin msr[latest]
      <4>1. "CutoverToTargetRequested" \notin msr[latest]
        BY <1>1, <2>1, <3>1 DEF Carried, BackAtSource
      <4> QED
        BY <1>2, <4>1, RecordsConsistent DEF Consistent, ForwardFlags
    <3> QED
      BY <1>4, <3>2, <3>3, <3>4
  <2>9. ToSource'
    <3>1. SUFFICES ASSUME app.at = "target", "FallbackEnabled" \in msr[app.dir]
                   PROVE  /\ \A w \in 1 .. n :
                               \/ w \in db'["source"] \/ InQueue(app.dir, ET, w)
                               \/ w \in slot'[app.dir]["target"].pending
                          /\ "CutoverDetectedBySourceImporter" \notin msr[app.dir]
      BY <1>1, <2>7 DEF ToSource, InQueue, IsChange
    <3>2. /\ app.dir \in Dirs /\ "CutoverDetectedBySourceImporter" \notin msr[app.dir]
          /\ slot[app.dir]["target"].exists
      BY <1>1, <1>11, <3>1, RunningOnTarget DEF WayBack
    <3>3. ASSUME NEW w \in 1 .. written
          PROVE  \/ w \in db'["source"] \/ InQueue(app.dir, ET, w)
                 \/ w \in slot'[app.dir]["target"].pending
      <4>1. w \in db["source"] \/ InQueue(app.dir, ET, w) \/ w \in slot[app.dir]["target"].pending
        BY <2>1, <3>1, <3>3 DEF Carried, ToSource
      <4> QED
        BY <2>7, <2>7a, <3>2, <4>1
    <3>4. n \in slot'[app.dir]["target"].pending
      BY <2>7, <3>1, <3>2
    <3> QED
      BY <1>4, <3>2, <3>3, <3>4
  <2>10. ToReplica'
    <3>1. ASSUME app.at # "source-replica", Exports(0),
                 "FallForwardEnabled" \in msr[0] \/ (latest = 0 /\ "CutoverToTargetRequested" \notin msr[0])
          PROVE  \A w \in 1 .. n :
                   \/ w \in files \/ InQueue(0, ES, w) \/ InQueue(0, ET, w)
                   \/ w \in slot'[0]["source"].pending \/ w \in slot'[0]["target"].pending
      <4>1. ASSUME NEW w \in 1 .. written
            PROVE  \/ w \in files \/ InQueue(0, ES, w) \/ InQueue(0, ET, w)
                   \/ w \in slot'[0]["source"].pending \/ w \in slot'[0]["target"].pending
        <5>1. \/ w \in files \/ InQueue(0, ES, w) \/ InQueue(0, ET, w)
              \/ w \in slot[0]["source"].pending \/ w \in slot[0]["target"].pending
          BY <2>1, <3>1, <4>1 DEF Carried, ToReplica
        <5> QED
          BY <1>2, <2>7, <5>1
      <4>2. slot[0][app.at].exists
        BY <1>1, <1>11, <2>1, <3>1, ReplicaCaptured
      <4>3. app.at = "source" \/ app.at = "target"
        BY <1>2, <3>1 DEF Databases
      <4>4. n \in slot'[0]["source"].pending \/ n \in slot'[0]["target"].pending
        BY <1>2, <2>7, <4>2, <4>3
      <4> QED
        BY <1>4, <4>1, <4>4
    <3>2. ASSUME app.at = "target", "CutoverDetectedBySourceReplicaImporter" \in msr[0]
          PROVE  FALSE
      <4>1. "FallForwardEnabled" \in msr[0]
        BY <1>2, <3>2, RecordsConsistent DEF Consistent, OnwardFlags
      <4>2. latest = 0
        BY <4>1, LaterIteration
      <4>3. app.dir = 0
        BY <1>1, <1>11, <3>2, <4>2, RunningOnTarget DEF FbDir
      <4> QED
        BY <1>1, <1>11, <3>2, <4>3, RunningOnTarget
    <3> QED
      BY <1>1, <2>7, <3>1, <3>2 DEF ToReplica
  <2> QED
    BY <2>2, <2>3, <2>4, <2>5, <2>6, <2>8, <2>9, <2>10 DEF Carried
<1>12. Open' => Open
  BY <1>1 DEF Open
<1> QED
  BY <1>7, <1>8, <1>9, <1>10, <1>11, <1>12 DEF Data

(* The application moves: the queues and the databases are as they were. *)
LEMMA MoveKeeps ==
  ASSUME Data, Carried,
         msr' = msr, latest' = latest, pc' = pc, importType' = importType, files' = files, queue' = queue,
         done' = done, db' = db, slot' = slot, written' = written
  PROVE  /\ Fresh' /\ Pending' /\ Queued' /\ NothingLeft' /\ EventsLast' /\ Applied' /\ Loaded'
         /\ \A e, k, w : InQueue(e, k, w)' <=> InQueue(e, k, w)
         /\ \A e : Exports(e)' <=> Exports(e)
<1>1. Fresh' /\ Pending' /\ Queued'
  BY DEF Data, Fresh, Pending, Queued, IsChange
<1>2. NothingLeft' /\ EventsLast' /\ Applied' /\ Loaded'
  BY DEF Carried, NothingLeft, EventsLast, Applied, Loaded, IsChange
<1>3. /\ \A e, k, w : InQueue(e, k, w)' <=> InQueue(e, k, w)
      /\ \A e : Exports(e)' <=> Exports(e)
  BY DEF InQueue, IsChange, Exports
<1> QED
  BY <1>1, <1>2, <1>3

(* A completed cutover has carried everything over: to the target, ... *)
LEMMA MoveToTarget ==
  ASSUME Control, Data, Carried, NEW d \in Dirs, d = app.dir, app.at = "source",
         GetCutoverStatus(d) = COMPLETED, GetCutoverToSourceStatus(d) = NOT_INITIATED
  PROVE  /\ 1 .. written \subseteq db["target"] /\ 1 .. written \subseteq db["source"]
         /\ "CutoverDetectedBySourceReplicaImporter" \notin msr[0]
<1>1. "CutoverProcessedByTargetImporter" \in msr[d] /\ "CutoverToSourceRequested" \notin msr[d]
  BY StatusFacts
<1>2. "CutoverToTargetRequested" \in msr[d] /\ "CutoverDetectedByTargetImporter" \in msr[d]
  BY <1>1, RecordsConsistent DEF Consistent, ForwardFlags
<1>3. d = latest
  BY <1>1, <1>2, CutoverPlace
<1>4. 1 .. written \subseteq db["target"]
  BY <1>1, <1>2, <1>3 DEF Carried, ToTarget
<1>5. 1 .. written \subseteq db["source"]
  BY DEF Data, Held
<1>6. "CutoverDetectedBySourceReplicaImporter" \notin msr[0]
  <2>1. 0 \in Dirs /\ "CutoverToSourceReplicaRequested" \notin msr[0]
    BY DirsFacts DEF Control, AppPlace
  <2> QED
    BY <2>1, RecordsConsistent DEF Consistent, OnwardFlags
<1> QED
  BY <1>4, <1>5, <1>6

(* ... to the source, ... *)
LEMMA MoveToSource ==
  ASSUME Control, Data, Carried, NEW d \in Dirs, d = app.dir, app.at = "target",
         GetCutoverToSourceStatus(d) = COMPLETED
  PROVE  /\ 1 .. written \subseteq db["target"] /\ 1 .. written \subseteq db["source"]
         /\ "CutoverToTargetRequested" \in msr[latest] => "CutoverToSourceRequested" \in msr[latest]
         /\ latest > 0 => "ExportDataFromSourceStarted" \in msr[latest]
         /\ \A e \in Dirs : "RestartDataMigrationSourceTargetNextIteration" \in msr[e] => e < latest
<1>1. /\ "CutoverToSourceRequested" \in msr[d] /\ "CutoverToSourceProcessedBySourceImporter" \in msr[d]
      /\ isNextIterationStartedIfRequired(d)
  BY DEF GetCutoverToSourceStatus, NOT_INITIATED, INITIATED, COMPLETED
<1>2. Consistent(d, msr[d], latest)
  BY RecordsConsistent
<1>3. /\ "CutoverDetectedBySourceImporter" \in msr[d] /\ "FallbackEnabled" \in msr[d]
      /\ "ExportDataFromSourceStarted" \in msr[d] /\ "CutoverToTargetRequested" \in msr[d]
  BY <1>1, <1>2 DEF Consistent, BackFlags, ForwardFlags
<1>4. 1 .. written \subseteq db["source"]
  BY <1>3 DEF Carried, ToSource
<1>5. 1 .. written \subseteq db["target"]
  BY DEF Data, Held
<1>6. /\ d = FbDir /\ latest \in Dirs /\ latest \in Nat /\ d \in Nat /\ d <= latest /\ latest <= d + 1
      /\ FbDir < latest => "CutoverToTargetRequested" \notin msr[latest]
  BY FbDirType, DirsFacts DEF Control, AppPlace
<1>7. CASE d = latest
  <2>1. \A e \in Dirs : "RestartDataMigrationSourceTargetNextIteration" \in msr[e] => e < latest
    <3>1. SUFFICES ASSUME NEW e \in Dirs, "RestartDataMigrationSourceTargetNextIteration" \in msr[e], ~(e < latest)
                   PROVE  FALSE
      OBVIOUS
    <3>2. ~(e > latest)
      BY <3>1 DEF Control, DirAt, FutureAt
    <3>3. e = d
      BY <1>6, <1>7, <3>1, <3>2, DirsFacts
    <3>4. "NextIterationInitialized" \in msr[d]
      BY <1>1, <3>1, <3>3 DEF isNextIterationStartedIfRequired
    <3>5. d < latest
      BY <1>2, <3>4 DEF Consistent, IterationFlags
    <3> QED
      BY <1>6, <1>7, <3>5
  <2> QED
    BY <1>1, <1>3, <1>4, <1>5, <1>7, <2>1
<1>8. CASE d # latest
  <2>1. d < latest /\ latest = d + 1
    BY <1>6, <1>8
  <2>2. "CutoverToTargetRequested" \notin msr[latest]
    BY <1>6, <2>1
  <2>3. "RestartDataMigrationSourceTargetNextIteration" \in msr[d]
    BY <1>2, <2>1 DEF Consistent, IterationFlags
  <2>4. "ExportDataFromSourceStarted" \in msr[latest]
    BY <1>1, <2>1, <2>3 DEF isNextIterationStartedIfRequired
  <2>5. \A e \in Dirs : "RestartDataMigrationSourceTargetNextIteration" \in msr[e] => e < latest
    <3>1. SUFFICES ASSUME NEW e \in Dirs, "RestartDataMigrationSourceTargetNextIteration" \in msr[e], ~(e < latest)
                   PROVE  FALSE
      OBVIOUS
    <3>2. ~(e > latest)
      BY <3>1 DEF Control, DirAt, FutureAt
    <3>3. e = latest
      BY <1>6, <3>1, <3>2, DirsFacts
    <3>4. Consistent(latest, msr[latest], latest)
      BY <1>6, RecordsConsistent
    <3>5. "CutoverToSourceRequested" \in msr[latest]
      BY <3>1, <3>3, <3>4 DEF Consistent, IterationFlags
    <3>6. "CutoverToTargetRequested" \in msr[latest]
      BY <3>4, <3>5 DEF Consistent, BackFlags, ForwardFlags
    <3> QED
      BY <2>2, <3>6
  <2> QED
    BY <1>4, <1>5, <2>2, <2>4, <2>5
<1> QED
  BY <1>7, <1>8

(* ... to the source replica. *)
LEMMA MoveToReplica ==
  ASSUME Control, Data, Carried, NEW d \in Dirs, d = app.dir, app.at = "target",
         getCutoverToSourceReplicaStatus(d) = COMPLETED
  PROVE  1 .. written \subseteq db["source-replica"]
<1>1. /\ "CutoverToSourceReplicaRequested" \in msr[d]
      /\ "CutoverToSourceReplicaProcessedBySRImporter" \in msr[d]
  BY DEF getCutoverToSourceReplicaStatus, NOT_INITIATED, INITIATED, COMPLETED
<1>2. "CutoverDetectedBySourceReplicaImporter" \in msr[d] /\ d = 0
  BY <1>1, RecordsConsistent DEF Consistent, OnwardFlags, IterationFlags
<1> QED
  BY <1>2 DEF Carried, ToReplica

LEMMA MoveAppData ==
  ASSUME Control, Data, MoveApp
  PROVE  Data'
<1>d. PICK d : d = app.dir
  OBVIOUS
<1>1. /\ Open /\ msr' = msr /\ latest' = latest /\ pc' = pc /\ importType' = importType /\ files' = files
      /\ queue' = queue /\ done' = done /\ db' = db /\ slot' = slot /\ written' = written
      /\ \/ /\ app.at = "source" /\ GetCutoverStatus(d) = COMPLETED
            /\ GetCutoverToSourceStatus(d) = NOT_INITIATED
            /\ app' = [app EXCEPT !.at = "target", !.up = TRUE]
         \/ /\ app.at = "target" /\ GetCutoverToSourceStatus(d) = COMPLETED
            /\ app' = [app EXCEPT !.at = "source", !.up = TRUE]
         \/ /\ app.at = "target" /\ getCutoverToSourceReplicaStatus(d) = COMPLETED
            /\ app' = [app EXCEPT !.at = "source-replica", !.up = TRUE]
  BY <1>d DEF MoveApp, Open, msrVars, procVars, dataVars
<1>2. app \in [at : Databases, up : BOOLEAN, dir : Dirs] /\ d \in Dirs /\ app'.dir = d
  BY <1>1, <1>d DEF Control, TypeOK
<1>3. Carried
  BY <1>1 DEF Data
<1>4. /\ Fresh' /\ Pending' /\ Queued' /\ NothingLeft' /\ EventsLast' /\ Applied' /\ Loaded'
      /\ \A e, k, w : InQueue(e, k, w)' <=> InQueue(e, k, w)
      /\ \A e : Exports(e)' <=> Exports(e)
  BY <1>1, <1>3, MoveKeeps
<1>5. ToReplica /\ (app.at # "source-replica")
  BY <1>1, <1>3 DEF Carried
<1>6. ASSUME app'.at # "source-replica",
             app'.at = "target" => "CutoverDetectedBySourceReplicaImporter" \notin msr[0]
      PROVE  ToReplica'
  BY <1>1, <1>4, <1>5, <1>6 DEF ToReplica, Exports
<1>7. CASE app.at = "source" /\ GetCutoverStatus(d) = COMPLETED
           /\ GetCutoverToSourceStatus(d) = NOT_INITIATED /\ app' = [app EXCEPT !.at = "target", !.up = TRUE]
  <2>1. app'.at = "target"
    BY <1>2, <1>7
  <2>2. /\ 1 .. written \subseteq db["target"] /\ 1 .. written \subseteq db["source"]
        /\ "CutoverDetectedBySourceReplicaImporter" \notin msr[0]
    BY <1>2, <1>3, <1>7, <1>d, MoveToTarget
  <2>3. Held' /\ BackAtSource' /\ ToTarget' /\ ToSource'
    BY <1>1, <2>1, <2>2 DEF Held, BackAtSource, ToTarget, ToSource
  <2>4. ToReplica'
    BY <1>6, <2>1, <2>2
  <2> QED
    BY <1>4, <2>3, <2>4 DEF Data, Carried
<1>8. CASE app.at = "target" /\ GetCutoverToSourceStatus(d) = COMPLETED
           /\ app' = [app EXCEPT !.at = "source", !.up = TRUE]
  <2>1. app'.at = "source"
    BY <1>2, <1>8
  <2>2. /\ 1 .. written \subseteq db["target"] /\ 1 .. written \subseteq db["source"]
        /\ "CutoverToTargetRequested" \in msr[latest] => "CutoverToSourceRequested" \in msr[latest]
        /\ latest > 0 => "ExportDataFromSourceStarted" \in msr[latest]
        /\ \A e \in Dirs : "RestartDataMigrationSourceTargetNextIteration" \in msr[e] => e < latest
    BY <1>2, <1>3, <1>8, <1>d, MoveToSource
  <2>3. Held' /\ ToTarget' /\ ToSource'
    BY <1>1, <2>1, <2>2 DEF Held, ToTarget, ToSource
  <2>4. BackAtSource'
    BY <1>1, <2>1, <2>2 DEF BackAtSource
  <2>5. ToReplica'
    BY <1>6, <2>1
  <2> QED
    BY <1>4, <2>3, <2>4, <2>5 DEF Data, Carried
<1>9. CASE app.at = "target" /\ getCutoverToSourceReplicaStatus(d) = COMPLETED
           /\ app' = [app EXCEPT !.at = "source-replica", !.up = TRUE]
  <2>1. app'.at = "source-replica"
    BY <1>2, <1>9
  <2>2. 1 .. written \subseteq db["source-replica"]
    BY <1>2, <1>3, <1>9, <1>d, MoveToReplica
  <2>3. Held' /\ BackAtSource' /\ ToTarget' /\ ToSource' /\ ToReplica'
    BY <1>1, <2>1, <2>2 DEF Held, BackAtSource, ToTarget, ToSource, ToReplica
  <2> QED
    BY <1>4, <2>3 DEF Data, Carried
<1> QED
  BY <1>1, <1>7, <1>8, <1>9

(* A cutover is requested, in the record of directory d. *)
LEMMA RequestData ==
  ASSUME Control, Data, Open, NEW d \in Dirs, NEW fs \in SUBSET RequestFields, MsrAt(d, fs),
         ~app.up, app' = [app EXCEPT !.dir = d], NothingLeft',
         app.at # "source" => app.dir = d /\ "FallbackEnabled" \notin fs /\ "CutoverToTargetRequested" \notin fs,
         app.at = "source" => /\ "RestartDataMigrationSourceTargetNextIteration" \notin fs
                              /\ "CutoverToSourceRequested" \notin fs,
         UNCHANGED <<exportType, latest, procVars, dataVars, written, endVars>>
  PROVE  Data'
<1>1. /\ latest' = latest /\ pc' = pc /\ importType' = importType /\ files' = files
      /\ queue' = queue /\ done' = done /\ db' = db /\ slot' = slot /\ written' = written
  BY DEF procVars, dataVars
<1>2. /\ app'.at = app.at /\ app'.up = app.up /\ (app.at # "source" => app'.dir = app.dir)
      /\ 0 \in Dirs /\ latest \in Dirs /\ app.dir \in Dirs
  BY DirsFacts, FbDirType DEF Control, TypeOK
<1>3. \A e \in Dirs : \A f : f \notin RequestFields => (f \in msr'[e] <=> f \in msr[e])
  BY DEF MsrAt
<1>4. \A e \in Dirs :
         /\ "FallForwardEnabled" \in msr'[e] <=> "FallForwardEnabled" \in msr[e]
         /\ "ExportDataFromSourceStarted" \in msr'[e] <=> "ExportDataFromSourceStarted" \in msr[e]
         /\ "ExportDataDone" \in msr'[e] <=> "ExportDataDone" \in msr[e]
         /\ "CutoverDetectedByTargetImporter" \in msr'[e] <=> "CutoverDetectedByTargetImporter" \in msr[e]
         /\ "CutoverDetectedBySourceImporter" \in msr'[e] <=> "CutoverDetectedBySourceImporter" \in msr[e]
         /\ "CutoverDetectedBySourceReplicaImporter" \in msr'[e] <=>
              "CutoverDetectedBySourceReplicaImporter" \in msr[e]
  BY <1>3 DEF RequestFields, PlaceFlags
<1>5. \A e \in Dirs : msr[e] \subseteq msr'[e] /\ msr'[e] \subseteq msr[e] \cup fs
  BY MsrGrows
<1>6. Carried
  BY DEF Data
<1>7. Fresh' /\ Pending' /\ Queued' /\ Held'
  BY <1>1, <1>2, StillThere
<1>8. EventsLast' /\ Applied' /\ Loaded'
  BY <1>1, <1>2, <1>4, <1>6 DEF Carried, EventsLast, Applied, Loaded, IsChange
<1>9. BackAtSource'
  BY <1>1, <1>2, <1>4, <1>5, <1>6 DEF Carried, BackAtSource
<1>10. /\ \A e, k, w : InQueue(e, k, w)' <=> InQueue(e, k, w)
       /\ \A e \in Dirs : Exports(e)' <=> Exports(e)
  BY <1>1, <1>4 DEF InQueue, IsChange, Exports
<1>11. ToTarget'
  BY <1>1, <1>2, <1>4, <1>5, <1>6, <1>10 DEF Carried, ToTarget, Exports
<1>12. ToSource'
  BY <1>1, <1>2, <1>4, <1>5, <1>6, <1>10 DEF Carried, ToSource
<1>13. ToReplica'
  BY <1>1, <1>2, <1>4, <1>5, <1>6, <1>10 DEF Carried, ToReplica, Exports
<1> QED
  BY <1>7, <1>8, <1>9, <1>11, <1>12, <1>13 DEF Data, Carried

LEMMA CutoverToTargetData ==
  ASSUME Control, Data, NEW b \in BOOLEAN, InitiateCutoverToTarget(b)
  PROVE  Data'
<1>d. PICK d : d = latest
  OBVIOUS
<1>fs. PICK fs : fs = {"CutoverToTargetRequested"} \cup IF b THEN {"FallbackEnabled"} ELSE {}
  OBVIOUS
<1>1. /\ ~app.up /\ app.at = "source" /\ Open /\ slot[d]["source"].pending = {}
      /\ Set(d, fs) /\ app' = [app EXCEPT !.dir = d]
      /\ UNCHANGED <<exportType, latest, procVars, dataVars, written, endVars>>
  BY <1>d, <1>fs, ResolveFacts DEF InitiateCutoverToTarget, Open, Drained
<1>2. d \in Dirs /\ TypeOK
  BY <1>d, FbDirType DEF Control
<1>3. MsrAt(d, fs)
  BY <1>1, <1>2, SetAt
<1>4. fs = {"CutoverToTargetRequested"} \/ fs = {"CutoverToTargetRequested", "FallbackEnabled"}
  BY <1>fs
<1>5. /\ fs \in SUBSET RequestFields /\ "RestartDataMigrationSourceTargetNextIteration" \notin fs
      /\ "CutoverToSourceRequested" \notin fs /\ "CutoverToSourceReplicaRequested" \notin fs
  BY <1>4 DEF RequestFields, PlaceFlags
<1>6. NothingLeft'
  <2>1. slot' = slot /\ NothingLeft
    BY <1>1 DEF dataVars, Data, Carried
  <2> QED
    BY <1>1, <1>3, <1>5, <2>1 DEF NothingLeft, MsrAt
<1> QED
  BY <1>1, <1>2, <1>3, <1>5, <1>6, RequestData

LEMMA CutoverToSourceData ==
  ASSUME Control, Data, NEW b \in BOOLEAN, InitiateCutoverToSource(b)
  PROVE  Data'
<1>d. PICK d : d = FbDir
  OBVIOUS
<1>fs. PICK fs : fs = {"CutoverToSourceRequested"} \cup
                      IF b THEN {"RestartDataMigrationSourceTargetNextIteration"} ELSE {}
  OBVIOUS
<1>1. /\ ~app.up /\ app.at = "target" /\ Open /\ slot[d]["target"].pending = {}
      /\ Set(d, fs) /\ app' = [app EXCEPT !.dir = d]
      /\ UNCHANGED <<exportType, latest, procVars, dataVars, written, endVars>>
  BY <1>d, <1>fs, ResolveFacts DEF InitiateCutoverToSource, Open, Drained
<1>2. d \in Dirs /\ TypeOK /\ app.dir = d
  BY <1>1, <1>d, FbDirType DEF Control, AppPlace
<1>3. MsrAt(d, fs)
  BY <1>1, <1>2, SetAt
<1>4. \/ fs = {"CutoverToSourceRequested"}
      \/ fs = {"CutoverToSourceRequested", "RestartDataMigrationSourceTargetNextIteration"}
  BY <1>fs
<1>5. /\ fs \in SUBSET RequestFields /\ "CutoverToTargetRequested" \notin fs
      /\ "FallbackEnabled" \notin fs /\ "CutoverToSourceReplicaRequested" \notin fs
  BY <1>4 DEF RequestFields, PlaceFlags
<1>6. NothingLeft'
  <2>1. slot' = slot /\ NothingLeft
    BY <1>1 DEF dataVars, Data, Carried
  <2> QED
    BY <1>1, <1>3, <1>5, <2>1 DEF NothingLeft, MsrAt
<1>7. app.at # "source"
  BY <1>1
<1> QED
  BY <1>1, <1>2, <1>3, <1>5, <1>6, <1>7, RequestData

LEMMA CutoverToReplicaData ==
  ASSUME Control, Data, InitiateCutoverToSourceReplica
  PROVE  Data'
<1>fs. PICK fs : fs = {"CutoverToSourceReplicaRequested"}
  OBVIOUS
<1>1. /\ ~app.up /\ app.at = "target" /\ Open /\ slot[0]["target"].pending = {}
      /\ GetCutoverStatus(0) = COMPLETED /\ "FallForwardEnabled" \in msr[0]
      /\ Set(0, fs) /\ app' = [app EXCEPT !.dir = 0]
      /\ UNCHANGED <<exportType, latest, procVars, dataVars, written, endVars>>
  BY <1>fs DEF InitiateCutoverToSourceReplica, Open, Drained
<1>2. 0 \in Dirs /\ TypeOK /\ Consistent(0, msr[0], latest)
  BY DirsFacts, RecordsConsistent DEF Control
<1>3. MsrAt(0, fs)
  BY <1>1, <1>2, SetAt
<1>4. "CutoverProcessedByTargetImporter" \in msr[0]
  BY <1>1, StatusFacts
<1>5. "CutoverToTargetRequested" \in msr[0] /\ "CutoverToSourceRequested" \notin msr[0]
  BY <1>1, <1>2, <1>4, ConsistentFacts DEF Consistent, ForwardFlags, BackFlags
<1>6. app.dir = 0 /\ app.at # "source"
  BY <1>1, <1>2, <1>5, CutoverPlace DEF Control, AppPlace
<1>7. /\ fs \in SUBSET RequestFields /\ "CutoverToTargetRequested" \notin fs
      /\ "FallbackEnabled" \notin fs /\ "CutoverToSourceRequested" \notin fs
  BY <1>fs DEF RequestFields, PlaceFlags
<1>8. NothingLeft'
  <2>1. slot' = slot /\ NothingLeft
    BY <1>1 DEF dataVars, Data, Carried
  <2> QED
    BY <1>1, <1>3, <1>7, <2>1 DEF NothingLeft, MsrAt
<1> QED
  BY <1>1, <1>2, <1>3, <1>6, <1>7, <1>8, RequestData

(* --start-clean: nothing has been exported. *)
LEMMA StartCleanData ==
  ASSUME Control, Data, StartClean
  PROVE  Data'
<1>g. PICK g : g = msr[0] \ {"ExportDataDone"}
  OBVIOUS
<1>1. /\ latest = 0 /\ Open /\ dataDir[0] = "partial"
      /\ pc' = [pc EXCEPT ![0] = [x \in Commands |-> IF x = ES THEN "init" ELSE "off"]]
      /\ msr' = [msr EXCEPT ![0] = g] /\ files' = {} /\ queue' = [queue EXCEPT ![0] = <<>>]
      /\ db' = [db EXCEPT !["target"] = {}, !["source-replica"] = {}]
      /\ latest' = latest /\ importType' = importType /\ slot' = slot
      /\ app' = app /\ written' = written /\ ending' = ending
  BY <1>g DEF StartClean, Open, userVars, endVars, ES
<1>2. /\ TypeOK /\ 0 \in Dirs /\ DirAt(0) /\ Consistent(0, msr[0], latest) /\ latest \in Nat
      /\ app.at \in Databases
  BY DirsFacts, RecordsConsistent, LatestFacts DEF Control, TypeOK
<1>3. pc'[0][ES] = "init" /\ pc'[0][IT] = "off" /\ pc'[0][SR] = "off"
  <2>1. ES # IT /\ ES # SR /\ ES \in Commands /\ IT \in Commands /\ SR \in Commands
    BY CommandNames DEF ES, IT, SR
  <2> QED
    BY <1>1, <1>2, <2>1 DEF TypeOK
<1>4. msr'[0] = g /\ \A e \in Dirs : e # 0 => msr'[e] = msr[e]
  BY <1>1, <1>2 DEF TypeOK, MSRTypeOK
<1>5. "ExportDataFromSourceStarted" \notin msr[0]
  BY <1>1, <1>2 DEF DirAt, DirectoryAt, StatusFile
<1>6. /\ "CutoverToTargetRequested" \notin msr[0] /\ "CutoverDetectedByTargetImporter" \notin msr[0]
      /\ "CutoverToSourceReplicaRequested" \notin msr[0]
  BY <1>2, <1>5, <1>g, CleanRecord
<1>7. app.at = "source"
  BY <1>6 DEF Control, AppPlace
<1>8. \A e \in Dirs : queue'[e] = <<>>
  <2>1. queue'[0] = <<>>
    BY <1>1, <1>2 DEF TypeOK
  <2>2. \A e \in Dirs : e # 0 => e > latest
    BY <1>1, DirPositive
  <2>3. \A e \in Dirs : e # 0 => queue[e] = <<>>
    BY <2>2 DEF Control, DirAt, FutureAt
  <2>4. \A e \in Dirs : e # 0 => queue'[e] = queue[e]
    BY <1>1, <1>2 DEF TypeOK
  <2> QED
    BY <2>1, <2>3, <2>4
<1>9. \A e \in Dirs : DOMAIN queue'[e] = {}
  <2>1. DOMAIN <<>> = {}
    OBVIOUS
  <2> QED
    BY <1>8, <2>1
<1>10. db'["source"] = db["source"] /\ \A x \in Databases : db'[x] \subseteq db[x]
  BY <1>1, <1>2 DEF TypeOK, Databases
<1>11. Fresh'
  BY <1>1, <1>9, <1>10 DEF Data, Fresh
<1>12. Pending' /\ Queued'
  BY <1>1, <1>9 DEF Data, Pending, Queued
<1>13. Held'
  BY <1>1, <1>7, <1>10 DEF Data, Held
<1>14. Carried
  BY <1>1 DEF Data
<1>15. \A e \in Dirs : msr'[e] \subseteq msr[e]
  BY <1>4, <1>g
<1>16. NothingLeft' /\ EventsLast' /\ Applied'
  BY <1>1, <1>9, <1>14, <1>15 DEF Carried, NothingLeft, EventsLast, Applied
<1>17. Loaded'
  BY <1>1, <1>2, <1>3, <1>6, <1>14, <1>15 DEF Carried, Loaded
<1>18. BackAtSource'
  <2>1. ~(latest > 0)
    BY <1>1, <1>2
  <2>2. "CutoverToTargetRequested" \notin msr'[0]
    BY <1>2, <1>6, <1>15
  <2> QED
    BY <1>1, <1>14, <1>15, <2>1, <2>2 DEF Carried, BackAtSource
<1>19. ~Exports(0)'
  <2>1. "ExportDataDone" \notin msr'[0]
    BY <1>4, <1>g
  <2> QED
    BY <1>3, <2>1 DEF Exports, WithSlot
<1>20. ToTarget' /\ ToSource' /\ ToReplica'
  <2>1. "CutoverDetectedByTargetImporter" \notin msr'[0]
    BY <1>2, <1>6, <1>15
  <2> QED
    BY <1>1, <1>7, <1>19, <2>1 DEF ToTarget, ToSource, ToReplica, Exports
<1> QED
  BY <1>11, <1>12, <1>13, <1>16, <1>17, <1>18, <1>20 DEF Data, Carried

(* What 'end migration' does to the data. *)
LEMMA EndingData ==
  ASSUME Data, ~Open', db' = db, app' = app, written' = written, files' \subseteq files,
         \A e \in Dirs : queue'[e] = queue[e] \/ queue'[e] = <<>>,
         \A e \in Dirs, s \in {"source", "target"} : slot'[e][s] = slot[e][s] \/ slot'[e][s] = NoSlot
  PROVE  Data'
<1>1. \A e \in Dirs, s \in {"source", "target"} :
        /\ slot'[e][s].pending \subseteq slot[e][s].pending
        /\ ~slot'[e][s].exists => slot'[e][s].pending = {}
  <2>1. NoSlot.pending = {}
    BY DEF NoSlot
  <2> QED
    BY <2>1 DEF Data, Pending
<1>2. \A e \in Dirs : \A j \in DOMAIN queue'[e] : j \in DOMAIN queue[e] /\ queue'[e][j] = queue[e][j]
  <2>1. DOMAIN <<>> = {}
    OBVIOUS
  <2> QED
    BY <2>1
<1>3. Fresh'
  <2>1. Fresh
    BY DEF Data
  <2>2. \A e \in Dirs, s \in {"source", "target"} : slot'[e][s].pending \subseteq 1 .. written
    BY <1>1, <2>1 DEF Fresh
  <2>3. \A e \in Dirs : \A j \in DOMAIN queue'[e] :
          queue'[e][j].event = "change" => queue'[e][j].write \in 1 .. written
    BY <1>2, <2>1 DEF Fresh, IsChange
  <2> QED
    BY <2>1, <2>2, <2>3 DEF Fresh, IsChange
<1>4. Pending'
  <2>1. Pending
    BY DEF Data
  <2>2. ASSUME NEW e \in Dirs, NEW s \in {"source", "target"}, NEW w \in slot'[e][s].pending
        PROVE  /\ \A f \in Dirs, t \in {"source", "target"} : w \in slot'[f][t].pending => e = f /\ s = t
               /\ w \notin files'
               /\ \A f \in Dirs : \A j \in DOMAIN queue'[f] :
                    queue'[f][j].event = "change" => queue'[f][j].write # w
    <3>1. w \in slot[e][s].pending
      BY <1>1, <2>2
    <3> QED
      BY <1>1, <1>2, <2>1, <3>1 DEF Pending, IsChange
  <2> QED
    BY <1>1, <2>2 DEF Pending, IsChange
<1>5. Queued'
  <2>1. Queued
    BY DEF Data
  <2> QED
    BY <1>2, <2>1 DEF Queued, IsChange
<1>6. Held'
  BY DEF Data, Held
<1> QED
  BY <1>3, <1>4, <1>5, <1>6 DEF Data

LEMMA EndMigrationData ==
  ASSUME Control, Data, EndMigration
  PROVE  Data'
<1>1. /\ ending' = AtDir(EndDirs) /\ files' = files
      /\ queue' = queue /\ db' = db /\ slot' = slot /\ app' = app /\ written' = written
  BY DEF EndMigration, RunEndMigration, msrVars, dataVars
<1>2. ~Open'
  <2>1. AtDir(EndDirs).step = "stop"
    BY DEF AtDir
  <2> QED
    BY <1>1, <2>1 DEF Open
<1> QED
  BY <1>1, <1>2, EndingData

(* A slot that is gone, and the others. *)
LEMMA OneSlotGone ==
  ASSUME TypeOK, NEW d \in Dirs, NEW x \in {"source", "target"},
         slot' = slot \/ slot' = [slot EXCEPT ![d][x] = NoSlot]
  PROVE  \A e \in Dirs, s \in {"source", "target"} : slot'[e][s] = slot[e][s] \/ slot'[e][s] = NoSlot
<1>1. CASE slot' = slot
  BY <1>1
<1>2. CASE slot' = [slot EXCEPT ![d][x] = NoSlot]
  <2>1. PICK E, V : E = {"source", "target"} /\ V = SlotValue
    OBVIOUS
  <2>2. slot \in [Dirs -> [E -> V]]
    BY <2>1 DEF TypeOK, SlotValue
  <2>3. \A e \in Dirs, s \in E : slot'[e][s] = IF e = d /\ s = x THEN NoSlot ELSE slot[e][s]
    BY <1>2, <2>1, <2>2
  <2> QED
    BY <2>1, <2>3
<1> QED
  BY <1>1, <1>2

LEMMA EndStepData ==
  ASSUME Control, Data, EndMigrationStep, UNCHANGED <<app, written>>
  PROVE  Data'
<1>d. PICK d : d = ending.dir
  OBVIOUS
<1>1. TypeOK /\ d \in Dirs
  BY <1>d DEF Control, TypeOK, EndTypeOK
<1>2. app' = app /\ written' = written
  OBVIOUS
<1>3. CASE StopVoyagerCommands
  <2>1. files' = files /\ queue' = queue /\ db' = db /\ slot' = slot /\ EndGoto("source")
    BY <1>3 DEF StopVoyagerCommands, dataVars
  <2>2. ~Open'
    BY <2>1, EndGotoFacts DEF EndSteps
  <2> QED
    BY <1>2, <2>1, <2>2, EndingData
<1>4. CASE CleanupSourceDB
  <2>1. /\ files' = files /\ queue' = queue /\ db' = db /\ EndGoto("target")
        /\ slot' = slot \/ slot' = [slot EXCEPT ![d]["source"] = NoSlot]
    BY <1>4, <1>d DEF CleanupSourceDB
  <2>2. ~Open'
    BY <2>1, EndGotoFacts DEF EndSteps
  <2>3. \A e \in Dirs, s \in {"source", "target"} : slot'[e][s] = slot[e][s] \/ slot'[e][s] = NoSlot
    BY <1>1, <2>1, OneSlotGone
  <2> QED
    BY <1>2, <2>1, <2>2, <2>3, EndingData
<1>5. CASE CleanupTargetDBs
  <2>1. /\ files' = files /\ queue' = queue /\ db' = db /\ EndGoto("clean")
        /\ slot' = slot \/ slot' = [slot EXCEPT ![d]["target"] = NoSlot]
    BY <1>5, <1>d DEF CleanupTargetDBs
  <2>2. ~Open'
    BY <2>1, EndGotoFacts DEF EndSteps
  <2>3. \A e \in Dirs, s \in {"source", "target"} : slot'[e][s] = slot[e][s] \/ slot'[e][s] = NoSlot
    BY <1>1, <2>1, OneSlotGone
  <2> QED
    BY <1>2, <2>1, <2>2, <2>3, EndingData
<1>6. CASE CleanupExportDir
  <2>1. /\ db' = db /\ slot' = slot /\ files' \subseteq files
        /\ queue' = [queue EXCEPT ![d] = <<>>]
        /\ EndGoto("ended") \/ EndGoto("remove")
    BY <1>6, <1>d DEF CleanupExportDir
  <2>2. ~Open'
    BY <2>1, EndGotoFacts DEF EndSteps
  <2>3. \A e \in Dirs : queue'[e] = queue[e] \/ queue'[e] = <<>>
    BY <1>1, <2>1 DEF TypeOK
  <2> QED
    BY <1>2, <2>1, <2>2, <2>3, EndingData
<1>7. CASE RemoveIterationDir
  <2>1. /\ files' = files /\ queue' = queue /\ db' = db /\ slot' = slot
        /\ ending' = AtDir(EndDirs \ {ending.dir})
    BY <1>7 DEF RemoveIterationDir, dataVars
  <2>2. ~Open'
    <3>1. AtDir(EndDirs \ {ending.dir}).step = "stop"
      BY DEF AtDir
    <3> QED
      BY <2>1, <3>1 DEF Open
  <2> QED
    BY <1>2, <2>1, <2>2, EndingData
<1> QED
  BY <1>3, <1>4, <1>5, <1>6, <1>7 DEF EndMigrationStep

LEMMA KillEndData ==
  ASSUME Control, Data, KillEndMigration
  PROVE  Data'
<1>1. /\ ending' = [ending EXCEPT !.step = "killed"] /\ files' = files /\ queue' = queue /\ db' = db
      /\ slot' = slot /\ app' = app /\ written' = written
  BY DEF KillEndMigration, dataVars
<1>2. ~Open'
  BY <1>1 DEF Open, Control, TypeOK, EndTypeOK
<1> QED
  BY <1>1, <1>2, EndingData

-----------------------------------------------------------------------------
(* Every step *)

LEMMA ExporterData ==
  ASSUME Control, Data, NEW d \in Dirs, NEW c \in Exporters,
         ExporterStep(d, c) \/ NextIterationTimeout(d, c), UNCHANGED userVars
  PROVE  Data'
<1>1. CASE ExportInit(d, c)
  BY <1>1, ExportInitData
<1>2. CASE CreateReplicationSlot(d, c)
  BY <1>2, SlotCreatedData
<1>3. CASE \/ SaveSlotName(d, c) \/ ExportSnapshot(d, c) \/ SetDataIsExported(d, c)
           \/ StartDebezium(d, c) \/ DebeziumConnects(d, c) \/ HandleSnapshotComplete(d, c)
           \/ UpdateCutoverDetectedFlag(d, c) \/ MarkProcessedByExporter(d, c)
  BY <1>3, ExporterStepsData
<1>4. CASE ExportChange(d, c)
  BY <1>4, ChangeData
<1>5. CASE SwitchOperation(d, c)
  BY <1>5, SwitchData
<1>6. CASE DeleteReplicationSlot(d, c)
  BY <1>6, SlotDroppedData
<1>7. CASE StartFurtherAfterExport(d, c) \/ NextIterationReady(d, c) \/ NextIterationTimeout(d, c)
  BY <1>7, ExporterEndsData
<1> QED
  BY <1>1, <1>2, <1>3, <1>4, <1>5, <1>6, <1>7 DEF ExporterStep

LEMMA ImporterData ==
  ASSUME Control, Data, NEW d \in Dirs, NEW c \in Importers,
         ImporterStep(d, c) \/ ExporterTimeout(d, c), UNCHANGED userVars
  PROVE  Data'
<1>1. CASE ImportInit(d, c)
  BY <1>1, ImportInitData
<1>2. CASE EnableFallForward(d, c)
  BY <1>2, EnableData
<1>3. CASE \/ ExportDataIsDone(d, c) \/ ImportCheckCutover(d, c) \/ DebeziumIsStarted(d, c)
           \/ ExporterHasProcessed(d, c) \/ ExporterTimeout(d, c)
  BY <1>3, ImporterMovesData
<1>4. CASE ImportStarted(d, c)
  BY <1>4, ImportStartedData
<1>5. CASE ImportSnapshot(d, c)
  BY <1>5, SnapshotData
<1>6. CASE StreamItem(d, c)
  BY <1>6, StreamData
<1>7. CASE MarkProcessedByImporter(d, c) \/ SetNextIterationInitialized(d, c)
  BY <1>7, ImporterMarksData
<1>8. CASE StartFurtherAfterImport(d, c) \/ StartNextIteration(d, c)
  BY <1>8, ImporterEndsData
<1>9. CASE SetLatestIteration(d, c)
  BY <1>9, SetLatestData
<1>10. CASE SetUpNextRecord(d, c)
  BY <1>10, SetUpRecordData
<1> QED
  BY <1>1, <1>2, <1>3, <1>4, <1>5, <1>6, <1>7, <1>8, <1>9, <1>10 DEF ImporterStep

LEMMA InitData ==
  ASSUME Init
  PROVE  Data
<1>1. /\ \A d \in Dirs : msr[d] = {} /\ queue[d] = <<>>
      /\ files = {} /\ written = 0 /\ app.at = "source" /\ latest = 0 /\ 0 \in Dirs
      /\ \A x \in Databases : db[x] = {}
      /\ pc[0][IT] = "off" /\ pc[0][SR] = "off" /\ importType[0] = ""
  BY DirsFacts, CommandNames DEF Init
<1>2. \A d \in Dirs, s \in {"source", "target"} : slot[d][s].pending = {}
  BY DEF Init, NoSlot
<1>3. \A d \in Dirs : DOMAIN queue[d] = {}
  <2>1. DOMAIN <<>> = {}
    OBVIOUS
  <2> QED
    BY <1>1, <2>1
<1>4. 1 .. written = {} /\ ~(latest > 0)
  <2>1. 1 .. 0 = {} /\ ~(0 > 0)
    OBVIOUS
  <2> QED
    BY <1>1, <2>1
<1>5. Fresh /\ Pending /\ Queued /\ Held
  BY <1>1, <1>2, <1>3, <1>4 DEF Fresh, Pending, Queued, Held
<1>6. NothingLeft /\ EventsLast /\ Applied
  BY <1>1, <1>3 DEF NothingLeft, EventsLast, Applied
<1>7. Loaded
  BY <1>1 DEF Loaded, CHANGES_ONLY
<1>8. BackAtSource
  BY <1>1, <1>4 DEF BackAtSource
<1>9. ToTarget /\ ToSource /\ ToReplica
  BY <1>1, <1>4 DEF ToTarget, ToSource, ToReplica
<1> QED
  BY <1>5, <1>6, <1>7, <1>8, <1>9 DEF Data, Carried

LEMMA StutterData ==
  ASSUME Control, Data, UNCHANGED vars
  PROVE  Data'
<1>1. /\ msr' = msr /\ latest' = latest /\ pc' = pc /\ importType' = importType /\ files' = files
      /\ queue' = queue /\ done' = done /\ db' = db /\ slot' = slot /\ app' = app
      /\ written' = written /\ ending' = ending
  BY DEF vars, msrVars, procVars, dataVars
<1>2. Fresh' /\ Pending' /\ Queued' /\ Held'
  BY <1>1, StillThere
<1>3. ASSUME Carried PROVE Carried'
  <2>1. /\ NothingLeft' /\ EventsLast' /\ Applied' /\ Loaded'
        /\ \A e, k, w : InQueue(e, k, w)' <=> InQueue(e, k, w)
        /\ \A e : Exports(e)' <=> Exports(e)
    BY <1>1, <1>3, MoveKeeps
  <2>2. BackAtSource' /\ ToSource'
    BY <1>1, <1>3, <2>1 DEF Carried, BackAtSource, ToSource
  <2>3. ToTarget'
    BY <1>1, <1>3, <2>1 DEF Carried, ToTarget, Exports
  <2>4. ToReplica'
    BY <1>1, <1>3, <2>1 DEF Carried, ToReplica, Exports
  <2> QED
    BY <2>1, <2>2, <2>3, <2>4 DEF Carried
<1> QED
  BY <1>1, <1>2, <1>3 DEF Data, Open

LEMMA NextKeepsData ==
  ASSUME Control, Data, [Next]_vars
  PROVE  Data'
<1>1. ASSUME NEW d \in Dirs, NEW c \in Commands, CommandStep(d, c) PROVE Data'
  BY <1>1, ExporterData, ImporterData DEF CommandStep
<1>2. ASSUME NEW d \in Dirs, NEW c \in Commands, Timeout(d, c) PROVE Data'
  BY <1>2, ExporterData, ImporterData DEF Timeout
<1>3. ASSUME NEW d \in Dirs, NEW c \in Commands, Kill(d, c) PROVE Data'
  BY <1>3, KillData
<1>4. ASSUME NEW c \in Commands, Run(c) PROVE Data'
  BY <1>4, RunData
<1>5. CASE StartClean
  BY <1>5, StartCleanData
<1>6. CASE AppWrites \/ StopApp \/ MoveApp
  BY <1>6, AppWritesData, StopAppData, MoveAppData
<1>7. ASSUME NEW b \in BOOLEAN, InitiateCutoverToTarget(b) \/ InitiateCutoverToSource(b) PROVE Data'
  BY <1>7, CutoverToTargetData, CutoverToSourceData
<1>8. CASE InitiateCutoverToSourceReplica
  BY <1>8, CutoverToReplicaData
<1>9. CASE EndMigration
  BY <1>9, EndMigrationData
<1>10. CASE EndMigrationStep /\ UNCHANGED <<app, written>>
  BY <1>10, EndStepData
<1>11. CASE KillEndMigration
  BY <1>11, KillEndData
<1>12. CASE UNCHANGED vars
  BY <1>12, StutterData
<1> QED
  BY <1>1, <1>2, <1>3, <1>4, <1>5, <1>6, <1>7, <1>8, <1>9, <1>10, <1>11, <1>12 DEF Next

(***************************************************************************)
(* Where the writes of a live migration are: each is on its way in one     *)
(* slot, or in the snapshot, or in one place of one queue, and whatever a  *)
(* database still lacks when a cutover to it is under way, is on its way   *)
(* to it.                                                                  *)
(***************************************************************************)
THEOREM DataInvariant ==
  ASSUME "abort" \notin Perils
  PROVE  Spec => []Data
<1>1. Init => Control /\ Data
  BY InitControl, InitData
<1>2. Control /\ Data /\ [Next]_vars => (Control /\ Data)'
  BY NextKeepsControl, NextKeepsData
<1> QED
  BY <1>1, <1>2, PTL DEF Spec

(* What the invariant says of the writes. *)
LEMMA WritesAreMoved ==
  ASSUME Data
  PROVE  WritesMovedOnce
<1>1. ASSUME NEW p \in Exported
      PROVE  /\ p[1] \in Dirs /\ p[2] \in DOMAIN queue[p[1]] /\ IsChange(p[1], p[2])
             /\ p = <<p[1], p[2]>>
  <2>1. PICK d \in Dirs : p \in {<<d, i>> : i \in {j \in DOMAIN queue[d] : queue[d][j].event = "change"}}
    BY <1>1 DEF Exported
  <2>2. PICK i \in DOMAIN queue[d] : queue[d][i].event = "change" /\ p = <<d, i>>
    BY <2>1
  <2> QED
    BY <2>2 DEF IsChange
<1>2. \A p, q \in Exported : p # q => queue[p[1]][p[2]].write # queue[q[1]][q[2]].write
  <2>1. SUFFICES ASSUME NEW p \in Exported, NEW q \in Exported,
                        queue[p[1]][p[2]].write = queue[q[1]][q[2]].write
                 PROVE  p = q
    OBVIOUS
  <2>2. p[1] = q[1] /\ p[2] = q[2]
    BY <1>1, <2>1 DEF Data, Queued
  <2> QED
    BY <1>1, <2>2
<1>3. \A p \in Exported : queue[p[1]][p[2]].write \notin files
  BY <1>1 DEF Data, Queued
<1>4. 1 .. written \subseteq db[app.at]
  BY DEF Data, Held
<1> QED
  BY <1>2, <1>3, <1>4 DEF WritesMovedOnce

(***************************************************************************)
(* No write is lost or moved twice, for any number of iterations, writes   *)
(* and kills: wherever the application runs, its database holds every      *)
(* write it has ever made, and a write is exported at most once, in the    *)
(* snapshot or as one change of one queue.  That holds as long as          *)
(* 'end migration' is run on a settled migration.                          *)
(***************************************************************************)
THEOREM LiveMigrationMovesWritesOnce ==
  ASSUME "abort" \notin Perils
  PROVE  Spec => []WritesMovedOnce
<1>1. Data => WritesMovedOnce
  BY WritesAreMoved
<1> QED
  BY <1>1, DataInvariant, PTL

=============================================================================
