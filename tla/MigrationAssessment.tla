------------------------ MODULE MigrationAssessment ------------------------
(* 'assess-migration': collectors read the metadata of the primary and its  *)
(* replicas in parallel, the files they write are loaded into a database,   *)
(* a cluster is recommended and a report written.  'export schema' runs it  *)
(* when it has not been run, and applies what it found.  The command may be *)
(* killed between any two steps while the source goes on working.           *)
EXTENDS Recommendations, ExpectedIssues, TLC

Home == INSTANCE SqlAnonymizer

CONSTANTS
  Replicas,   \* read replicas of the source
  Sources     \* sources to assess, each with the bounds it is explored under

None == -1

Nodes == {"primary"} \cup Replicas
Files == <<"types", "iops-initial", "iops-final", "sizes">>

VARIABLES
  source,    \* the source and the bounds: objects, moments, kills, failures, starts, replicas
  epoch,     \* the moment
  metadata,  \* CSV files in assessment/metadata/node-*
  schema,    \* the moment of the schema in assessment/metadata/schema, or None
  db,        \* assessment/dbs: does the file exist, its rows and statistics
  report,    \* assessment/reports
  msr,       \* MigrationAssessmentDone, MigrationAssessmentDoneViaExportSchema, AnonymizerSalt
  cmd,       \* the running command
  exported,  \* 'export schema': is it done, and the indexes it left out
  sent,      \* payloads sent home
  left       \* what is left of the bounds

vars == <<source, epoch, metadata, schema, db, report, msr, cmd, exported, sent, left>>
files == <<metadata, schema, db, report, sent>>

NoDb == [exists |-> FALSE, rows |-> {}, stats |-> {}]
NoContent == [complete |-> FALSE]
NoReport == [json |-> NoContent, html |-> NoContent]
Idle == [pc |-> "idle", invoked |-> FALSE, nodes |-> {}, step |-> [n \in Nodes |-> 0],
         failed |-> FALSE, started |-> 0, recommendation |-> NoContent, content |-> NoContent]

Init ==
    /\ source \in Sources
    /\ epoch = 0
    /\ metadata = {} /\ schema = None /\ db = NoDb /\ report = NoReport
    /\ msr = [done |-> FALSE, viaExportSchema |-> FALSE, salt |-> Home!NoSalt] /\ sent = {}
    /\ cmd = Idle /\ exported = [done |-> FALSE, dropped |-> {}]
    /\ left = source.bounds @@ [torn |-> FALSE]

At(pc) == cmd.pc = pc
Goto(pc) == cmd' = [cmd EXCEPT !.pc = pc]
Exit == cmd' = Idle

-----------------------------------------------------------------------------
(* Starting: what an earlier run left behind is removed, unless it finished. *)

assessmentFilesExists ==
    report.json.complete \/ db.exists \/ metadata # {} \/ schema # None

\* Without --start-clean an assessment that was done is not repeated.
handleStartCleanIfNeeded(startClean) ==
    IF startClean \/ (assessmentFilesExists /\ ~msr.done) THEN {"clean-metadata"}
    ELSE IF assessmentFilesExists THEN {} ELSE {"preflight"}

\* No two moments generate the same salt.
Salt == Home!loadOrGenerateAnonymisationSalt(msr.salt, epoch + 1)

\* 'export schema' starts the assessment itself when there is none.  A user who has no
\* report starts it as often as it takes, one who has it a limited number of times.
Start(startClean, invoked) ==
    /\ At("idle")
    /\ invoked => ~startClean /\ ~exported.done /\ ~msr.done /\ ~msr.viaExportSchema
    /\ \E pc \in handleStartCleanIfNeeded(startClean) :
           cmd' = [Idle EXCEPT !.pc = pc, !.invoked = invoked, !.started = epoch]
    /\ IF report.html.complete
       THEN left.starts > 0 /\ left' = [left EXCEPT !.starts = @ - 1]
       ELSE UNCHANGED left
    /\ msr' = [msr EXCEPT !.salt = Salt]
    /\ UNCHANGED <<source, epoch, files, exported>>

CleanMetadata ==
    /\ At("clean-metadata") /\ Goto("clean-reports")
    /\ metadata' = {} /\ schema' = None
    /\ UNCHANGED <<source, epoch, db, report, msr, exported, sent, left>>

CleanReports ==
    /\ At("clean-reports") /\ Goto("clean-dbs")
    /\ report' = NoReport
    /\ UNCHANGED <<source, epoch, metadata, schema, db, msr, exported, sent, left>>

\* The database stays.
CleanedDb_Kept == db
CleanedDb == NoDb

CleanDbs ==
    /\ At("clean-dbs") /\ Goto("clear-done")
    /\ db' = CleanedDb
    /\ UNCHANGED <<source, epoch, metadata, schema, report, msr, exported, sent, left>>

ClearMigrationAssessmentDone ==
    /\ At("clear-done") /\ Goto("preflight")
    /\ msr' = [msr EXCEPT !.done = FALSE, !.viaExportSchema = FALSE]
    /\ left' = [left EXCEPT !.torn = FALSE]
    /\ UNCHANGED <<source, epoch, files, exported>>

-----------------------------------------------------------------------------
(* Preflight: which replicas take part. *)

\* The sets of replicas the command goes on with, when every prompt is answered with yes.
\* Discovered replicas take part as far as they can be reached ...
validateDiscoveredReplicas(discovered, reachable) == discovered \cap reachable

resolveDiscoveredReplicasOutcome(connectable) == IF connectable = {} THEN {} ELSE {connectable}

\* ... while every replica the user names has to be reachable.
processProvidedEndpoints(provided, reachable) == IF provided \subseteq reachable THEN {provided} ELSE {}

HandleReplicaDiscoveryAndValidation(primaryOnly, provided, discovered, reachable) ==
    IF primaryOnly \/ provided \cup discovered = {} THEN {{}}
    ELSE IF provided = {} THEN resolveDiscoveredReplicasOutcome(validateDiscoveredReplicas(discovered, reachable))
    ELSE processProvidedEndpoints(provided, reachable)

RunPreflightChecks ==
    /\ At("preflight")
    /\ \E primaryOnly \in BOOLEAN :
       \E provided \in SUBSET source.replicas : \E discovered \in SUBSET source.replicas :
       \E reachable \in SUBSET source.replicas :
       \E replicas \in HandleReplicaDiscoveryAndValidation(primaryOnly, provided, discovered, reachable) :
           cmd' = [cmd EXCEPT !.pc = "init-db", !.nodes = {"primary"} \cup replicas]
    /\ UNCHANGED <<source, epoch, files, msr, exported, left>>

\* A prompt answered with no, a permission missing, an endpoint out of reach.
PreflightAborts ==
    /\ At("preflight") /\ left.failures > 0
    /\ Exit
    /\ left' = [left EXCEPT !.failures = @ - 1]
    /\ UNCHANGED <<source, epoch, files, msr, exported>>

-----------------------------------------------------------------------------
(* Gathering. *)

\* Tables are created where they do not exist.
InitAssessmentDB ==
    /\ At("init-db") /\ Goto("gather")
    /\ db' = [db EXCEPT !.exists = TRUE]
    /\ UNCHANGED <<source, epoch, metadata, schema, report, msr, exported, sent, left>>

\* A collector: its files in their order and, on the primary, the schema.
LastStep(n) == IF n = "primary" THEN Len(Files) + 1 ELSE Len(Files)
Finished(n) == cmd.step[n] >= LastStep(n)

\* The file of a node replaces the one that is there.
Written(n, file) == {csv \in metadata : ~(csv.node = n /\ csv.file = file)}
                        \cup {[node |-> n, file |-> file, at |-> epoch]}

Collect(n) ==
    /\ At("gather") /\ n \in cmd.nodes /\ ~Finished(n)
    /\ LET k == cmd.step[n] + 1
       IN  /\ cmd' = [cmd EXCEPT !.step[n] = k]
           /\ IF k <= Len(Files) THEN metadata' = Written(n, Files[k]) /\ UNCHANGED schema
              ELSE schema' = epoch /\ UNCHANGED metadata
    /\ UNCHANGED <<source, epoch, db, report, msr, exported, sent, left>>

\* A statement of a collector fails: the script ends, the other collectors go on.
CollectFails(n) ==
    /\ At("gather") /\ n \in cmd.nodes /\ ~Finished(n) /\ left.failures > 0
    /\ cmd' = [cmd EXCEPT !.step[n] = LastStep(n), !.failed = TRUE]
    /\ left' = [left EXCEPT !.failures = @ - 1]
    /\ UNCHANGED <<source, epoch, files, msr, exported>>

\* The collectors that failed do not matter.
GatherResult_Any == "load"
GatherResult == IF cmd.failed THEN "idle" ELSE "load"

GatherAssessmentMetadata ==
    /\ At("gather") /\ \A n \in cmd.nodes : Finished(n)
    /\ IF GatherResult = "idle" THEN Exit ELSE Goto(GatherResult)
    /\ UNCHANGED <<source, epoch, files, msr, exported, left>>

-----------------------------------------------------------------------------
(* The database, the recommendation and the report. *)

\* The files of one node directory; every node directory that is there is loaded.
Load(n) ==
    LET csvs == {csv \in metadata : csv.node = n}
    IN  /\ At("load") /\ csvs # {} /\ cmd.step[n] # None
        /\ IF BulkInsertFails(source, db.rows, csvs) THEN Exit /\ UNCHANGED db
           ELSE /\ db' = [db EXCEPT !.rows = @ \cup csvs]
                /\ cmd' = [cmd EXCEPT !.step[n] = None]
        /\ UNCHANGED <<source, epoch, metadata, schema, report, msr, exported, sent, left>>

PopulateMetadataCSVIntoAssessmentDB ==
    /\ At("load") /\ \A csv \in metadata : cmd.step[csv.node] = None
    /\ Goto("iops")
    /\ db' = [db EXCEPT !.stats = PopulateMigrationAssessmentStats(source, db.rows)]
    /\ UNCHANGED <<source, epoch, metadata, schema, report, msr, exported, sent, left>>

\* A source without activity is assessed only if the user agrees.
validateSourceDBIOPS ==
    /\ At("iops")
    /\ \/ Goto("assess") /\ UNCHANGED left
       \/ /\ \A s \in db.stats : s.reads + s.writes = 0
          /\ left.failures > 0 /\ Exit /\ left' = [left EXCEPT !.failures = @ - 1]
    /\ UNCHANGED <<source, epoch, files, msr, exported>>

runAssessment ==
    /\ At("assess")
    /\ \E tables \in {getSourceMetadata(db.stats)} : \E rec \in {SizingAssessment(tables)} :
           IF rec.failed THEN Exit
           ELSE cmd' = [cmd EXCEPT !.pc = "analyze", !.recommendation = rec]
    /\ UNCHANGED <<source, epoch, files, msr, exported, left>>

getAssessmentReportContentFromAnalyzeSchema ==
    /\ At("analyze")
    /\ \E content \in {getAssessmentReportContent(source.schema)} :
           cmd' = [cmd EXCEPT !.pc = "report-json", !.content = content]
    /\ UNCHANGED <<source, epoch, files, msr, exported, left>>

\* The redundant indexes that the database holds, of whatever node.
RedundantRows ==
    LET Indexes(csv) == {o.def : o \in {o \in Holds(source, csv) : o.parent # 0}}
        rows == UNION {redundant_indexes(indexes) :
                          indexes \in {Indexes(csv) : csv \in {csv \in db.rows : csv.file = "types"}}}
    IN  UNION {getResolvedRedundantIndexes(r) : r \in {rows}}

\* The field "window" records, for the properties, when this run read what.
Report ==
    [complete |-> TRUE, stats |-> db.stats, recommendation |-> cmd.recommendation,
     redundant |-> RedundantRows, schema |-> schema, started |-> cmd.started,
     nodes |-> cmd.nodes, content |-> cmd.content,
     window |-> [n \in cmd.nodes |-> [f \in ToSet(Files) |->
                    LET mine == {csv \in metadata : csv.node = n /\ csv.file = f}
                    IN  IF mine = {} THEN None ELSE (CHOOSE csv \in mine : TRUE).at]]]

generateAssessmentReportJson ==
    /\ At("report-json") /\ Goto("report-html")
    /\ report' = [report EXCEPT !.json = Report]
    /\ UNCHANGED <<source, epoch, metadata, schema, db, msr, exported, sent, left>>

generateAssessmentReportHtml ==
    /\ At("report-html") /\ Goto("done")
    /\ report' = [report EXCEPT !.html = Report]
    /\ UNCHANGED <<source, epoch, metadata, schema, db, msr, exported, sent, left>>

SetMigrationAssessmentDoneInMSR ==
    /\ At("done") /\ Goto("send")
    /\ msr' = [msr EXCEPT !.done = ~cmd.invoked, !.viaExportSchema = cmd.invoked]
    /\ UNCHANGED <<source, epoch, files, exported, left>>

SendAssessMigrationPayload ==
    /\ At("send") /\ Exit
    /\ sent' = sent \cup {Home!packAndSendAssessMigrationPayload(Salt, report.json, source.ddls)}
    /\ UNCHANGED <<source, epoch, metadata, schema, db, report, msr, exported, left>>

-----------------------------------------------------------------------------
(* 'export schema' leaves out the redundant indexes the database lists, be *)
(* the assessment done or not, and whether the command ran it or not.       *)
ExportSchema ==
    /\ At("idle") /\ ~exported.done /\ left.exports > 0
    /\ exported' = [done |-> TRUE, dropped |-> {row.redundant : row \in RedundantRows}]
    /\ sent' = sent \cup {Home!packAndSendExportSchemaPayload(Salt, exported'.dropped)}
    /\ msr' = [msr EXCEPT !.salt = Salt]
    /\ left' = [left EXCEPT !.exports = @ - 1]
    /\ UNCHANGED <<source, epoch, metadata, schema, db, report, cmd>>

\* 'export schema --start-clean' has the assessment run again if it had run it itself.
clearMigrationAssessmentDoneViaExportSchema ==
    /\ At("idle") /\ exported.done /\ left.exports > 0
    /\ msr' = [msr EXCEPT !.viaExportSchema = FALSE]
    /\ exported' = [done |-> FALSE, dropped |-> {}]
    /\ UNCHANGED <<source, epoch, files, cmd, left>>

\* The field "torn" records, for the properties, that --start-clean did not get to its end.
Cleaning == cmd.pc \in {"clean-metadata", "clean-reports", "clean-dbs", "clear-done"}

Kill ==
    /\ ~At("idle") /\ left.kills > 0
    /\ Exit
    /\ left' = [left EXCEPT !.kills = @ - 1, !.torn = @ \/ Cleaning]
    /\ UNCHANGED <<source, epoch, files, msr, exported>>

\* The source works: objects appear, counters grow.
SourceWorks ==
    /\ left.moments > 0
    /\ epoch' = epoch + 1
    /\ left' = [left EXCEPT !.moments = @ - 1]
    /\ UNCHANGED <<source, files, msr, cmd, exported>>

Step ==
    \/ CleanMetadata \/ CleanReports \/ CleanDbs \/ ClearMigrationAssessmentDone
    \/ RunPreflightChecks \/ InitAssessmentDB
    \/ \E n \in Nodes : Collect(n) \/ Load(n)
    \/ GatherAssessmentMetadata \/ PopulateMetadataCSVIntoAssessmentDB
    \/ validateSourceDBIOPS \/ runAssessment
    \/ generateAssessmentReportJson \/ generateAssessmentReportHtml
    \/ SetMigrationAssessmentDoneInMSR

Next ==
    \/ \E startClean, invoked \in BOOLEAN : Start(startClean, invoked)
    \/ Step \/ getAssessmentReportContentFromAnalyzeSchema \/ SendAssessMigrationPayload
    \/ PreflightAborts \/ \E n \in Nodes : CollectFails(n)
    \/ ExportSchema \/ clearMigrationAssessmentDoneViaExportSchema
    \/ Kill \/ SourceWorks

Spec == Init /\ [][Next]_vars

\* A command that runs goes on, the analysis of a schema and the sending of a payload end;
\* a user without a report starts the command, with --start-clean when it refuses to start
\* otherwise.
Fairness ==
    /\ WF_vars(Step) /\ []<>(~At("analyze") /\ ~At("send"))
    /\ WF_vars(~report.html.complete /\ Start(FALSE, FALSE))
    /\ WF_vars(~report.html.complete /\ handleStartCleanIfNeeded(FALSE) = {} /\ Start(TRUE, FALSE))

FairSpec == Spec /\ Fairness

-----------------------------------------------------------------------------
(* Properties. *)

Reports == {r \in {report.json, report.html} : r.complete}

Rate(r, o, n, op) == o.activity[n][op] * (r.window[n]["iops-final"] - r.window[n]["iops-initial"])

\* A table or an index as the run itself saw it.
Seen(r, o) ==
    [name |-> o.name, type |-> o.type, parent |-> o.parent, size |-> o.size,
     reads |-> MapThenSumSet(LAMBDA n : Rate(r, o, n, "reads"), r.nodes),
     writes |-> Rate(r, o, "primary", "writes")]

\* A report, and with it the numbers the cluster is sized by, comes from one run and from
\* all the nodes that run took part: each file was read by it, and an object that was there
\* when it started is there with its size, the reads of all nodes and the writes of the
\* primary between the two measurements.  An assessment recorded as done has both its
\* reports, unless --start-clean is removing them or was killed while it did.
\* (handleStartCleanIfNeededForAssessMigration, GatherAssessmentMetadataFromPG,
\* PopulateMigrationAssessmentStats)
ReportTrustworthy ==
    /\ \A r \in Reports :
        /\ r.schema >= r.started
        /\ \A n \in r.nodes, f \in ToSet(Files) : r.window[n][f] >= r.started
        /\ \A o \in source.objects :
               o.since <= r.started /\ o.type \notin PARTITIONED_TYPES => Seen(r, o) \in r.stats
    /\ (msr.done \/ msr.viaExportSchema) /\ ~Cleaning /\ ~left.torn
           => report.json.complete /\ report.html = report.json

\* Whatever the instance type picked, the recommended cluster bears the source: every
\* table is placed once, the colocated ones fit on one node by size, number and
\* operations, the sharded ones by their number, and their operations on the nodes that
\* do not lead the colocated tablet.  (SizingAssessment: shardingBasedOnTableSizeAndCount,
\* shardingBasedOnOperations, checkShardedTableLimit, pickBestRecommendation,
\* findNumNodesNeededBasedOnThroughputRequirement)
RecommendationFits ==
    \A r \in Reports :
        LET rec == r.recommendation
            c == rec.vCPUs
            tables == getSourceMetadata(r.stats)
            leader == IF rec.colocated = <<>> THEN 0 ELSE 1
        IN  /\ Len(rec.colocated) + Len(rec.sharded) = Len(tables)
            /\ ToSet(rec.colocated \o rec.sharded) = ToSet(tables)
            /\ Total(TotalSize, rec.colocated) <= Exp.colocatedLimits[c].size
            /\ Total(ObjectCount, rec.colocated) <= Exp.colocatedLimits[c].objects
            /\ NeededCores(rec.colocated, Exp.colocatedThroughput[c]) <= c
            /\ Total(ObjectCount, rec.sharded) <= Exp.shardedLimits[c]
            /\ NeededCores(rec.sharded, Exp.shardedThroughput[c]) <= (rec.numNodes - leader) * c
            /\ rec.numNodes >= 3

\* An index that 'export schema' leaves out is not missed: one that stays serves every
\* scan it served and, if it was unique, enforces it; and a report names, for each
\* redundant index, such an index that is not itself redundant.  However many indexes
\* make each other redundant, and from however many nodes the database has their rows.
\* (redundant-indexes.psql, getResolvedRedundantIndexes, fetchRedundantIndexMapFromAssessmentDB)
RedundantCovered ==
    /\ \A r \in exported.dropped :
           \E o \in source.objects :
              /\ o.parent # 0 /\ o.def \notin exported.dropped
              /\ ServesScans(o.def, r) /\ Enforces(o.def, r)
    /\ \A rep \in Reports : \A row \in rep.redundant :
           /\ row.existing \notin {x.redundant : x \in rep.redundant}
           /\ ServesScans(row.existing, row.redundant) /\ Enforces(row.existing, row.redundant)

\* What the report advises can be followed: the cluster and the indexes to leave out.
AdviceSound == RecommendationFits /\ RedundantCovered

\* Issues that depend on more than one statement.
WholeSchemaTypes ==
    {"PK_UK_ON_COMPLEX_DATATYPE", "INDEX_ON_COMPLEX_DATATYPE", "HOTSPOTS_ON_INDEX", "HOTSPOTS_ON_PK_UK",
     "FOREIGN_KEY_DATATYPE_MISMATCH", "FOREIGN_KEY_REFERENCES_PARTITIONED_TABLE", "MISSING_FOREIGN_KEY_INDEX",
     "MISSING_PRIMARY_KEY_WHEN_UNIQUE_NOT_NULL", "UNSUPPORTED_DATATYPE", "LIVE_MIGRATION_DATATYPE",
     "LIVE_MIGRATION_WITH_FF_FB_DATATYPE", "INHERITANCE", "INHERITANCE_MIGRATION_CAVEAT"}

\* Whatever the order of the statements, with a table's CREATE before its ALTERs as in a
\* dump, however deep the parents, partitions, types and blocks, and whichever the target
\* release, the report names exactly the keys, indexes and foreign keys that the target
\* would not have or would suffer from, the columns it could not hold or a live migration
\* could not move, and the constructs in the bodies of functions; and an issue that a
\* statement shows by itself is never lost for the sake of another one.
\* (checkStmtsUsingParser, FinalizeTablesMetadata, GetUnderlyingTypes,
\* collectSqlStmtContainingCode, getIssuesNotFixedInTargetDbVersion, finalizeIssues)
IssuesExact ==
    \A r \in Reports :
        \E S \in {StatementsOf(source.schema)} : \E found \in {{e.issue : e \in r.content.entries}} :
            LET v == source.schema.target
                wholes == {i \in found : \/ i.type \in WholeSchemaTypes
                                         \/ i.object.kind = "FUNCTION" /\ i.type # "SQL_BODY_IN_FUNCTION"}
                Alone(s) == GetDDLIssues(NewParserIssueDetector(source.schema.stats), s, v)
            IN  /\ wholes = WholeSchemaIssues(S, v)
                /\ \A s \in S : \A i \in Alone(s) :
                       i.type \in AssessedFeatures \cup {"UNSUPPORTED_DATATYPE"} => i \in found

\* Whatever statements the schema has, the names and literals in the payloads of a
\* migration are tokens, except for built-in types and functions; an object has the same
\* token wherever it is named, in the statement that creates it, in those that alter it or
\* refer to it, also inside a literal, in the statistics and in the payload of 'export
\* schema'; and objects of different kinds with the same name have different ones.  The
\* last two hold but for the places that the handlers misread (MisreadNames, MisreadKids):
\* there the code breaks what the comment on IdentifierHashRegistry promises.  (Anonymize, identifierNodesProcessor, GetHash,
\* loadOrGenerateAnonymisationSalt)
PayloadsAnonymous ==
    /\ \A p, q \in sent : p.salt = q.salt
    /\ \A p \in sent : \A a \in Home!PartsSent(p, Home!PartsOf) : a.kind = "" => a.role = "builtin"
    /\ \A parts \in {UNION {Home!PartsSent(p, Home!WellReadParts) : p \in sent}} :
        \A a, b \in parts : a.name = b.name => (a.role = b.role <=> a.kind = b.kind)

\* However often the command fails or is killed, and wherever, the user who runs it again
\* gets the report in the end, unless no instance type can bear the source.
\* (handleStartCleanIfNeededForAssessMigration, which removes what the last run left)
Impossible == At("assess") /\ SizingAssessment(getSourceMetadata(db.stats)).failed
AssessmentCompletes == <>[]report.html.complete \/ []<>Impossible
=============================================================================
