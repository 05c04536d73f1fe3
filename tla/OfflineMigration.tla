-------------------------- MODULE OfflineMigration --------------------------
(***************************************************************************)
(* A migration without live changes, as its operator runs it: export       *)
(* schema, import schema, import data and finalize-schema-post-data-import,*)
(* each run again after a kill or an error until it ends well.             *)
(***************************************************************************)
EXTENDS SchemaImport, FileTasks

ASSUME MigrationsAssumption ==
  \A m \in DOMAIN Migrations :
    LET b == Migrations[m].batches
    IN DOMAIN b \subseteq Range(Files) /\ \A t \in DOMAIN b : b[t] \in Nat \ {0}

\* Bounds on schema commands started and on kills.
MaxStarts == Migrations[migration].starts
MaxKills  == Migrations[migration].kills

VARIABLES starts, kills

vars == <<migration, exportVars, schemaVars, taskVars, starts, kills>>

Init ==
  /\ ExportInit /\ ImportInit /\ TasksInit(Migrations[migration].batches)
  /\ starts = 0 /\ kills = 0

-----------------------------------------------------------------------------
Idle == exportAt = 0 /\ imp.cmd = "none" /\ loop # "on"

ExportSchema ==
  /\ \/ StartExport /\ Idle
     \/ StartCleanExport /\ Idle /\ completed = {} /\ starts = 0
     \/ ExportSteps
  /\ starts' = IF exportAt = 0 /\ ExportSchemaDone THEN starts + 1 ELSE starts
  /\ UNCHANGED <<migration, schemaVars, taskVars, kills>>

ImportSchema(continue, ignore, clean) ==
  /\ Idle /\ ExportSchemaDone /\ starts < MaxStarts
  /\ StartSchemaCommand("import schema", continue, ignore, clean)
  /\ starts' = starts + 1
  /\ UNCHANGED <<migration, exportVars, taskVars, kills>>

FinalizeSchema(ignore) ==
  /\ Idle /\ loop = "done" /\ starts <= MaxStarts
  /\ StartSchemaCommand("finalize", FALSE, ignore, FALSE)
  /\ starts' = starts + 1
  /\ UNCHANGED <<migration, exportVars, taskVars, kills>>

SchemaCommand == SchemaSteps /\ UNCHANGED <<migration, exportVars, taskVars, starts, kills>>

\* getTableTypes: what the target says of its tables; the database is colocated.
getTableTypes ==
  [t \in TaskSet |-> IF targetType = "yugabytedb-amp" THEN "PLAIN"
                     ELSE IF "colocation=false" \in target[t].opts THEN "SHARDED"
                     ELSE "COLOCATED"]

\* Every table that has a data file must be found in the target.
ImportData ==
  /\ Idle /\ "import schema" \in completed /\ TaskSet \subseteq DOMAIN target
  /\ StartImportTasks(getTableTypes)
  /\ UNCHANGED <<migration, exportVars, schemaVars, starts, kills>>

ImportDataSteps == TaskSteps /\ UNCHANGED <<migration, exportVars, schemaVars, starts, kills>>

Kill ==
  /\ kills < MaxKills
  /\ kills' = kills + 1
  /\ \/ /\ exportAt > 0 /\ exportAt' = 0
        /\ UNCHANGED <<files, backup, ExportSchemaDone, schemaVars, taskVars>>
     \/ KillSchemaCommand /\ UNCHANGED <<exportVars, taskVars>>
     \/ KillTasks /\ UNCHANGED <<exportVars, schemaVars>>
  /\ UNCHANGED <<migration, starts>>

Next ==
  \/ ExportSchema
  \/ \E c, i, s \in BOOLEAN : ImportSchema(c, i, s)
  \/ \E i \in BOOLEAN : FinalizeSchema(i)
  \/ SchemaCommand
  \/ ImportData \/ ImportDataSteps
  \/ Kill

Spec == Init /\ [][Next]_vars

\* The operator runs a killed import of data again, and its goroutines keep running;
\* a turn of the loop that finds a task with nothing to do is no step.
FairSpec ==
  Spec /\ WF_vars(ImportData) /\ WF_vars(SchemaCommand) /\ WF_vars(ImportDataSteps)

-----------------------------------------------------------------------------
(* Properties.                                                             *)

\* The statements of the files that are there.  A file of the dump is missing if an
\* 'export schema --start-clean' was killed before it had cleared the flag.
DumpStmts ==
  {e.stmt : e \in {d \in Range(Dump) : FileOf(d) # "uncategorized" /\ files[FileOf(d)] # <<>>}}

\* What the target is meant to get: the rest is left out on purpose.
Wanted ==
  {s \in DumpStmts : /\ s.cmd # "REPLICA IDENTITY"
                     /\ targetType = "yugabytedb" => s.id \notin Redundant}

\* The statement, or the CREATE TABLE it was merged into, is in failed.sql.
Reported(s) ==
  \/ s.id \in failedSql
  \/ targetType = "yugabytedb" /\ Mergeable(s) /\ s.on \in failedSql

\* Nothing of the source's schema is lost on the way: once 'import schema' has
\* ended, every statement of the dump took effect in the target or is listed in
\* failed.sql, through the files, the merging of constraints, the two passes,
\* the deferral and any number of kills and reruns.  Excepted are the statements of
\* a file that a killed 'export schema --start-clean' has removed: the flag is still
\* set and 'import schema' does not miss the file.  A NOT VALID constraint is
\* not there before all the data is, since rows may violate it; once finalize
\* has ended it is there if its objects exist (one whose objects do not is
\* deferred and then forgotten: nothing retries or reports it).
SchemaAccounted ==
  \A s \in Wanted :
    /\ "import schema" \in completed /\ ~s.notValid
         => s.makes \subseteq DOMAIN target \/ Reported(s)
    /\ s.notValid /\ s.makes \cap DOMAIN target # {} => loop = "done"
    /\ "finalize" \in completed /\ s.notValid
         => s.makes \subseteq DOMAIN target \/ ~(s.needs \subseteq DOMAIN target)

\* importDeferredStatements reaches the fixpoint: a statement is in failed.sql
\* only if the target refuses it for good, already has it or lacks what it
\* needs, in whatever order the statements stood, or if a transient error was
\* met (a deferred statement is not tried again after one).
FailedOnlyIfImpossible ==
  "import schema" \in completed /\ conflicts = 0 =>
    \A o \in ObjectTypes : \A s \in Range(FileFor(o)) :
      s.cmd # "SET" /\ s.id \in failedSql =>
        \/ s.id \in Unsupported
        \/ s.makes \cap DOMAIN target # {}
        \/ ~(s.needs \subseteq DOMAIN target)

PlannedHash(s) ==
  IF targetType = "yugabytedb-amp" THEN "default"
  ELSE IF s.cmd = "ADD PRIMARY KEY" /\ s.key = "hash" THEN "on" ELSE "off"

PlannedOpts(s) ==
  IF targetType = "yugabytedb-amp" THEN {}
  ELSE IF s.cmd \in {"CREATE INDEX", "CREATE UNIQUE INDEX"} THEN {"ASC"}
  ELSE IF s.id \in Sharded THEN {"colocation=false"} ELSE {}

\* The objects of the target are built as export schema planned them: keys hash
\* or range sharded, tables colocated or not, indexes range sharded and valid;
\* and on a PostgreSQL-compatible target without any of it.  The session
\* variables, the copies of the files and the drop of half-made indexes must
\* work together for that; a statement that met a transient error may be
\* executed without its session variables, but never with those of another
\* place, and an index whose command was killed stays invalid.
TargetAsPlanned ==
  "import schema" \in completed =>
    \A s \in Wanted : \A o \in s.makes \cap DOMAIN target :
      /\ s.cmd \in {"ADD PRIMARY KEY", "ADD UNIQUE"}
           => \/ target[o].hash = PlannedHash(s)
              \/ target[o].hash = "default" /\ conflicts > 0
      /\ s.cmd \in {"CREATE TABLE", "CREATE INDEX", "CREATE UNIQUE INDEX"}
           => target[o].opts = PlannedOpts(s)
      /\ o \notin orphaned => target[o].valid

\* The data gets in: the picker finds a task whenever one is left, after a kill too,
\* and the loop, the producers, the queue of colocated batches, its consumer and the
\* pools never wait for each other, though queue and pools fill up and the loop
\* blocks on them; the loop does not go round for ever either.
DataImportFinishes ==
  "import schema" \in completed /\ TaskSet \subseteq DOMAIN target ~> loop = "done"
=============================================================================
