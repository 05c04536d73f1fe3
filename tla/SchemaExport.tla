---------------------------- MODULE SchemaExport -----------------------------
(* The exported schema: its files, and the command that writes them.        *)
EXTENDS Sequences, SequencesExt, FiniteSets, Naturals

-----------------------------------------------------------------------------
(* The files of schema/ in the export directory: how the dump of the       *)
(* source's DDL is cut into one file per object type, and how the          *)
(* statements of a file are transformed for YugabyteDB.  A file is a       *)
(* sequence of statements; a statement is a record                         *)
(*   id       its name;               cmd    what it does;                 *)
(*   on       the table it is about;                                       *)
(*   makes    the objects that exist once it is executed;                  *)
(*   needs    the objects without which the target refuses it;             *)
(*   notValid an ADD CONSTRAINT ... NOT VALID;                             *)
(*   key      the primary key it declares: "none", on a date or timestamp  *)
(*            ("range") or on anything else ("hash");                      *)
(*   opts     the YugabyteDB clauses that were added to it.                *)
(* A SET statement is [cmd |-> "SET", var, val].                           *)

CONSTANTS
  Migrations,    \* the migrations considered, by name: pg_dump's output (a sequence
                 \* of [type, stmt]), the number of batches of each data file, and
                 \* bounds on what happens, [dump, batches, conflicts, starts, kills]
  Preamble,      \* the SET statements at the head of the dump
  Sharded,       \* tables and views the assessment recommends not to colocate
  Redundant      \* indexes the assessment found redundant

VARIABLE migration   \* the one at hand, which never changes

Dump == Migrations[migration].dump

-----------------------------------------------------------------------------
\* GetSchemaObjectList("postgresql"): the types, in the order of import.
GetSchemaObjectList ==
  <<"SCHEMA", "COLLATION", "EXTENSION", "TYPE", "DOMAIN", "SEQUENCE", "TABLE",
    "INDEX", "FUNCTION", "AGGREGATE", "PROCEDURE", "VIEW", "TRIGGER", "MVIEW",
    "RULE", "COMMENT", "CONVERSION", "FOREIGN TABLE", "POLICY", "OPERATOR">>

ObjectTypes == Range(GetSchemaObjectList)

\* The file for an entry, by the type in pg_dump's comment; what is left is
\* "uncategorized".
FileOf(entry) ==
  LET type == entry.type IN
  CASE type = "DEFAULT" /\ entry.stmt.cmd = "ALTER FOREIGN TABLE" -> "FOREIGN TABLE"
    [] type \in {"SEQUENCE", "SEQUENCE OWNED BY"} -> "SEQUENCE"
    [] type \in {"INDEX", "INDEX ATTACH"} -> "INDEX"
    [] type \in {"TABLE", "CONSTRAINT", "FK CONSTRAINT", "CHECK CONSTRAINT",
                 "ROW SECURITY", "DEFAULT", "TABLE ATTACH"} -> "TABLE"
    [] type = "MATERIALIZED VIEW" -> "MVIEW"
    [] type \in {"OPERATOR", "OPERATOR FAMILY", "OPERATOR CLASS"} -> "OPERATOR"
    [] type \in ObjectTypes -> type
    [] OTHER -> "uncategorized"

StmtsOf(entries) == [i \in DOMAIN entries |-> entries[i].stmt]

\* parseSchemaFile: the partitions are attached at the end of the table file,
\* and every file that has a statement begins with the session variables.
parseSchemaFile ==
  LET ofFile(o, attach) ==
        StmtsOf(SelectSeq(Dump, LAMBDA e : /\ FileOf(e) = o
                                           /\ (e.type = "TABLE ATTACH") = attach))
      all(o) == ofFile(o, FALSE) \o ofFile(o, TRUE)
  IN [o \in ObjectTypes \cup {"uncategorized"} |->
        IF all(o) = <<>> THEN <<>> ELSE Preamble \o all(o)]

-----------------------------------------------------------------------------
\* applyShardedTablesRecommendation: CREATE TABLE and CREATE MATERIALIZED VIEW
\* of what is not to be colocated get WITH (colocation = false).
applyShardedTablesRecommendation(stmts) ==
  [i \in DOMAIN stmts |->
     IF /\ stmts[i].cmd \in {"CREATE TABLE", "CREATE MATERIALIZED VIEW"}
        /\ stmts[i].id \in Sharded
     THEN [stmts[i] EXCEPT !.opts = @ \cup {"colocation=false"}]
     ELSE stmts[i]]

\* The constraints that MergeConstraints moves into CREATE TABLE; one that is
\* NOT VALID stays a statement, to be applied after the data.
Mergeable(s) == s.cmd \in {"ADD PRIMARY KEY", "ADD CHECK"} /\ ~s.notValid

HasTable(stmts, t) ==
  \E i \in DOMAIN stmts : stmts[i].cmd = "CREATE TABLE" /\ stmts[i].id = t

MergeConstraints(stmts) ==
  LET into(t) == {stmts[i] : i \in {j \in DOMAIN stmts :
                      /\ stmts[j].cmd # "SET"
                      /\ Mergeable(stmts[j])
                      /\ stmts[j].on = t}}
      merged(s) ==
        IF s.cmd # "CREATE TABLE" THEN s
        ELSE LET cs == into(s.id)
                 pk == {c \in cs : c.cmd = "ADD PRIMARY KEY"}
             IN [s EXCEPT
                   !.makes = @ \cup UNION {c.makes : c \in cs},
                   !.needs = (@ \cup UNION {c.needs : c \in cs}) \ {s.id},
                   !.key = IF pk = {} THEN @ ELSE (CHOOSE c \in pk : TRUE).key]
      kept == SelectSeq(stmts, LAMBDA s : s.cmd = "SET" \/ ~Mergeable(s))
  IN [i \in DOMAIN kept |-> merged(kept[i])]

HashSplitting(v) ==
  [cmd |-> "SET", var |-> "yb_use_hash_splitting_by_default", val |-> v]

\* AddShardingStrategyForConstraints: tables with a hash key (or none) under
\* hash splitting, keys on a date or a timestamp and unique constraints without.
Group(s) ==
  CASE s.cmd \in {"SET", "SELECT"} -> 1
    [] s.cmd \in {"CREATE TABLE", "ADD PRIMARY KEY"} -> IF s.key = "range" THEN 3 ELSE 2
    [] s.cmd = "ADD UNIQUE" -> 4
    [] OTHER -> 5

AddShardingStrategy(stmts) ==
  LET group(g) == SelectSeq(stmts, LAMBDA s : Group(s) = g)
  IN group(1) \o <<HashSplitting("on")>> \o group(2)
       \o <<HashSplitting("off")>> \o group(3) \o group(4) \o group(5)

\* TableFileTransformer.Transform: the constraint of a table that is not in the
\* file fails it, and the caller leaves the file as it is.
TransformTable(stmts) ==
  IF \E i \in DOMAIN stmts : /\ stmts[i].cmd # "SET"
                             /\ Mergeable(stmts[i])
                             /\ ~HasTable(stmts, stmts[i].on)
  THEN stmts
  ELSE AddShardingStrategy(MergeConstraints(stmts))

\* IndexFileTransformer.Transform: RemoveRedundantIndexes, and
\* ModifySecondaryIndexesToRange on those whose order is not given.
TransformIndex(stmts) ==
  LET isIndex(s) == s.cmd \in {"CREATE INDEX", "CREATE UNIQUE INDEX"}
      kept == SelectSeq(stmts, LAMBDA s : ~(isIndex(s) /\ s.id \in Redundant))
  IN [i \in DOMAIN kept |->
        IF isIndex(kept[i]) /\ kept[i].opts = {}
        THEN [kept[i] EXCEPT !.opts = {"ASC"}] ELSE kept[i]]

-----------------------------------------------------------------------------
(* The command 'export schema': the dump is cut into files, the files are  *)
(* rewritten one after the other for YugabyteDB, and the migration status  *)
(* record says at the end that the schema is exported.  Before a file is   *)
(* rewritten a copy of it is kept; a target that is only compatible with   *)
(* PostgreSQL imports the copies.                                          *)

VARIABLES
  files,            \* schema/: a sequence of statements per object type
  backup,           \* backup_<file>, <<>> when there is none
  exportAt,         \* the next step of the command, 0 when it is not running
  ExportSchemaDone  \* the flag of the migration status record

exportVars == <<files, backup, exportAt, ExportSchemaDone>>

NoFiles == [o \in ObjectTypes \cup {"uncategorized"} |-> <<>>]

ExportInit ==
  /\ migration \in DOMAIN Migrations
  /\ files = NoFiles /\ backup = NoFiles /\ exportAt = 0 /\ ExportSchemaDone = FALSE

-----------------------------------------------------------------------------
\* exportSchema: without --start-clean a schema that is exported is left alone;
\* when it is not yet exported the flag is ignored and the directory kept.
StartExport ==
  /\ exportAt = 0 /\ ~ExportSchemaDone
  /\ exportAt' = 1
  /\ UNCHANGED <<files, backup, ExportSchemaDone>>

ExtractSchema ==
  /\ exportAt = 1
  /\ files' = parseSchemaFile
  /\ exportAt' = 2
  /\ UNCHANGED <<backup, ExportSchemaDone>>

\* applyMigrationAssessmentRecommendations, then applyTableFileTransformations
\* and applyIndexFileTransformations: two steps for each, the copy and the write.
Rewrites ==
  <<[file |-> "TABLE", by |-> "colocation"], [file |-> "MVIEW", by |-> "colocation"],
    [file |-> "TABLE", by |-> "table"], [file |-> "INDEX", by |-> "index"]>>

LastStep == 2 + 2 * Len(Rewrites)
Rewrite == Rewrites[exportAt \div 2]

Transform(by, stmts) ==
  CASE by = "colocation" -> applyShardedTablesRecommendation(stmts)
    [] by = "table" -> TransformTable(stmts)
    [] by = "index" -> TransformIndex(stmts)

EnsurePlainBackup(o) ==
  backup' = IF backup[o] # <<>> THEN backup ELSE [backup EXCEPT ![o] = files[o]]

BackUpFile ==
  /\ exportAt \in 2 .. LastStep - 1 /\ exportAt % 2 = 0
  /\ EnsurePlainBackup(Rewrite.file)
  /\ exportAt' = exportAt + 1
  /\ UNCHANGED <<files, ExportSchemaDone>>

WriteFile ==
  /\ exportAt \in 2 .. LastStep - 1 /\ exportAt % 2 = 1
  /\ files' = [files EXCEPT ![Rewrite.file] = Transform(Rewrite.by, @)]
  /\ exportAt' = exportAt + 1
  /\ UNCHANGED <<backup, ExportSchemaDone>>

setSchemaIsExported ==
  /\ exportAt = LastStep
  /\ ExportSchemaDone' = TRUE
  /\ exportAt' = 0
  /\ UNCHANGED <<files, backup>>

\* With --start-clean an exported schema is removed, in the order in which the
\* entries of schema/ are listed, and only then the flag is cleared.
SchemaEntries ==
  <<{"AGGREGATE"}, {"COLLATION"}, {"COMMENT"}, {"CONVERSION"}, {"DOMAIN"}, {"EXTENSION"},
    {"FUNCTION"}, {"MVIEW"}, {"OPERATOR"}, {"POLICY"}, {"PROCEDURE"}, {"RULE"}, {"SCHEMA"},
    {"SEQUENCE"}, {"TABLE", "INDEX", "FOREIGN TABLE"}, {"TRIGGER"}, {"TYPE"},
    {"uncategorized"}, {"VIEW"}>>

CleaningStep == LastStep + 1

StartCleanExport ==
  /\ exportAt = 0 /\ ExportSchemaDone
  /\ exportAt' = CleaningStep
  /\ UNCHANGED <<files, backup, ExportSchemaDone>>

\* The entries of schema/ that are still there.
Listed == SelectSeq(SchemaEntries, LAMBDA entry : \E o \in entry : files[o] # <<>>)

CleanDir ==
  /\ exportAt = CleaningStep /\ Listed # <<>>
  /\ files' = [o \in DOMAIN files |-> IF o \in Head(Listed) THEN <<>> ELSE files[o]]
  /\ backup' = [o \in DOMAIN backup |-> IF o \in Head(Listed) THEN <<>> ELSE backup[o]]
  /\ UNCHANGED <<exportAt, ExportSchemaDone>>

clearSchemaIsExported ==
  /\ exportAt = CleaningStep /\ Listed = <<>>
  /\ ExportSchemaDone' = FALSE
  /\ exportAt' = 1
  /\ UNCHANGED <<files, backup>>

ExportSteps ==
  \/ CleanDir \/ clearSchemaIsExported
  \/ ExtractSchema \/ BackUpFile \/ WriteFile \/ setSchemaIsExported
=============================================================================
