------------------------------ MODULE DdlIssues ------------------------------
(* The vocabulary of schema analysis: the catalogue of issues, the objects  *)
(* it takes out of DDL statements, what the issue detector remembers of the *)
(* statements it has read, and the issues of a statement given that.        *)
EXTENDS Naturals, Sequences, FiniteSets, SequencesExt

-----------------------------------------------------------------------------
(* The catalogue of issues that schema analysis and assessment report: what *)
(* each weighs, in which releases of YugabyteDB the feature behind it is    *)
(* available, and which issues are kept for a given target release.         *)
(*                                                                          *)
(* An issue has a type, a variant of it (a datatype, an index method), what *)
(* it is about besides its object (a column, a set of columns), the object, *)
(* an impact level and, per release series, the first release that has the  *)
(* feature generally available (ga), in early access (ea) and as a tech     *)
(* preview (tp).                                                            *)

Object(kind, name) == [kind |-> kind, name |-> name]

Version(series, release) == [series |-> series, release |-> release]

NotFixed == {}
Since(series) == {Version(s, 0) : s \in series}
PG15Series == {"2.25", "2025.1", "2025.2", "2026.1"}

Issue(type, variant, of, object, impact, ga, ea, tp) ==
    [type |-> type, variant |-> variant, of |-> of, object |-> object, impact |-> impact, ga |-> ga, ea |-> ea, tp |-> tp]
Unfixed(type, variant, of, object, impact) == Issue(type, variant, of, object, impact, NotFixed, NotFixed, NotFixed)
FixedByPG15(type, variant, of, object, impact) ==
    Issue(type, variant, of, object, impact, Since(PG15Series), NotFixed, NotFixed)

-----------------------------------------------------------------------------
(* Issues of tables, indexes and constraints. *)

GeneratedColumnsIssue(o, columns) == FixedByPG15("STORED_GENERATED_COLUMNS", "", columns, o, 1)
UnloggedTableIssue(o) == Issue("UNLOGGED_TABLES", "", {}, o, 1, Since(PG15Series \cup {"2024.2"}), NotFixed, NotFixed)
UnsupportedIndexMethodIssue(o, method) == Unfixed("UNSUPPORTED_INDEX_METHOD", method, {}, o, 1)
AlterTableIssue(o, variant) == Unfixed("ALTER_TABLE", variant, {}, o, 1)
ExclusionConstraintIssue(o, name) == Unfixed("EXCLUSION_CONSTRAINTS", "", {name}, o, 1)
DeferrableConstraintIssue(o, name) == Unfixed("DEFERRABLE_CONSTRAINTS", "", {name}, o, 3)
GinIndexIssue(o, variant) == Unfixed("GIN_INDEX", variant, {}, o, 1)
PolicyRoleIssue(o, roles) == Unfixed("POLICY_WITH_ROLES", "", roles, o, 1)
TriggerIssue(o, variant) == Unfixed("TRIGGER", variant, {}, o, 1)
BeforeRowOnPartitionTableIssue(o) == FixedByPG15("BEFORE_ROW_TRIGGER_ON_PARTITIONED_TABLE", "", {}, o, 1)
AlterTableAddPKOnPartitionIssue(o) ==
    Issue("ALTER_TABLE_ADD_PK_ON_PARTITIONED_TABLE", "", {}, o, 1,
          Since(PG15Series \cup {"2.23", "2024.1", "2024.2"}), NotFixed, NotFixed)
PartitionIssue(o, variant) == Unfixed("PARTITION", variant, {}, o, 1)

(* Datatypes that cannot be migrated, or not with the snapshot only. *)

UnsupportedDatatypeIssue(o, column, type) == Unfixed("UNSUPPORTED_DATATYPE", type, {column}, o, 3)
XMLDatatypeIssue(o, column) ==
    Issue("UNSUPPORTED_DATATYPE", "xml", {column}, o, 3, Since({"2026.1"}), NotFixed, NotFixed)
MultiRangeDatatypeIssue(o, column, type) == FixedByPG15("UNSUPPORTED_DATATYPE", type, {column}, o, 3)

LiveMigrationDatatypeIssue(o, column, type) == Unfixed("LIVE_MIGRATION_DATATYPE", type, {column}, o, 1)
LiveMigrationWithFFOrFBDatatypeIssue(o, column, type) == Unfixed("LIVE_MIGRATION_WITH_FF_FB_DATATYPE", type, {column}, o, 1)
InheritanceMigrationCaveatIssue(o) == Unfixed("INHERITANCE_MIGRATION_CAVEAT", "", {}, o, 1)

PrimaryOrUniqueConstraintOnDatatypeIssue(o, type, constraint) == Unfixed("PK_UK_ON_COMPLEX_DATATYPE", type, {constraint}, o, 1)
IndexOnDatatypeIssue(o, type) == Unfixed("INDEX_ON_COMPLEX_DATATYPE", type, {}, o, 1)

(* Issues of other objects. *)

ForeignTableIssue(o, server) == Unfixed("FOREIGN_TABLE", "", {server}, o, 1)
InheritanceIssue(o) ==
    Issue("INHERITANCE", "", {}, o, 3, Since({"2026.1"}), NotFixed, Since({"2025.1", "2025.2"}))
SecurityInvokerViewIssue(o) == FixedByPG15("SECURITY_INVOKER_VIEWS", "", {}, o, 1)
DeterministicOptionCollationIssue(o) == FixedByPG15("DETERMINISTIC_OPTION_WITH_COLLATION", "", {}, o, 1)
NonDeterministicCollationIssue(o) == Unfixed("NON_DETERMINISTIC_COLLATION", "", {}, o, 1)
ForeignKeyReferencesPartitionedTableIssue(o, name) == FixedByPG15("FOREIGN_KEY_REFERENCES_PARTITIONED_TABLE", "", {name}, o, 1)
SqlBodyInFunctionIssue(o) == FixedByPG15("SQL_BODY_IN_FUNCTION", "", {}, o, 1)
UniqueNullsNotDistinctIssue(o) == FixedByPG15("UNIQUE_NULLS_NOT_DISTINCT", "", {}, o, 1)
CompressionClauseForToasting(o) == Unfixed("COMPRESSION_CLAUSE_IN_TABLE", "", {}, o, 1)
DatabaseOptionsIssue(o, version) == Unfixed("DATABASE_OPTIONS", version, {}, o, 2)
ExtensionsIssue(o) == Unfixed("UNSUPPORTED_EXTENSION", "", {}, o, 3)

-----------------------------------------------------------------------------
(* Constructs of queries, in any statement that contains them. *)

AdvisoryLocksIssue(o) ==
    Issue("ADVISORY_LOCKS", "", {}, o, 2, Since({"2025.1", "2025.2", "2026.1"}), NotFixed, {Version("2.25", 1)})
SystemColumnIssue(o, column) == Unfixed("SYSTEM_COLUMN", column, {}, o, 2)
XmlFunctionsIssue(o) == Issue("XML_FUNCTIONS", "", {}, o, 2, Since({"2026.1"}), NotFixed, NotFixed)
RegexFunctionsIssue(o) == FixedByPG15("REGEX_FUNCTIONS", "", {}, o, 2)
RangeAggregateFunctionIssue(o) == FixedByPG15("RANGE_AGGREGATE_FUNCTION", "", {}, o, 2)
JsonIssue(o, variant) == Unfixed("JSON", variant, {}, o, 2)
UnsupportedFunctionIssue(o, variant) == Unfixed("UNSUPPORTED_FUNCTION", variant, {}, o, 2)
JsonbSubscriptingIssue(o) == FixedByPG15("JSONB_SUBSCRIPTING", "", {}, o, 2)
CopyFromWhereIssue(o) == FixedByPG15("COPY_FROM_WHERE", "", {}, o, 2)
CopyOnErrorIssue(o) == Unfixed("COPY_ON_ERROR", "", {}, o, 2)
FetchWithTiesIssue(o) == FixedByPG15("FETCH_WITH_TIES", "", {}, o, 2)
CTEWithMaterializedIssue(o) == FixedByPG15("CTE_WITH_MATERIALIZED_CLAUSE", "", {}, o, 2)
UnsupportedStatementIssue(o, variant) == Unfixed("UNSUPPORTED_STATEMENT", variant, {}, o, 2)
ListenNotifyIssue(o) ==
    Issue("LISTEN_NOTIFY", "", {}, o, 2, NotFixed, {Version("2025.2", 3), Version("2026.1", 0)}, NotFixed)
TwoPhaseCommitIssue(o) == Unfixed("TWO_PHASE_COMMIT", "", {}, o, 3)
SavepointUsageIssue(o) ==
    Issue("SAVEPOINT_USAGE", "", {}, o, 1,
          {Version("2024.2", 8), Version("2025.1", 4), Version("2025.2", 2), Version("2026.1", 0)}, NotFixed, NotFixed)

(* Performance advice. *)

HotspotOnIndexIssue(o, type, column) ==
    Issue("HOTSPOTS_ON_INDEX", type, {column}, o, 1, NotFixed,
          {Version("2025.2", 2), Version("2026.1", 0)}, {Version("2025.2", 1), Version("2026.1", 0)})
HotspotOnPKOrUKIssue(o, type, column) == Unfixed("HOTSPOTS_ON_PK_UK", type, {column}, o, 1)
ColumnStatisticsIssue(o, kind, column) == Unfixed("INDEX_COLUMN_STATISTICS", kind, {column}, o, 1)
ForeignKeyDatatypeMismatchIssue(o, column) == Unfixed("FOREIGN_KEY_DATATYPE_MISMATCH", "", {column}, o, 1)
MissingForeignKeyIndexIssue(o, columns) == Unfixed("MISSING_FOREIGN_KEY_INDEX", "", columns, o, 1)
\* One issue lists all the column sets that could be the key; here each is an issue.
MissingPrimaryKeyWhenUniqueNotNullIssue(o, columns) == Unfixed("MISSING_PRIMARY_KEY_WHEN_UNIQUE_NOT_NULL", "", columns, o, 1)

PerformanceOptimizationIssues ==
    {"HOTSPOTS_ON_INDEX", "HOTSPOTS_ON_PK_UK", "INDEX_COLUMN_STATISTICS", "FOREIGN_KEY_DATATYPE_MISMATCH",
     "MISSING_FOREIGN_KEY_INDEX", "MISSING_PRIMARY_KEY_WHEN_UNIQUE_NOT_NULL"}
-----------------------------------------------------------------------------
(* Which issues are kept for a target release, and how mature the feature   *)
(* behind an issue is there.                                                *)

isFixedInVersionMap(fixedIn, v) == \E w \in fixedIn : w.series = v.series /\ v.release >= w.release

GetMaturityInTarget(issue, v) ==
    CASE isFixedInVersionMap(issue.ga, v) -> "GA"
      [] ~isFixedInVersionMap(issue.ga, v) /\ isFixedInVersionMap(issue.ea, v) -> "EARLY_ACCESS"
      [] ~isFixedInVersionMap(issue.ga, v) /\ ~isFixedInVersionMap(issue.ea, v) /\ isFixedInVersionMap(issue.tp, v)
            -> "TECH_PREVIEW"
      [] OTHER -> "UNSUPPORTED"

\* A feature that is only previewed in the target is not there yet.
getIssuesNotFixedInTargetDbVersion(issues, v) == {i \in issues : GetMaturityInTarget(i, v) # "GA"}

\* What an issue says more strongly than another one of the same statement.
ShouldFilterOutIssue(issue, issues) ==
    \/ issue.type = "LIVE_MIGRATION_DATATYPE"
       /\ \E i \in issues : i.type = "UNSUPPORTED_DATATYPE" /\ i.variant = issue.variant
    \/ issue.type = "INHERITANCE_MIGRATION_CAVEAT" /\ \E i \in issues : i.type = "INHERITANCE"
finalizeIssues(issues) == {i \in issues : ~ShouldFilterOutIssue(i, issues)}

\* The issues of a statement as they are reported for target release v.
KeptIssues(issues, v) == finalizeIssues(getIssuesNotFixedInTargetDbVersion(issues, v))

-----------------------------------------------------------------------------
(* What schema analysis takes out of the parse tree of a DDL statement. A   *)
(* parse tree is a record: its node, the fields the processors read, and    *)
(* constructs, the set of expression nodes found anywhere below it. Names   *)
(* are qualified; NoName where the statement gives none.                    *)

NoName == ""

KeySuffix(contype) ==
    CASE contype = "UNIQUE"    -> "_key"
      [] contype = "PRIMARY"   -> "_pkey"
      [] contype = "EXCLUSION" -> "_excl"
      [] contype = "FOREIGN"   -> "_fkey"
      [] OTHER                 -> ""

generateConstraintName(table, contype, columns) ==
    FoldLeft(LAMBDA name, c : name \o "_" \o c, table, columns) \o KeySuffix(contype)

\* addConstraint: a constraint without a name gets the name PostgreSQL would
\* give it; only a foreign key refers to a table.
TableConstraint(table, c, columns, deferrable) ==
    [type |-> c.contype, columns |-> columns, deferrable |-> deferrable,
     name |-> IF c.conname = NoName THEN generateConstraintName(table, c.contype, columns) ELSE c.conname,
     refTable |-> IF c.contype = "FOREIGN" THEN c.pktable ELSE NoName,
     refColumns |-> IF c.contype = "FOREIGN" THEN c.pkAttrs ELSE <<>>]

deferrableConstraintsList == {"ATTR_DEFERRABLE", "ATTR_DEFERRED", "ATTR_IMMEDIATE"}

\* A DEFERRABLE attribute of a column follows the constraint it belongs to.
ColumnConstraints(table, elt) ==
    LET Add(constraints, i) ==
            LET c == elt.constraints[i]
            IN  IF c.contype \notin deferrableConstraintsList
                THEN Append(constraints, TableConstraint(table, c, <<elt.column>>, FALSE))
                ELSE IF i > 1 /\ constraints # <<>>
                THEN [constraints EXCEPT ![Len(constraints)].deferrable = TRUE]
                ELSE constraints
    IN  FoldLeft(Add, <<>>, [i \in 1..Len(elt.constraints) |-> i])

\* The elements between the parentheses: columns with their constraints, and
\* constraints of their own, in the order of the statement.
parseTableElts(table, elts) ==
    LET Of(elt) == IF elt.column # NoName THEN ColumnConstraints(table, elt)
                   ELSE <<TableConstraint(table, elt.constraints[1], elt.constraints[1].keys, elt.constraints[1].deferrable)>>
    IN  FoldLeft(LAMBDA all, elt : all \o Of(elt), <<>>, elts)

isGeneratedColumn(elt) == \E i \in DOMAIN elt.constraints : elt.constraints[i].contype = "GENERATED"

TableColumns(elts) == {elt \in Range(elts) : elt.column # NoName}

ProcessTable(s) ==
    LET partitionOf == s.inhRelations # <<>> /\ s.partbound
    IN  [object |-> Object("TABLE", s.name),
         unlogged |-> s.persistence = "u",
         ofType |-> s.ofTypename,
         partitionedFrom |-> IF partitionOf THEN s.inhRelations[1] ELSE NoName,
         inheritedFrom |-> IF partitionOf THEN <<>> ELSE s.inhRelations,
         columns |-> {[column |-> e.column, type |-> e.type, array |-> e.array, compression |-> e.compression] :
                         e \in TableColumns(s.elts)},
         generated |-> {e.column : e \in {e \in TableColumns(s.elts) : isGeneratedColumn(e)}},
         constraints |-> parseTableElts(s.name, s.elts),
         partitioned |-> s.partspec.strategy # NoName,
         strategy |-> s.partspec.strategy,
         expressionPartition |-> \E i \in DOMAIN s.partspec.elems : s.partspec.elems[i] = NoName,
         partitionColumns |-> SelectSeq(s.partspec.elems, LAMBDA c : c # NoName)]

ProcessForeignTable(s) ==
    [object |-> Object("FOREIGN TABLE", s.name), server |-> s.server,
     columns |-> {[column |-> e.column, type |-> e.type, array |-> e.array, compression |-> FALSE] :
                     e \in TableColumns(s.elts)}]

-----------------------------------------------------------------------------
(* Indexes: which columns the WHERE clause compares with what. *)

Predicate(column, value, op, notNull) == [column |-> column, value |-> value, op |-> op, notNull |-> notNull]

parseAExpr(e) == {Predicate(e.column, v, e.op, FALSE) : v \in e.values}
parseNULLTest(e) == {Predicate(e.column, NoName, NoName, e.test = "IS_NOT_NULL")}
parseBooleanTest(e) ==
    {Predicate(e.column, IF e.test \in {"IS_TRUE", "IS_NOT_FALSE"} THEN "t" ELSE "f", NoName, FALSE)}

RECURSIVE parseWhereClause(_)
parseWhereClause(e) ==
    CASE e.kind = "BoolExpr"    -> UNION {parseWhereClause(arg) : arg \in Range(e.args)}
      [] e.kind = "A_Expr"      -> parseAExpr(e)
      [] e.kind = "NullTest"    -> parseNULLTest(e)
      [] e.kind = "BooleanTest" -> parseBooleanTest(e)
      [] e.kind = "ColumnRef"   -> {Predicate(e.column, NoName, NoName, FALSE)}
      [] OTHER                  -> {}

parseIndexParams(params) ==
    [i \in DOMAIN params |->
        [column |-> params[i].column, ordering |-> params[i].ordering, expression |-> params[i].expression,
         castType |-> IF params[i].expression THEN params[i].castType ELSE NoName,
         castArray |-> params[i].expression /\ params[i].castArray]]

ProcessIndex(s) ==
    [object |-> Object("INDEX", s.name), table |-> s.table, method |-> s.method, unique |-> s.unique,
     options |-> s.options, params |-> parseIndexParams(s.params), predicates |-> parseWhereClause(s.where)]

(* Of an ALTER TABLE only the first command is read. *)
ProcessAlterTable(s) ==
    LET cmd == s.cmds[1]
        c   == cmd.constraint
        add == cmd.subtype = "AddConstraint"
    IN  [object |-> Object("TABLE", s.name), subtype |-> cmd.subtype, column |-> cmd.name,
         attributes |-> IF cmd.subtype = "SetOptions" THEN cmd.items ELSE 0,
         child |-> IF cmd.subtype = "AttachPartition" THEN cmd.child ELSE NoName,
         options |-> IF add THEN c.options ELSE 0,
         constraint |-> IF add
                        THEN [type |-> c.contype, name |-> c.conname, columns |-> c.keys, deferrable |-> c.deferrable,
                              refTable |-> c.pktable, refColumns |-> c.pkAttrs]
                        ELSE [type |-> NoName, name |-> NoName, columns |-> <<>>, deferrable |-> FALSE,
                              refTable |-> NoName, refColumns |-> <<>>]]

-----------------------------------------------------------------------------
(* The other objects. *)

ProcessPolicy(s) == [object |-> Object("POLICY", s.name), roles |-> s.roles \ {NoName}]

\* The second bit of timing is BEFORE.
IsBeforeRowTrigger(t) == t.row /\ (t.timing \div 2) % 2 = 1
ProcessTrigger(s) ==
    [object |-> Object("TRIGGER", s.name), table |-> s.table, constraint |-> s.isconstraint,
     transitions |-> s.transitionRels, timing |-> s.timing, row |-> s.row, function |-> s.funcname]

ProcessType(s) ==
    [object |-> Object("TYPE", s.name), enum |-> s.node = "CreateEnumStmt",
     fields |-> IF s.node = "CreateEnumStmt" THEN <<>> ELSE s.coldeflist]
ProcessDomain(s) == [object |-> Object("DOMAIN", s.name), base |-> s.type]

ProcessView(s) == [object |-> Object("VIEW", s.name), securityInvoker |-> "security_invoker" \in s.viewOptions]
ProcessMView(s) == [object |-> Object("MVIEW", s.name)]
ProcessCollation(s) == [object |-> Object("COLLATION", s.name), deterministic |-> s.deterministic]
ProcessFunction(s) ==
    [object |-> Object("FUNCTION", s.name), returns |-> s.returns, sqlBody |-> s.sqlBody]
ProcessExtension(s) == [object |-> Object("EXTENSION", s.name)]

\* GetDDLProcessor and Process. A statement of no interest gives no object.
ProcessDDL(s) ==
    CASE s.node = "CreateStmt"             -> ProcessTable(s)
      [] s.node = "IndexStmt"              -> ProcessIndex(s)
      [] s.node = "AlterTableStmt"         -> ProcessAlterTable(s)
      [] s.node = "CreatePolicyStmt"       -> ProcessPolicy(s)
      [] s.node = "CreateTrigStmt"         -> ProcessTrigger(s)
      [] s.node \in {"CompositeTypeStmt", "CreateEnumStmt"} -> ProcessType(s)
      [] s.node = "CreateDomainStmt"       -> ProcessDomain(s)
      [] s.node = "CreateForeignTableStmt" -> ProcessForeignTable(s)
      [] s.node = "ViewStmt"               -> ProcessView(s)
      [] s.node = "CreateTableAsStmt"      -> ProcessMView(s)
      [] s.node = "DefineStmt"             -> ProcessCollation(s)
      [] s.node = "CreateFunctionStmt"     -> ProcessFunction(s)
      [] s.node = "CreateExtensionStmt"    -> ProcessExtension(s)
      [] OTHER                             -> [object |-> Object("OBJECT", NoName)]

-----------------------------------------------------------------------------
(* What the issue detector remembers of the statements it has read, for the *)
(* checks that depend on other statements than the one in hand: the tables  *)
(* with their columns, constraints and indexes, the types, the domains and  *)
(* the functions. A detector p is a record of these; reading a statement    *)
(* gives a new one. The metadata of tables is completed, from parents to    *)
(* children and across foreign keys, once the file of tables has been read. *)

UnsupportedIndexDatatypes ==
    {"citext", "tsvector", "tsquery", "jsonb", "inet", "json", "macaddr", "macaddr8", "cidr", "bit", "varbit",
     "daterange", "tsrange", "tstzrange", "numrange", "int4range", "int8range", "interval", "circle", "box",
     "line", "lseg", "point", "pg_lsn", "path", "polygon", "txid_snapshot"}
hotspotRangeIndexesTypes == {"timestamptz", "timestamp", "date"}

Nothing == [x \in {} |-> x]
NoReference == [table |-> NoName, column |-> NoName, type |-> NoName]

NewParserIssueDetector(stats) ==
    [tables |-> Nothing, types |-> Nothing, domains |-> Nothing, primaryConsInAlter |-> {}, gin |-> FALSE,
     functions |-> {}, unsupportedForIndex |-> Nothing, hotspots |-> Nothing, jsonbColumns |-> {}, stats |-> stats]

NewTableMetadata ==
    [columns |-> Nothing, constraints |-> <<>>, indexes |-> <<>>, partitioned |-> FALSE, inheritedFrom |-> <<>>,
     partitionedFrom |-> NoName, partitionColumns |-> <<>>]
getTableMetadata(p, name) == IF name \in DOMAIN p.tables THEN p.tables[name] ELSE NewTableMetadata
SetTable(p, name, tm) == [p EXCEPT !.tables = (name :> tm) @@ @]

ConstraintsByType(tm, type) == {c \in Range(tm.constraints) : c.type = type}
PartitionedTables(p) == {t \in DOMAIN p.tables : p.tables[t].partitioned}
isCompositeType(p, type) == type \in DOMAIN p.types /\ ~p.types[type].enum

-----------------------------------------------------------------------------
(* Reading a statement. *)

\* A primary key or a unique constraint is an index as well.
addConstraintAsIndex(tm, c) ==
    IF c.columns = <<>> THEN tm
    ELSE [tm EXCEPT !.indexes =
            Append(@, [unique |-> TRUE, method |-> "btree", predicates |-> {},
                       params |-> [i \in DOMAIN c.columns |-> [column |-> c.columns[i], expression |-> FALSE]]])]

AddConstraint(tm, c) ==
    [tm EXCEPT !.constraints =
        Append(@, [type |-> c.type, name |-> c.name, columns |-> c.columns,
                   refTable |-> c.refTable, refColumns |-> c.refColumns])]

ColumnMetadata(p, old, col) ==
    LET udt == isCompositeType(p, col.type)
    IN  [old EXCEPT
            !.type = CASE col.array -> "array" [] ~col.array /\ udt -> "user_defined_type" [] OTHER -> col.type,
            !.unsupported = @ \/ col.array \/ udt \/ col.type \in UnsupportedIndexDatatypes,
            !.hotspot = @ \/ (~col.array /\ ~udt /\ col.type \in hotspotRangeIndexesTypes),
            !.jsonb = @ \/ col.type = "jsonb"]
NewColumnMetadata ==
    [type |-> NoName, unsupported |-> FALSE, hotspot |-> FALSE, jsonb |-> FALSE, notNull |-> FALSE,
     references |-> NoReference]

SetNotNull(tm, column, value) ==
    IF column \in DOMAIN tm.columns THEN [tm EXCEPT !.columns[column].notNull = value] ELSE tm

ProcessAlter(p, alter) ==
    LET name == alter.object.name
        c    == alter.constraint
        tm   == getTableMetadata(p, name)
    IN  CASE c.type = "PRIMARY" ->
                 [SetTable(p, name, AddConstraint(addConstraintAsIndex(tm, c), c))
                     EXCEPT !.primaryConsInAlter = @ \cup {name}]
          [] c.type = "UNIQUE" /\ c.columns # <<>> ->
                 SetTable(p, name, AddConstraint(addConstraintAsIndex(tm, c), c))
          [] c.type = "FOREIGN" -> SetTable(p, name, AddConstraint(tm, c))
          [] alter.subtype = "SetNotNull"  -> SetTable(p, name, SetNotNull(tm, alter.column, TRUE))
          [] alter.subtype = "DropNotNull" -> SetTable(p, name, SetNotNull(tm, alter.column, FALSE))
          [] alter.subtype = "AttachPartition" ->
                 SetTable(p, alter.child, [getTableMetadata(p, alter.child) EXCEPT !.partitionedFrom = name])
          [] OTHER -> p

ProcessCreateTable(p, table) ==
    LET name == table.object.name
        tm   == getTableMetadata(p, name)
        Old(c) == IF c \in DOMAIN tm.columns THEN tm.columns[c] ELSE NewColumnMetadata
        names == {col.column : col \in table.columns}
        read == [tm EXCEPT
                    !.partitioned = table.partitioned,
                    !.partitionedFrom = IF table.partitionedFrom # NoName THEN table.partitionedFrom ELSE @,
                    !.inheritedFrom = IF table.inheritedFrom # <<>> THEN table.inheritedFrom ELSE @,
                    !.partitionColumns = table.partitionColumns,
                    !.columns = [c \in names |-> ColumnMetadata(p, Old(c),
                                                    CHOOSE col \in table.columns : col.column = c)] @@ @]
        Track(t, c) == IF c.type \in {"PRIMARY", "UNIQUE", "FOREIGN"} THEN AddConstraint(t, c)
                       ELSE IF c.type = "NOTNULL" /\ Len(c.columns) = 1 THEN SetNotNull(t, c.columns[1], TRUE)
                       ELSE t
        Keys(type) == SelectSeq(table.constraints, LAMBDA c : c.type = type)
        tracked == FoldLeft(Track, read, table.constraints)
    IN  SetTable(p, name, FoldLeft(addConstraintAsIndex, tracked, Keys("PRIMARY") \o Keys("UNIQUE")))

addIndexToCoverage(p, index) ==
    SetTable(p, index.table,
        [getTableMetadata(p, index.table) EXCEPT
            !.indexes = Append(@, [unique |-> index.unique, method |-> index.method, predicates |-> index.predicates,
                                   params |-> [i \in DOMAIN index.params |->
                                       [column |-> index.params[i].column, expression |-> index.params[i].expression]]])])

ParseAndProcessDDL(p, s) ==
    LET ddl == ProcessDDL(s)
        name == ddl.object.name
    IN  CASE s.node = "AlterTableStmt"     -> ProcessAlter(p, ddl)
          [] s.node = "CreateStmt"         -> ProcessCreateTable(p, ddl)
          [] s.node \in {"CompositeTypeStmt", "CreateEnumStmt"} -> [p EXCEPT !.types = (name :> ddl) @@ @]
          [] s.node = "CreateDomainStmt"   -> [p EXCEPT !.domains = (name :> ddl) @@ @]
          [] s.node = "IndexStmt"          -> [addIndexToCoverage(p, ddl) EXCEPT !.gin = @ \/ ddl.method = "gin"]
          [] s.node = "CreateFunctionStmt" -> [p EXCEPT !.functions = @ \cup {ddl}]
          [] OTHER -> p

-----------------------------------------------------------------------------
(* Completing the metadata of the tables. *)

\* topoSort and the copying of columns: a table's parents are completed before
\* the table, which then takes the columns it lacks from its parents in turn.
RECURSIVE ColumnsWithParents(_, _, _)
ColumnsWithParents(tables, parents, t) ==
    LET Known == SelectSeq(parents[t], LAMBDA q : q \in DOMAIN tables)
    IN  FoldLeft(LAMBDA cols, q : cols @@ ColumnsWithParents(tables, parents, q), tables[t].columns, Known)

finalizeColumnsFromParentMap(tables, parents) ==
    [t \in DOMAIN tables |-> [tables[t] EXCEPT !.columns = ColumnsWithParents(tables, parents, t)]]

\* The columns of a foreign key learn the type of the column they refer to.
finalizeForeignKeyConstraints(tables) ==
    LET RefType(c, i) ==
            IF c.refTable \in DOMAIN tables /\ c.refColumns[i] \in DOMAIN tables[c.refTable].columns
            THEN tables[c.refTable].columns[c.refColumns[i]].type ELSE NoName
        Reference(c, i) == IF i \in DOMAIN c.refColumns
                           THEN [table |-> c.refTable, column |-> c.refColumns[i], type |-> RefType(c, i)]
                           ELSE [NoReference EXCEPT !.table = c.refTable]
        Mark(cols, c) ==
            [k \in Range(c.columns) |->
                [(IF k \in DOMAIN cols THEN cols[k] ELSE NewColumnMetadata)
                    EXCEPT !.references = Reference(c, CHOOSE i \in DOMAIN c.columns : c.columns[i] = k)]] @@ cols
        ForeignKeys(t) == SelectSeq(tables[t].constraints, LAMBDA c : c.type = "FOREIGN")
    IN  [t \in DOMAIN tables |-> [tables[t] EXCEPT !.columns = FoldLeft(Mark, @, ForeignKeys(t))]]

\* Per table, its columns of a kind with their types; tables without any are left out.
GetColumnsWithUnsupportedIndexDatatypes(tables) ==
    LET Of(t) == {c \in DOMAIN tables[t].columns : tables[t].columns[c].unsupported}
    IN  [t \in {t \in DOMAIN tables : Of(t) # {}} |-> [c \in Of(t) |-> tables[t].columns[c].type]]
GetColumnsWithHotspotRangeIndexesDatatypes(tables) ==
    LET Of(t) == {c \in DOMAIN tables[t].columns : tables[t].columns[c].hotspot}
    IN  [t \in {t \in DOMAIN tables : Of(t) # {}} |-> [c \in Of(t) |-> tables[t].columns[c].type]]
GetJsonbColumns(tables) ==
    UNION {{c \in DOMAIN tables[t].columns : tables[t].columns[c].jsonb} : t \in DOMAIN tables}

FinalizeTablesMetadata(p) ==
    LET inherited == [t \in DOMAIN p.tables |-> p.tables[t].inheritedFrom]
        partOf == [t \in DOMAIN p.tables |->
                      IF p.tables[t].partitionedFrom = NoName THEN <<>> ELSE <<p.tables[t].partitionedFrom>>]
        withParents == finalizeColumnsFromParentMap(finalizeColumnsFromParentMap(p.tables, inherited), partOf)
        tables == finalizeForeignKeyConstraints(withParents)
    IN  [p EXCEPT !.tables = tables,
                  !.unsupportedForIndex = GetColumnsWithUnsupportedIndexDatatypes(tables),
                  !.hotspots = GetColumnsWithHotspotRangeIndexesDatatypes(tables),
                  !.jsonbColumns = GetJsonbColumns(tables)]

\* A table and its partitions, their partitions and so on.
RECURSIVE PartitionHierarchy(_, _)
PartitionHierarchy(p, t) ==
    {t} \cup UNION {PartitionHierarchy(p, q) : q \in {q \in DOMAIN p.tables : p.tables[q].partitionedFrom = t}}

HasPrimaryKey(tm) == ConstraintsByType(tm, "PRIMARY") # {}
HasAnyRelatedTablePrimaryKey(p, t) == \E q \in PartitionHierarchy(p, t) : HasPrimaryKey(p.tables[q])
GetAllPartitionColumnsInHierarchy(p, t) ==
    UNION {Range(p.tables[q].partitionColumns) : q \in PartitionHierarchy(p, t)}

-----------------------------------------------------------------------------
(* The issues of a DDL statement, given what the detector p knows of the    *)
(* other statements: one detector per kind of object.                       *)

MultiRangeTypes == {"int4multirange", "int8multirange", "nummultirange", "tsmultirange", "tstzmultirange", "datemultirange"}
PostgresUnsupportedDataTypes ==
    {"geometry", "geography", "box2d", "box3d", "topogeometry", "raster", "pg_lsn", "txid_snapshot", "xml", "xid",
     "xid8", "lo"} \cup MultiRangeTypes
PostgresUnsupportedDataTypesForDbzm ==
    PostgresUnsupportedDataTypes \cup
    {"point", "line", "lseg", "box", "path", "polygon", "circle", "cid", "vector", "halfvec", "sparsevec", "timetz",
     "refcursor"}
LiveMigrationWithFFOrFBUnsupportedDatatypes == {"tsquery"}

unsupportedLargeObjectFunctions == {"lo_create", "lo_creat", "lo_import", "lo_export", "lo_open", "lo_unlink", "lo_manage"}
SupportedExtensionsOnYB == {"citext", "hstore", "pgcrypto", "plpgsql", "postgres_fdw", "uuid-ossp"}

-----------------------------------------------------------------------------
(* Datatypes of columns. *)

UnderlyingType(name, kind) == [name |-> name, kind |-> kind]

\* The types a type is built from, itself first: a domain's base type, the
\* types of a composite's fields; types are the ones listed so far.
RECURSIVE WalkTypes(_, _, _)
WalkTypes(p, type, types) ==
    LET seen == {types[i].name : i \in DOMAIN types}
    IN  CASE type \in seen -> types
          [] type \notin seen /\ type \in DOMAIN p.domains ->
                 WalkTypes(p, p.domains[type].base, Append(types, UnderlyingType(type, "domain")))
          [] type \notin seen /\ type \notin DOMAIN p.domains /\ type \in DOMAIN p.types ->
                 IF p.types[type].enum THEN Append(types, UnderlyingType(type, "enum"))
                 ELSE FoldLeft(LAMBDA ts, f : WalkTypes(p, f.type, ts),
                               Append(types, UnderlyingType(type, "composite")), p.types[type].fields)
          [] OTHER -> Append(types, UnderlyingType(type, "builtin"))
GetUnderlyingTypes(p, type) == WalkTypes(p, type, <<>>)

\* A typed table has the columns of its type.
getColumnsWithTypes(p, table) ==
    IF table.ofType \in DOMAIN p.types THEN Range(p.types[table.ofType].fields) ELSE table.columns

isListedDatatype(t, datatypes) == t.kind = "builtin" /\ t.name \in datatypes

\* What makes a column of this type unfit for each way to migrate.
GetColumnDatatypeSupport(p, type) ==
    LET types == GetUnderlyingTypes(p, type)
        Composites == {i \in DOMAIN types : types[i].kind = "composite"}
        Outermost(i) == i \in Composites /\ \A j \in Composites : i <= j
    IN  [offline |-> {t \in Range(types) : isListedDatatype(t, PostgresUnsupportedDataTypes)},
         live    |-> {t \in Range(types) : isListedDatatype(t, PostgresUnsupportedDataTypesForDbzm)},
         ffOrFb  |-> {types[i] : i \in {i \in DOMAIN types :
                         Outermost(i) \/ isListedDatatype(types[i], LiveMigrationWithFFOrFBUnsupportedDatatypes)}}]

ReportUnsupportedDatatypes(type, column, o) ==
    CASE type = "xml" -> XMLDatatypeIssue(o, column)
      [] type \in MultiRangeTypes -> MultiRangeDatatypeIssue(o, column, type)
      [] OTHER -> UnsupportedDatatypeIssue(o, column, type)
\* The vector types share an issue.
ReportUnsupportedDatatypesInLive(type, column, o) ==
    LiveMigrationDatatypeIssue(o, column, IF type \in {"halfvec", "sparsevec"} THEN "vector" ELSE type)
ReportUnsupportedDatatypesInLiveWithFFOrFB(type, column, o) == LiveMigrationWithFFOrFBDatatypeIssue(o, column, type)

ColumnIssues(p, col, o) ==
    LET support == GetColumnDatatypeSupport(p, col.type)
    IN  {ReportUnsupportedDatatypes(t.name, col.column, o) : t \in support.offline}
        \cup {ReportUnsupportedDatatypesInLive(t.name, col.column, o) : t \in support.live}
        \cup (IF support.live # {} THEN {}
              ELSE {ReportUnsupportedDatatypesInLiveWithFFOrFB(t.name, col.column, o) : t \in support.ffOrFb})
        \cup (IF col.compression THEN {CompressionClauseForToasting(o)} ELSE {})

-----------------------------------------------------------------------------
(* Keys: their columns' types, in tables and in ALTER TABLE alike. *)

reportIndexOrConstraintIssuesOnComplexDatatypes(o, type, isPkOrUk, name) ==
    IF isPkOrUk THEN PrimaryOrUniqueConstraintOnDatatypeIssue(o, type, name) ELSE IndexOnDatatypeIssue(o, type)

\* timestamp and timestamptz share an issue.
reportHotspotsOnTimestampTypes(type, o, column, isSecondaryIndex) ==
    LET kind == IF type = "date" THEN "date" ELSE "timestamp"
    IN  IF isSecondaryIndex THEN HotspotOnIndexIssue(o, kind, column) ELSE HotspotOnPKOrUKIssue(o, kind, column)

TypeIn(map, table, column) ==
    IF table \in DOMAIN map /\ column \in DOMAIN map[table] THEN {map[table][column]} ELSE {}

detectForeignKeyDatatypeMismatch(p, o, columns) ==
    LET cols == getTableMetadata(p, o.name).columns
        Mismatch(c) == /\ c \in DOMAIN cols /\ cols[c].references # NoReference
                       /\ cols[c].references.type # NoName /\ cols[c].type # NoName
                       /\ cols[c].type # cols[c].references.type
    IN  {ForeignKeyDatatypeMismatchIssue(o, c) : c \in {c \in Range(columns) : Mismatch(c)}}

detectHotspotIssueOnConstraint(p, o, columns) ==
    IF getTableMetadata(p, o.name).partitioned \/ columns = <<>> THEN {}
    ELSE {reportHotspotsOnTimestampTypes(t, o, columns[1], FALSE) : t \in TypeIn(p.hotspots, o.name, columns[1])}

KeyIssues(p, o, c) ==
    {reportIndexOrConstraintIssuesOnComplexDatatypes(o, t, TRUE, c.name) :
        t \in UNION {TypeIn(p.unsupportedForIndex, o.name, col) : col \in Range(c.columns)}}
    \cup detectHotspotIssueOnConstraint(p, o, c.columns)

\* What a constraint of a table is worth, wherever it is declared.
ConstraintIssues(p, o, c) ==
    (IF c.type = "EXCLUSION" THEN {ExclusionConstraintIssue(o, c.name)} ELSE {})
    \cup (IF c.type # "FOREIGN" /\ c.deferrable THEN {DeferrableConstraintIssue(o, c.name)} ELSE {})
    \cup (IF c.type = "FOREIGN" THEN detectForeignKeyDatatypeMismatch(p, o, c.columns) ELSE {})
    \cup (IF c.type = "FOREIGN" /\ c.refTable \in PartitionedTables(p)
          THEN {ForeignKeyReferencesPartitionedTableIssue(o, c.name)} ELSE {})
    \cup (IF c.type \in {"PRIMARY", "UNIQUE"} THEN KeyIssues(p, o, c) ELSE {})

-----------------------------------------------------------------------------
(* The detectors. A pair <<c, issue>> reports the issue if c holds. *)

Reported(conds) == {c[2] : c \in {c \in conds : c[1]}}

PartitionedTableIssues(p, o, table) ==
    LET KeyColumns(type) ==
            UNION {Range(table.constraints[i].columns) : i \in {i \in DOMAIN table.constraints : table.constraints[i].type = type}}
        pk == KeyColumns("PRIMARY")
    IN  Reported({<<o.name \in p.primaryConsInAlter, AlterTableAddPKOnPartitionIssue(o)>>,
                  <<table.expressionPartition /\ pk \cup KeyColumns("UNIQUE") # {}, PartitionIssue(o, "EXPRESSION")>>,
                  <<table.strategy = "LIST" /\ Len(table.partitionColumns) > 1, PartitionIssue(o, "MULTI_COLUMN_LIST")>>,
                  <<pk # {} /\ ~(Range(table.partitionColumns) \subseteq pk), PartitionIssue(o, "INSUFFICIENT_PK_COLUMNS")>>})

TableIssueDetector(p, table) ==
    LET o == table.object
    IN  Reported({<<table.generated # {}, GeneratedColumnsIssue(o, table.generated)>>,
                  <<table.unlogged, UnloggedTableIssue(o)>>,
                  <<table.inheritedFrom # <<>>, InheritanceIssue(o)>>,
                  <<table.inheritedFrom # <<>>, InheritanceMigrationCaveatIssue(o)>>})
        \cup UNION {ConstraintIssues(p, o, c) : c \in Range(table.constraints)}
        \cup UNION {ColumnIssues(p, col, o) : col \in getColumnsWithTypes(p, table)}
        \cup (IF table.partitioned THEN PartitionedTableIssues(p, o, table) ELSE {})

ForeignTableIssueDetector(p, table) ==
    {ForeignTableIssue(table.object, table.server)}
    \cup UNION {{ReportUnsupportedDatatypes(t.name, col.column, table.object) :
                    t \in GetColumnDatatypeSupport(p, col.type).offline} : col \in table.columns}

\* stats[table][column]: what the source's statistics say of its values.
MOST_FREQUENT_VALUE_THRESHOLD == 60
NULL_FREQUENCY_THRESHOLD == 40
reportVariousIndexPerfOptimizationsOnFirstColumnOfIndex(p, index) ==
    LET column == index.params[1].column
        known  == index.table \in DOMAIN p.stats /\ column \in DOMAIN p.stats[index.table]
        stat   == p.stats[index.table][column]
        Excludes(value) == \E q \in index.predicates : q.column = column /\ q.value = value /\ q.op = "<>"
        notNull == \E q \in index.predicates : q.column = column /\ q.notNull
    IN  IF getTableMetadata(p, index.table).partitioned \/ ~known THEN {}
        ELSE Reported({<<stat.commonFrequency >= MOST_FREQUENT_VALUE_THRESHOLD /\ ~Excludes(stat.commonValue),
                         ColumnStatisticsIssue(index.object, "MOST_FREQUENT_VALUE", column)>>,
                       <<stat.nullFrequency >= NULL_FREQUENCY_THRESHOLD /\ ~notNull,
                         ColumnStatisticsIssue(index.object, "NULL_VALUE", column)>>})

\* What the i-th key of a btree index is worth.
IndexParamIssues(p, index, i) ==
    LET o == index.object
        param == index.params[i]
        first == i = 1 /\ ~getTableMetadata(p, index.table).partitioned
        Complex(t) == reportIndexOrConstraintIssuesOnComplexDatatypes(o, t, FALSE, NoName)
    IN  IF param.expression
        THEN CASE param.castArray -> {IndexOnDatatypeIssue(o, "array")}
               [] ~param.castArray /\ isCompositeType(p, param.castType) -> {IndexOnDatatypeIssue(o, "user_defined_type")}
               [] ~param.castArray /\ param.castType \in UnsupportedIndexDatatypes -> {Complex(param.castType)}
               [] ~param.castArray /\ param.castType \in hotspotRangeIndexesTypes /\ first ->
                      {reportHotspotsOnTimestampTypes(param.castType, o, NoName, TRUE)}
               [] OTHER -> {}
        ELSE {Complex(t) : t \in TypeIn(p.unsupportedForIndex, index.table, param.column)}
             \cup (IF first THEN {reportHotspotsOnTimestampTypes(t, o, param.column, TRUE) :
                                     t \in TypeIn(p.hotspots, index.table, param.column)} ELSE {})
             \cup (IF i = 1 THEN reportVariousIndexPerfOptimizationsOnFirstColumnOfIndex(p, index) ELSE {})

IndexIssueDetector(p, index) ==
    LET o == index.object
        gin == index.method = "gin"
    IN  Reported({<<index.method \in {"gist", "brin", "spgist"}, UnsupportedIndexMethodIssue(o, index.method)>>,
                  <<index.options > 0, AlterTableIssue(o, "STORAGE_PARAMETERS")>>,
                  <<gin /\ Len(index.params) > 1, GinIndexIssue(o, "MULTI_COLUMN")>>,
                  <<gin /\ Len(index.params) = 1 /\ index.params[1].ordering # "DEFAULT", GinIndexIssue(o, "ORDERED")>>})
        \cup (IF index.method = "btree" THEN UNION {IndexParamIssues(p, index, i) : i \in DOMAIN index.params} ELSE {})

AlterTableIssueDetector(p, alter) ==
    LET o == alter.object
        c == alter.constraint
    IN  CASE alter.subtype = "SetOptions"     -> Reported({<<alter.attributes > 0, AlterTableIssue(o, "SET_ATTRIBUTES")>>})
          [] alter.subtype = "AddConstraint"  ->
                 ConstraintIssues(p, o, c)
                 \cup Reported({<<alter.options > 0, AlterTableIssue(o, "STORAGE_PARAMETERS")>>,
                                <<c.type = "PRIMARY" /\ o.name \in PartitionedTables(p), AlterTableAddPKOnPartitionIssue(o)>>})
          [] alter.subtype = "DisableRule"    -> {AlterTableIssue(o, "DISABLE_RULE")}
          [] alter.subtype = "ClusterOn"      -> {AlterTableIssue(o, "CLUSTER_ON")}
          [] alter.subtype = "SetCompression" -> {CompressionClauseForToasting(o)}
          [] OTHER                            -> {}

PolicyIssueDetector(policy) == Reported({<<policy.roles # {}, PolicyRoleIssue(policy.object, policy.roles)>>})

TriggerIssueDetector(p, t) ==
    Reported({<<t.constraint, TriggerIssue(t.object, "CONSTRAINT")>>,
              <<t.transitions > 0, TriggerIssue(t.object, "REFERENCING_CLAUSE")>>,
              <<IsBeforeRowTrigger(t) /\ t.table \in PartitionedTables(p), BeforeRowOnPartitionTableIssue(t.object)>>,
              <<t.function \in unsupportedLargeObjectFunctions, UnsupportedFunctionIssue(t.object, "LARGE_OBJECT")>>})

ViewIssueDetector(view) == Reported({<<view.securityInvoker, SecurityInvokerViewIssue(view.object)>>})
FunctionIssueDetector(f) == Reported({<<f.sqlBody, SqlBodyInFunctionIssue(f.object)>>})
CollationIssueDetector(c) ==
    Reported({<<c.deterministic = "false", NonDeterministicCollationIssue(c.object)>>,
              <<c.deterministic \notin {NoName, "false"}, DeterministicOptionCollationIssue(c.object)>>})
ExtensionIssueDetector(e) == Reported({<<e.object.name \notin SupportedExtensionsOnYB, ExtensionsIssue(e.object)>>})

\* GetDDLDetector and DetectIssues.
DetectIssues(p, s) ==
    LET ddl == ProcessDDL(s)
    IN  CASE s.node = "CreateStmt"             -> TableIssueDetector(p, ddl)
          [] s.node = "IndexStmt"              -> IndexIssueDetector(p, ddl)
          [] s.node = "AlterTableStmt"         -> AlterTableIssueDetector(p, ddl)
          [] s.node = "CreatePolicyStmt"       -> PolicyIssueDetector(ddl)
          [] s.node = "CreateTrigStmt"         -> TriggerIssueDetector(p, ddl)
          [] s.node = "CreateForeignTableStmt" -> ForeignTableIssueDetector(p, ddl)
          [] s.node = "ViewStmt"               -> ViewIssueDetector(ddl)
          [] s.node = "CreateFunctionStmt"     -> FunctionIssueDetector(ddl)
          [] s.node = "DefineStmt"             -> CollationIssueDetector(ddl)
          [] s.node = "CreateExtensionStmt"    -> ExtensionIssueDetector(ddl)
          [] OTHER                             -> {}
=============================================================================
