--------------------------- MODULE SchemaAnalysis ----------------------------
(* Schema analysis and what an assessment makes of it.                      *)
EXTENDS DdlIssues

-----------------------------------------------------------------------------
(* The constructs of queries that YugabyteDB lacks, looked for in every     *)
(* node of a statement's parse tree and in the statements inside functions  *)
(* and procedures. An expression node is a record: what it is, the name it  *)
(* carries (of a function, a column, a type, an option) and the nodes below *)
(* it. Of the lists of functions a few members stand for all.               *)

Node(node, name, args) == [node |-> node, name |-> name, args |-> args]

unsupportedAdvLockFuncs == {"pg_advisory_lock", "pg_advisory_unlock", "pg_try_advisory_lock"}
unsupportedSysCols == {"xmin", "xmax", "cmin", "cmax", "ctid"}
unsupportedXmlFunctions == {"xmlconcat", "xmlelement", "xpath", "xpath_exists", "xmltable"}
unsupportedRegexFunctions == {"regexp_count", "regexp_instr", "regexp_like"}
unsupportedRangeAggFunctions == {"range_agg", "range_intersect_agg"}
catalogFunctionsReturningJsonb == {"jsonb_build_object", "jsonb_set", "to_jsonb"}
unsupportedDatabaseOptionsFromPG15 == {"icu_locale", "locale_provider", "locale", "strategy", "collation_version", "oid"}
unsupportedDatabaseOptionsFromPG17 == {"builtin_locale", "icu_rules"}

\* TraverseParseTree: every node of a statement.
RECURSIVE TraverseParseTree(_)
TraverseParseTree(nodes) == Range(nodes) \cup UNION {TraverseParseTree(nodes[i].args) : i \in DOMAIN nodes}

RECURSIVE DoesNodeHandleJsonbData(_, _, _)
DoesNodeHandleJsonbData(n, columns, functions) ==
    CASE n.node = "ColumnRef" -> n.name \in columns
      [] n.node = "TypeCast"  -> n.name = "jsonb"
      [] n.node = "FuncCall"  -> n.name \in functions
      [] n.node = "A_Expr"    -> \E i \in DOMAIN n.args : DoesNodeHandleJsonbData(n.args[i], columns, functions)
      [] OTHER                -> FALSE

\* A function returns jsonb if it says so, or the type of a column known to be jsonb.
getJsonbReturnTypeFunctions(p) ==
    {f.object.name : f \in {f \in p.functions : \/ f.returns = [type |-> "jsonb", column |-> FALSE]
                                                \/ f.returns.column /\ f.returns.type \in p.jsonbColumns}}
    \cup catalogFunctionsReturningJsonb

-----------------------------------------------------------------------------
(* The detectors: what each finds among the nodes of a statement. *)

FuncCallDetector(nodes, o) ==
    LET Calls(functions) == \E n \in nodes : n.node = "FuncCall" /\ n.name \in functions
    IN  Reported({<<Calls(unsupportedAdvLockFuncs), AdvisoryLocksIssue(o)>>,
                  <<Calls(unsupportedXmlFunctions), XmlFunctionsIssue(o)>>,
                  <<Calls(unsupportedRangeAggFunctions), RangeAggregateFunctionIssue(o)>>,
                  <<Calls({"any_value"}), UnsupportedFunctionIssue(o, "ANY_VALUE")>>,
                  <<Calls(unsupportedRegexFunctions), RegexFunctionsIssue(o)>>,
                  <<Calls(unsupportedLargeObjectFunctions), UnsupportedFunctionIssue(o, "LARGE_OBJECT")>>})

ColumnRefDetector(nodes, o) ==
    {SystemColumnIssue(o, n.name) : n \in {n \in nodes : n.node = "ColumnRef" /\ n.name \in unsupportedSysCols}}

Has(nodes, kinds) == \E n \in nodes : n.node \in kinds

XmlExprDetector(nodes, o) == Reported({<<Has(nodes, {"XmlExpr"}), XmlFunctionsIssue(o)>>})
RangeTableFuncDetector(nodes, o) ==
    Reported({<<\E n \in nodes : n.node = "RangeTableFunc" /\ n.name = "xmltable", XmlFunctionsIssue(o)>>})

JsonbSubscriptingDetector(p, nodes, o) ==
    Reported({<<\E n \in nodes : /\ n.node = "A_Indirection" /\ n.args # <<>>
                                 /\ DoesNodeHandleJsonbData(n.args[1], p.jsonbColumns, getJsonbReturnTypeFunctions(p)),
                JsonbSubscriptingIssue(o)>>})

SelectStmtDetector(nodes, o) ==
    Reported({<<\E n \in nodes : n.node = "SelectStmt" /\ n.name = "WITH_TIES", FetchWithTiesIssue(o)>>})

CopyCommandUnsupportedConstructsDetector(nodes, o) ==
    LET Copy(option) == \E n \in nodes : n.node = "CopyStmt" /\ \E i \in DOMAIN n.args : n.args[i].name = option
    IN  Reported({<<Copy("where"), CopyFromWhereIssue(o)>>, <<Copy("on_error"), CopyOnErrorIssue(o)>>})

JsonConstructorFuncDetector(nodes, o) ==
    Reported({<<Has(nodes, {"JsonArrayAgg", "JsonArrayConstructor", "JsonObjectAgg", "JsonObjectConstructor"}),
                JsonIssue(o, "CONSTRUCTOR")>>})
JsonQueryFunctionDetector(nodes, o) == Reported({<<Has(nodes, {"JsonTable", "JsonFuncExpr"}), JsonIssue(o, "QUERY")>>})
JsonPredicateExprDetector(nodes, o) == Reported({<<Has(nodes, {"JsonIsPredicate"}), JsonIssue(o, "PREDICATE")>>})
MergeStatementDetector(nodes, o) == Reported({<<Has(nodes, {"MergeStmt"}), UnsupportedStatementIssue(o, "MERGE")>>})

UniqueNullsNotDistinctDetector(nodes, o) ==
    Reported({<<\E n \in nodes : n.node \in {"IndexStmt", "Constraint"} /\ n.name = "UNIQUE NULLS NOT DISTINCT",
                UniqueNullsNotDistinctIssue(o)>>})
NonDecimalIntegerLiteralDetector(nodes, o) ==
    Reported({<<\E n \in nodes : n.node = "A_Const" /\ n.name = "non-decimal", UnsupportedStatementIssue(o, "NON_DECIMAL_INTEGER")>>})
CommonTableExpressionDetector(nodes, o) ==
    Reported({<<\E n \in nodes : n.node = "CommonTableExpr" /\ n.name # "DEFAULT", CTEWithMaterializedIssue(o)>>})

\* These are reported for the database, whatever statement holds them.
DatabaseOptionsDetector(nodes) ==
    LET Of(n) == {n.args[i].name : i \in DOMAIN n.args}
        db(n) == Object("DATABASE", n.name)
    IN  UNION {Reported({<<Of(n) \cap unsupportedDatabaseOptionsFromPG15 # {}, DatabaseOptionsIssue(db(n), "PG15")>>,
                         <<Of(n) \cap unsupportedDatabaseOptionsFromPG17 # {}, DatabaseOptionsIssue(db(n), "PG17")>>}) :
                  n \in {n \in nodes : n.node = "CreatedbStmt"}}

ListenNotifyIssueDetector(nodes, o) ==
    Reported({<<\E n \in nodes : \/ n.node = "FuncCall" /\ n.name = "pg_notify"
                                 \/ n.node \in {"ListenStmt", "NotifyStmt", "UnlistenStmt"}, ListenNotifyIssue(o)>>})
TransactionIs(nodes, kinds) == \E n \in nodes : n.node = "TransactionStmt" /\ n.name \in kinds
TwoPhaseCommitDetector(nodes, o) ==
    Reported({<<TransactionIs(nodes, {"PREPARE", "COMMIT_PREPARED", "ROLLBACK_PREPARED"}), TwoPhaseCommitIssue(o)>>})
\* A savepoint is remembered, not reported.
SavepointDetector(nodes) == TransactionIs(nodes, {"SAVEPOINT", "ROLLBACK_TO", "RELEASE"})

genericIssues(p, s, o) ==
    LET nodes == TraverseParseTree(s.constructs)
    IN  FuncCallDetector(nodes, o) \cup ColumnRefDetector(nodes, o) \cup XmlExprDetector(nodes, o)
        \cup RangeTableFuncDetector(nodes, o) \cup SelectStmtDetector(nodes, o)
        \cup CopyCommandUnsupportedConstructsDetector(nodes, o) \cup JsonConstructorFuncDetector(nodes, o)
        \cup JsonQueryFunctionDetector(nodes, o) \cup MergeStatementDetector(nodes, o)
        \cup JsonbSubscriptingDetector(p, nodes, o) \cup UniqueNullsNotDistinctDetector(nodes, o)
        \cup JsonPredicateExprDetector(nodes, o) \cup NonDecimalIntegerLiteralDetector(nodes, o)
        \cup CommonTableExpressionDetector(nodes, o) \cup DatabaseOptionsDetector(nodes)
        \cup ListenNotifyIssueDetector(nodes, o) \cup TwoPhaseCommitDetector(nodes, o)

-----------------------------------------------------------------------------
(* The issues of a statement: DDL, DML or the body of a function. *)

DdlNodes == {"CreateStmt", "IndexStmt", "AlterTableStmt", "CreatePolicyStmt", "CreateTrigStmt", "CompositeTypeStmt",
             "CreateEnumStmt", "CreateDomainStmt", "CreateForeignTableStmt", "ViewStmt", "CreateTableAsStmt",
             "DefineStmt", "CreateFunctionStmt", "CreateExtensionStmt"}
IsDDL(s) == s.node \in DdlNodes

On(issues, o) == {[i EXCEPT !.object = o] : i \in issues}

getDDLIssues(p, s) ==
    IF ~s.parses \/ ~IsDDL(s) THEN {}
    ELSE DetectIssues(p, s) \cup On(genericIssues(p, s, ProcessDDL(s).object), ProcessDDL(s).object)

getDMLIssues(p, s) == IF IsDDL(s) THEN {} ELSE genericIssues(p, s, Object("DML_QUERY", NoName))

\* TraversePlPgSQLJson: the statements of a body, those of its blocks too.
RECURSIVE GetAllPLPGSQLStatements(_)
GetAllPLPGSQLStatements(body) ==
    FoldLeft(LAMBDA all, b : all \o b.exprs \o GetAllPLPGSQLStatements(b.body), <<>>, body)

IsPLPGSQLObject(s) == s.node = "CreateFunctionStmt" /\ ~s.sqlBody
Searchable(s) == s.parses /\ (IsPLPGSQLObject(s) => s.language = "plpgsql")

\* A statement inside the body that cannot be searched (an expression, mostly)
\* is passed over; the others are searched like any statement, functions
\* within functions included.
RECURSIVE getPLPGSQLIssues(_, _)
getPLPGSQLIssues(p, s) ==
    LET inner == {q \in Range(GetAllPLPGSQLStatements(s.body)) : Searchable(q)}
        getAllIssues(q) == getPLPGSQLIssues(p, q) \cup getDMLIssues(p, q) \cup getDDLIssues(p, q)
    IN  IF ~Searchable(s) \/ ~IsPLPGSQLObject(s) THEN {}
        ELSE On(UNION {getAllIssues(q) : q \in inner}, Object(s.kind, s.name))

GetDMLIssues(p, s, v) == KeptIssues(getDMLIssues(p, s), v)
GetDDLIssues(p, s, v) == KeptIssues(getDDLIssues(p, s), v)
GetAllPLPGSQLIssues(p, s, v) == KeptIssues(getPLPGSQLIssues(p, s), v)

-----------------------------------------------------------------------------
(* Schema analysis: the exported schema is read file by file, in the order  *)
(* of the object types; a file is cut into statements, the statements are   *)
(* matched with the phrases YugabyteDB does not accept and then searched    *)
(* with the parser. The report is the set of issues with their categories,  *)
(* and per object type the objects found and those with an issue.           *)
(*                                                                          *)
(* A line of a file is a record: the statement it is a part of and which    *)
(* part, whether it starts a CREATE of code, the dollar quote or BEGIN      *)
(* ATOMIC in it, whether it holds END, whether it ends in a semicolon, and  *)
(* the kind of comment it is (0: a comment without meaning to the analysis, *)
(* -1: no comment).                                                         *)

pgSchemaObjectList ==
    <<"SCHEMA", "COLLATION", "EXTENSION", "TYPE", "DOMAIN", "SEQUENCE", "TABLE", "INDEX", "FUNCTION", "AGGREGATE",
      "PROCEDURE", "VIEW", "TRIGGER", "MVIEW", "RULE", "COMMENT", "CONVERSION", "FOREIGN TABLE", "POLICY", "OPERATOR">>

\* FoldLeft, each step evaluated before the next (TLC would nest them all).
InTurn(op(_, _), base, seq) ==
    LET after[k \in 0..Len(seq)] ==
            IF k = 0 THEN base ELSE CHOOSE new \in {op(old, seq[k]) : old \in {after[k - 1]}} : TRUE
    IN  after[Len(seq)]

-----------------------------------------------------------------------------
(* Cutting a file into statements. *)

isEndOfSqlStmt(line) == line.ends
isStartOfCodeBlockSqlStmt(line) == line.starts
EndsCode(line, delim) == IF delim = "BEGIN ATOMIC" THEN line.end ELSE line.delim = delim

\* The statement from line i on ends at its first semicolon.
collectSqlStmt(lines, i) ==
    LET ends == {j \in i..Len(lines) : isEndOfSqlStmt(lines[j])}
    IN  IF ends = {} THEN Len(lines) ELSE Min(ends)

\* Within a body semicolons do not count: the statement ends at the first one
\* before the body starts, or in or after the line that ends the body.
collectSqlStmtContainingCode(lines, i) ==
    LET Starts(j) == lines[j].delim # NoName /\ ~isEndOfSqlStmt(lines[j])
        opens == {j \in i..Len(lines) : Starts(j)}
        open  == Min(opens)
        closes == {j \in (open + 1)..Len(lines) : EndsCode(lines[j], lines[open].delim)}
        close == Min(closes)
    IN  CASE opens = {} \/ collectSqlStmt(lines, i) < open -> collectSqlStmt(lines, i)
          [] opens # {} /\ collectSqlStmt(lines, i) >= open /\ closes = {} -> Len(lines)
          [] OTHER -> collectSqlStmt(lines, close)

\* Lines parse as a statement if they are all of its lines and nothing else.
Unparsable(s) == [s EXCEPT !.parses = FALSE]
ParseLines(ls) ==
    IF Len(ls) = ls[1].parts /\ \A j \in DOMAIN ls : ls[j].stmt = ls[1].stmt /\ ls[j].part = j
    THEN ls[1].stmt ELSE Unparsable(ls[1].stmt)

\* processCollectedSql names the statement by the object it creates, if that is
\* of the type the file is for; an inherited type is a table in the type file.
ObjectNameOf(s, objType) ==
    IF s.creates = objType \/ (objType = "TYPE" /\ s.creates = "TABLE") THEN s.name ELSE NoName

RECURSIVE ParseFrom(_, _, _, _)
ParseFrom(lines, i, objType, comment) ==
    IF i > Len(lines) THEN <<>>
    ELSE IF lines[i].comment >= 0 THEN ParseFrom(lines, i + 1, objType, lines[i].comment)
    ELSE LET end == IF isStartOfCodeBlockSqlStmt(lines[i])
                    THEN collectSqlStmtContainingCode(lines, i) ELSE collectSqlStmt(lines, i)
             s == ParseLines(SubSeq(lines, i, end))
         IN  <<[stmt |-> s, objName |-> ObjectNameOf(s, objType), comment |-> comment]>>
             \o ParseFrom(lines, end + 1, objType, 0)
parseSqlFileForObjectType(lines, objType) == ParseFrom(lines, 1, objType, 0)

\* files[f] are the lines of a file; the index files are read as one.
getSQLInfoArrayForObjectType(files, objType) ==
    LET Of(f) == IF f \in DOMAIN files THEN parseSqlFileForObjectType(files[f], objType) ELSE <<>>
    IN  IF objType = "INDEX" THEN Of("INDEX") \o Of("PARTITION_INDEX") \o Of("FTS_INDEX") ELSE Of(objType)

-----------------------------------------------------------------------------
(* The report: entries are issues with a category; invalid and found are    *)
(* the objects of each type with an issue, and all of them.                 *)

SummaryTypes == Range(pgSchemaObjectList) \cup {"TABLESPACE", "CURSOR", "ACCESS METHOD", "DATABASE", "DML_QUERY", "OBJECT"}
initializeSummaryMap(stats) ==
    [p |-> NewParserIssueDetector(stats), entries |-> {}, invalid |-> [t \in SummaryTypes |-> {}],
     found |-> [t \in SummaryTypes |-> {}], unloggedFiltered |-> FALSE]

IssueCategory(issue, isPlPgSQL) ==
    CASE issue.type \in PerformanceOptimizationIssues -> "performance_optimizations"
      [] issue.type \notin PerformanceOptimizationIssues /\ isPlPgSQL -> "unsupported_plpgsql_objects"
      [] ~isPlPgSQL /\ issue.type \in {"LIVE_MIGRATION_DATATYPE", "LIVE_MIGRATION_WITH_FF_FB_DATATYPE", "INHERITANCE_MIGRATION_CAVEAT",
                        "ALTER_TABLE_ADD_PK_ON_PARTITIONED_TABLE", "FOREIGN_TABLE", "POLICY_WITH_ROLES"} -> "migration_caveats"
      [] ~isPlPgSQL /\ issue.type = "UNSUPPORTED_DATATYPE" -> "unsupported_datatypes"
      [] OTHER -> "unsupported_features"
Entry(issue, category) == [issue |-> issue, category |-> category]

convertIssueInstanceToAnalyzeIssue(r, issues, isPlPgSQL) ==
    [r EXCEPT !.entries = @ \cup {Entry(i, IssueCategory(i, isPlPgSQL)) : i \in issues},
              !.invalid = [t \in SummaryTypes |-> @[t] \cup {i.object.name : i \in {i \in issues : i.object.kind = t}}]]

\* A phrase that matched, or a statement that is not PostgreSQL.
reportCase(r, type, o, impact) ==
    [r EXCEPT !.entries = @ \cup {Entry(Unfixed(type, "", {}, o, impact), "unsupported_features")}]
SyntaxIssue == "UNSUPPORTED_PG_SYNTAX"

reportBasedOnComment(r, info, objType) ==
    CASE info.comment = 1 -> [reportCase(r, SyntaxIssue, Object(objType, info.objName), 1)
                                 EXCEPT !.invalid[objType] = @ \cup {info.objName}]
      [] info.comment = 3 -> reportCase(r, SyntaxIssue, Object(objType, info.objName), 1)
      [] OTHER -> r

FoundObject(r, info, objType) ==
    IF info.objName = NoName THEN r
    ELSE [r EXCEPT !.found[IF info.stmt.creates = "TABLE" THEN "TABLE" ELSE objType] = @ \cup {info.objName}]

-----------------------------------------------------------------------------
(* Phrases. Each checker tries a list of them in order and stops at the     *)
(* first that matches: <<phrase, type of the object to count as invalid>>.  *)

checkSqlPhrases ==
    <<<<"RANGE OFFSET", "TABLE">>, <<"FETCH", "PROCEDURE">>, <<"ALTER AGGREGATE", "AGGREGATE">>,
      <<"DROP COLLATIONS", "COLLATION">>, <<"DROP INDEXES", "INDEX">>, <<"DROP VIEWS", "VIEW">>,
      <<"DROP SEQUENCES", "SEQUENCE">>, <<"DROP FOREIGN TABLES", "FOREIGN TABLE">>,
      <<"DROP INDEX CONCURRENTLY", "INDEX">>, <<"WHERE CURRENT OF", NoName>>, <<"BULK COLLECT", NoName>>>>
checkDDLPhrases ==
    <<<<"CREATE ACCESS METHOD", "TABLE">>, <<"REINDEX", "TABLE">>, <<"LIKE INCLUDING ALL", "TABLE">>, <<"LIKE", "TABLE">>,
      <<"WITH OIDS", "TABLE">>, <<"ALTER TABLE OF", "TABLE">>, <<"SET SCHEMA", "TABLE">>, <<"CREATE SCHEMA ELEMENTS", "SCHEMA">>,
      <<"NOT OF", "TABLE">>, <<"SET STATISTICS", "TABLE">>, <<"SET STORAGE", "TABLE">>, <<"RESET ATTRIBUTE", "TABLE">>,
      <<"ALTER CONSTRAINT", "TABLE">>, <<"SET WITH OIDS", "TABLE">>, <<"SET WITHOUT CLUSTER", "TABLE">>,
      <<"ALTER TABLE SET", "TABLE">>, <<"ALTER INDEX SET", "TABLE">>, <<"ALTER TABLE RESET", "TABLE">>,
      <<"ALTER TABLE OPTIONS", "TABLE">>, <<"DROP ATTRIBUTE", "TYPE">>, <<"ALTER TYPE", "TYPE">>, <<"INHERIT", "TABLE">>,
      <<"VALIDATE CONSTRAINT", "TABLE">>, <<"ALTER TABLESPACE", "TABLESPACE">>, <<"ALTER VIEW", "VIEW">>,
      <<"LANGUAGE C", "FUNCTION">>, <<"DROP TEMPORARY TABLE", "TABLE">>, <<"AnyData", "TABLE">>, <<"AnyDataSet", "TABLE">>,
      <<"AnyType", "TABLE">>, <<"URIType", "TABLE">>, <<"JSON_ARRAYAGG", "FUNCTION">>>>
checkForeignPhrases == <<<<"FOREIGN TABLE PRIMARY KEY", "TABLE">>, <<"FOREIGN TABLE REFERENCES", "TABLE">>>>
checkViewsPhrases == <<<<"WITH CHECK OPTION", "VIEW">>>>
checkRemainingPhrases == <<<<"COMPOUND TRIGGER", "TRIGGER">>>>

FirstMatch(r, info, phrases) ==
    LET s == info.stmt
        matches == {i \in DOMAIN phrases : phrases[i][1] \in s.phrases}
        first == phrases[Min(matches)]
        o == Object(IF first[2] = NoName THEN "CURSOR" ELSE first[2], s.name)
    IN  IF matches = {} \/ (first[1] = "FETCH" /\ ~s.fetchUnsupported) THEN r
        ELSE [reportCase(r, first[1], o, 1)
                 EXCEPT !.invalid = IF first[2] = NoName THEN @ ELSE [@ EXCEPT ![first[2]] = @ \cup {info.objName}]]

CheckAll(r, infos, phrases) == InTurn(LAMBDA rep, info : FirstMatch(rep, info, phrases), r, infos)

checkConversions(r, infos) ==
    LET One(rep, info) ==
            CASE info.stmt.node = "CreateConversionStmt" -> reportCase(rep, "CREATE_CONVERSION", Object("CONVERSION", info.stmt.name), 3)
              [] info.stmt.node # "CreateConversionStmt" /\ "ALTER CONVERSION" \in info.stmt.phrases ->
                     reportCase(rep, "ALTER CONVERSION", Object("CONVERSION", info.stmt.name), 1)
              [] OTHER -> rep
    IN  InTurn(One, r, infos)

-----------------------------------------------------------------------------
(* The parser. *)

ReadStatement(r, info, objType) ==
    IF info.stmt.parses THEN [r EXCEPT !.p = ParseAndProcessDDL(@, info.stmt)]
    ELSE IF info.objName \in r.invalid[objType] THEN r
    ELSE reportCase(r, SyntaxIssue, Object(objType, info.objName), 1)

AddIssues(r, issues, isPlPgSQL, detectPerf) ==
    convertIssueInstanceToAnalyzeIssue(r, {i \in issues : detectPerf \/ i.type \notin PerformanceOptimizationIssues}, isPlPgSQL)

\* Once the tables' statements are read, what needs all of them is completed.
FinishReading(read, objType) == IF objType = "TABLE" THEN [read EXCEPT !.p = FinalizeTablesMetadata(@)] ELSE read

\* An unlogged table that the target accepts is noted though it is no issue.
AddDDLIssues(r, found, v, detectPerf) ==
    AddIssues([r EXCEPT !.unloggedFiltered =
                           @ \/ \E i \in found : i.type = "UNLOGGED_TABLES" /\ GetMaturityInTarget(i, v) = "GA"],
              KeptIssues(found, v), FALSE, detectPerf)
SearchStatements(read, infos, v, detectPerf) ==
    InTurn(LAMBDA rep, info : AddDDLIssues(rep, getDDLIssues(read.p, info.stmt), v, detectPerf), read, infos)

\* Every statement of the file is read before any is searched: what is said of
\* one depends on the others.
checkStmtsUsingParser_OnePass(r, infos, objType, v, detectPerf) ==
    LET One(rep, info) ==
            SearchStatements(FinishReading(ReadStatement(rep, info, objType), objType), <<info>>, v, detectPerf)
    IN  InTurn(One, r, infos)
checkStmtsUsingParser(r, infos, objType, v, detectPerf) ==
    SearchStatements(FinishReading(InTurn(LAMBDA rep, info : ReadStatement(rep, info, objType), r, infos), objType),
                     infos, v, detectPerf)

checkPlPgSQLStmtsUsingParser(r, infos, v, detectPerf) ==
    InTurn(LAMBDA rep, info : AddIssues(rep, GetAllPLPGSQLIssues(rep.p, info.stmt, v), TRUE, detectPerf), r, infos)

checker(r, infos, objType, v, detectPerf) ==
    LET phrases == CheckAll(CheckAll(CheckAll(CheckAll(r, infos, checkViewsPhrases), infos, checkSqlPhrases),
                                     infos, checkDDLPhrases), infos, checkForeignPhrases)
        conversions == IF objType = "CONVERSION" THEN checkConversions(phrases, infos) ELSE phrases
        remaining == CheckAll(conversions, infos, checkRemainingPhrases)
    IN  checkPlPgSQLStmtsUsingParser(checkStmtsUsingParser(remaining, infos, objType, v, detectPerf), infos, v, detectPerf)

-----------------------------------------------------------------------------
(* What only the whole schema shows. *)

\* The key columns are the leading columns of the index, in any order.
hasIndexCoverage(index, columns) ==
    /\ Len(index.params) >= Len(columns)
    /\ \A i \in DOMAIN columns : ~index.params[i].expression
    /\ {index.params[i].column : i \in DOMAIN columns} = Range(columns)
hasProperIndexCoverage(tm, columns) == \E i \in DOMAIN tm.indexes : hasIndexCoverage(tm.indexes[i], columns)

DetectMissingForeignKeyIndexes(p) ==
    UNION {{MissingForeignKeyIndexIssue(Object("TABLE", t), Range(c.columns)) :
               c \in {c \in ConstraintsByType(p.tables[t], "FOREIGN") : ~hasProperIndexCoverage(p.tables[t], c.columns)}} :
              t \in DOMAIN p.tables}

GetUniqueColumnBasedIndexes(tm) ==
    {{tm.indexes[i].params[j].column : j \in DOMAIN tm.indexes[i].params} :
        i \in {i \in DOMAIN tm.indexes : /\ tm.indexes[i].unique
                                         /\ \A j \in DOMAIN tm.indexes[i].params : ~tm.indexes[i].params[j].expression}}

detectTablePKRecommendations(p, t) ==
    LET tm == p.tables[t]
        needed == IF tm.partitioned THEN GetAllPartitionColumnsInHierarchy(p, t) ELSE {}
        NotNull(c) == c \in DOMAIN tm.columns /\ tm.columns[c].notNull
        options == {cols \in GetUniqueColumnBasedIndexes(tm) : (\A c \in cols : NotNull(c)) /\ needed \subseteq cols}
    IN  IF tm.partitioned /\ tm.partitionColumns = <<>> THEN {}
        ELSE {MissingPrimaryKeyWhenUniqueNotNullIssue(Object("TABLE", t), cols) : cols \in options}

DetectPrimaryKeyRecommendations(p) ==
    UNION {detectTablePKRecommendations(p, t) :
              t \in {t \in DOMAIN p.tables : /\ p.tables[t].inheritedFrom = <<>>
                                             /\ p.tables[t].partitionedFrom = NoName
                                             /\ ~HasAnyRelatedTablePrimaryKey(p, t)}}

checkerMisc(r, detectPerf) ==
    IF ~detectPerf THEN r
    ELSE AddIssues(r, DetectMissingForeignKeyIndexes(r.p) \cup DetectPrimaryKeyRecommendations(r.p), FALSE, TRUE)

\* The statements of an object type: counted, then checked.
AnalyzeObjectType(r, infos, objType, v, detectPerf) ==
    IF infos = <<>> THEN r
    ELSE checker(InTurn(LAMBDA rep, info : reportBasedOnComment(FoundObject(rep, info, objType), info, objType), r, infos),
                 infos, objType, v, detectPerf)

\* The whole analysis; detectPerf when assess-migration asks for it.
analyzeSchemaInternal(files, v, stats, detectPerf) ==
    LET One(r, objType) == AnalyzeObjectType(r, getSQLInfoArrayForObjectType(files, objType), objType, v, detectPerf)
    IN  [checkerMisc(InTurn(One, initializeSummaryMap(stats), pgSchemaObjectList), detectPerf)
            EXCEPT !.entries = {e \in @ : ~isFixedInVersionMap(e.issue.ga, v)}]

-----------------------------------------------------------------------------
(* How complex the migration is, from the impact levels of the issues. *)

getComplexityForLevel(level, count) ==
    CASE level = 1 -> IF count <= 20 THEN 1 ELSE 2
      [] level = 2 -> IF count <= 10 THEN 1 ELSE IF count <= 100 THEN 2 ELSE 3
      [] level = 3 -> IF count = 0 THEN 1 ELSE IF count <= 4 THEN 2 ELSE 3
calculateMigrationComplexityForPG(entries) ==
    Max({getComplexityForLevel(level, Cardinality({e \in entries : e.issue.impact = level})) : level \in 1..3})

-----------------------------------------------------------------------------
(* What assess-migration makes of a schema: the issues of the analysis that *)
(* it takes over, those of the queries the source has executed, and how     *)
(* complex the migration is. A schema has its files, the statistics of its  *)
(* columns, the queries executed on it (statements with the schemas of the  *)
(* tables they use), the schemas that are migrated and the target release.  *)

\* fetchUnsupportedPGFeaturesFromSchemaReport and addMigrationCaveatsToAssessmentReport
\* ask for each of these by type; issues of other types are only in the
\* report of 'analyze-schema'.
AssessedFeatures ==
    {"UNSUPPORTED_INDEX_METHOD", "INHERITANCE", "STORED_GENERATED_COLUMNS", "CREATE_CONVERSION", "ALTER_TABLE",
     "UNSUPPORTED_EXTENSION", "EXCLUSION_CONSTRAINTS", "DEFERRABLE_CONSTRAINTS", "WITH CHECK OPTION",
     "INDEX_ON_COMPLEX_DATATYPE", "PK_UK_ON_COMPLEX_DATATYPE", "UNLOGGED_TABLES", "TRIGGER",
     "BEFORE_ROW_TRIGGER_ON_PARTITIONED_TABLE", "ADVISORY_LOCKS", "XML_FUNCTIONS", "SYSTEM_COLUMN",
     "UNSUPPORTED_FUNCTION", "REGEX_FUNCTIONS", "FETCH_WITH_TIES", "JSON", "RANGE_AGGREGATE_FUNCTION",
     "SECURITY_INVOKER_VIEWS", "DETERMINISTIC_OPTION_WITH_COLLATION", "NON_DETERMINISTIC_COLLATION",
     "UNIQUE_NULLS_NOT_DISTINCT", "JSONB_SUBSCRIPTING", "FOREIGN_KEY_REFERENCES_PARTITIONED_TABLE",
     "SQL_BODY_IN_FUNCTION", "CTE_WITH_MATERIALIZED_CLAUSE", "COMPRESSION_CLAUSE_IN_TABLE"}
    \cup PerformanceOptimizationIssues
AssessedVariants == {<<"GIN_INDEX", "MULTI_COLUMN">>, <<"UNSUPPORTED_STATEMENT", "NON_DECIMAL_INTEGER">>}
fetchUnsupportedPGFeaturesFromSchemaReport(entries) ==
    {e \in entries : /\ e.category \notin {"unsupported_datatypes", "unsupported_plpgsql_objects"}
                     /\ e.issue.type \in AssessedFeatures \/ <<e.issue.type, e.issue.variant>> \in AssessedVariants}

fetchUnsupportedPlPgSQLObjects(entries) == {e \in entries : e.category = "unsupported_plpgsql_objects"}

addPGUnsupportedDatatypeIssuesFromSchemaAnalysisReport(entries) ==
    {e \in entries : \/ e.category = "unsupported_datatypes"
                     \/ e.issue.type \in {"LIVE_MIGRATION_DATATYPE", "LIVE_MIGRATION_WITH_FF_FB_DATATYPE"}}

\* A query is of interest if it may use a schema that is migrated.
considerQueryForIssueDetection(used, schemas) ==
    LET named == used \ {"pg_catalog"}
    IN  named = {} \/ NoName \in named \/ named \cap schemas # {}

ConsideredQueries(schema) ==
    {q \in schema.queries : q.parses /\ considerQueryForIssueDetection(q.schemas, schema.schemas)}
fetchUnsupportedQueryConstructs(p, schema) ==
    {Entry(i, "unsupported_query_constructs") :
        i \in UNION {GetDMLIssues(p, q, schema.target) : q \in ConsideredQueries(schema)}}

IsSavepointUsed(schema) == \E q \in ConsideredQueries(schema) : SavepointDetector(TraverseParseTree(q.constructs))
addMigrationCaveatsToAssessmentReport(entries, schema) ==
    {e \in entries : e.issue.type \in {"ALTER_TABLE_ADD_PK_ON_PARTITIONED_TABLE", "FOREIGN_TABLE", "POLICY_WITH_ROLES",
                                       "INHERITANCE_MIGRATION_CAVEAT"} /\ e.category = "migration_caveats"}
    \cup {Entry(i, "migration_caveats") :
             i \in IF IsSavepointUsed(schema)
                   THEN getIssuesNotFixedInTargetDbVersion({SavepointUsageIssue(Object("DML_QUERY", NoName))}, schema.target)
                   ELSE {}}

AssessedEntries(r, schema) ==
    fetchUnsupportedPGFeaturesFromSchemaReport(r.entries) \cup fetchUnsupportedPlPgSQLObjects(r.entries)
    \cup fetchUnsupportedQueryConstructs(r.p, schema)
    \cup addPGUnsupportedDatatypeIssuesFromSchemaAnalysisReport(r.entries)
    \cup addMigrationCaveatsToAssessmentReport(r.entries, schema)
ReportContent(r, entries) ==
    [entries |-> entries, complexity |-> calculateMigrationComplexityForPG(entries),
     unloggedNote |-> r.unloggedFiltered, found |-> r.found, invalid |-> r.invalid]
ContentOf(r, schema) == ReportContent(r, AssessedEntries(r, schema))
getAssessmentReportContent(schema) ==
    ContentOf(analyzeSchemaInternal(schema.files, schema.target, schema.stats, TRUE), schema)
=============================================================================
