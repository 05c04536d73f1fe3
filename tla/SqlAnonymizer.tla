--------------------------- MODULE SqlAnonymizer ---------------------------
(* What call-home sends of the schema: each name and literal of a DDL       *)
(* statement is replaced by a token, kind and hash, in its parse tree.  A   *)
(* node is visited before its children; at a node every handler has its     *)
(* turn, the specific ones before the catch-alls, and the first to reach a  *)
(* name decides its kind.                                                   *)
(*                                                                          *)
(* A node has a type, what it is "of" (object type, subtype, option name),  *)
(* its names, each a sequence of parts, and its children.  A part carries,  *)
(* beside the name, what it names ("role", which no handler looks at); the  *)
(* hash of a name stands for the name, so a token is the part with a kind.  *)
EXTENDS Sequences, SequencesExt, FiniteSets, TLC

Raw(role, name) == [role |-> role, name |-> name, kind |-> ""]
Node(type, of, names, kids) == [type |-> type, of |-> of, names |-> names, kids |-> kids]

-----------------------------------------------------------------------------
(* Tokens. *)

isPartAnonymized(part) == part.kind # ""

\* What is a token already is given a second kind.
GetHash_Again(kind, part) == [part EXCEPT !.kind = kind]
GetHash(kind, part) == IF isPartAnonymized(part) THEN part ELSE [part EXCEPT !.kind = kind]

\* A literal is a token as soon as one of its parts is.
IsAnonymized(parts) == \E i \in DOMAIN parts : isPartAnonymized(parts[i])
HashLiteral(kind, parts) == IF IsAnonymized(parts) THEN parts ELSE [i \in DOMAIN parts |-> GetHash(kind, parts[i])]

\* [obj], [schema, obj] or [db, schema, obj]; a longer name is an error.
anonymizeStringNodes(parts, finalKind) ==
    LET n == Len(parts)
        kind == <<"db_", "schema_", finalKind>>
    IN  [i \in 1..n |-> IF n > 3 THEN [parts[i] EXCEPT !.kind = "error"] ELSE GetHash(kind[3 - n + i], parts[i])]

anonymizeQualifiedStringLiteral(parts, finalKind) == anonymizeStringNodes(parts, finalKind)

\* The last part is a column, whatever is left of it a table.
anonymizeColumnRefNode(parts) ==
    IF parts = <<>> THEN parts
    ELSE anonymizeStringNodes(Front(parts), "table_") \o anonymizeStringNodes(<<Last(parts)>>, "col_")

Has(n, name) == name \in DOMAIN n.names
Qualified(n, name, kind) == IF Has(n, name) THEN [n EXCEPT !.names[name] = anonymizeStringNodes(@, kind)] ELSE n
Each(n, name, kind) ==
    IF Has(n, name) THEN [n EXCEPT !.names[name] = [i \in DOMAIN n.names[name] |-> GetHash(kind, n.names[name][i])]] ELSE n
Literal(n, name, kind) == IF Has(n, name) THEN [n EXCEPT !.names[name] = HashLiteral(kind, @)] ELSE n
Column(n, name) == IF Has(n, name) THEN [n EXCEPT !.names[name] = anonymizeColumnRefNode(@)] ELSE n

Children(n, role) == IF role \in DOMAIN n.kids THEN n.kids[role] ELSE <<>>
InKids(n, role, Rewrite(_)) ==
    IF role \in DOMAIN n.kids THEN [n EXCEPT !.kids[role] = [i \in DOMAIN n.kids[role] |-> Rewrite(n.kids[role][i])]]
    ELSE n

anonymizeRangeVarNode(rv, kind) == Qualified(rv, "relname", kind)

Is(n, type, of) == n.type = type /\ n.of = of

\* List, String and TypeName nodes that hold an object's name.
InList(n, kind) == IF n.type = "List" THEN Qualified(n, "items", kind) ELSE n
InString(n, kind) == IF n.type = "String" THEN Qualified(n, "sval", kind) ELSE n
InTypeName(n, kind) == IF n.type = "TypeName" THEN Qualified(n, "names", kind) ELSE n

-----------------------------------------------------------------------------
(* Built-in names stay. *)

BuiltinTypeNames == {"int4", "int8", "text", "numeric", "time", "timestamp", "regclass", "jsonb"}
SystemSchemas == {"pg_catalog", "information_schema"}
KnownExtensionSchemas == {"postgis", "hstore"}
BuiltinFunctions == {"now", "lower", "nextval", "currval", "setval"}
SequenceFunctions == {"nextval", "currval", "setval"}

IsBuiltinType(tn) ==
    /\ tn.names["names"] # <<>>
    /\ Len(tn.names["names"]) = 1 \/ tn.names["names"][Len(tn.names["names"]) - 1].name = "pg_catalog"
    /\ Last(tn.names["names"]).name \in BuiltinTypeNames

IsSequenceFunction(funcname) ==
    /\ Len(funcname) \in 1..2
    /\ Len(funcname) = 2 => funcname[1].name = "pg_catalog"
    /\ Last(funcname).name \in SequenceFunctions

ShouldAnonymizeFunction(funcname) ==
    ~ \/ Len(funcname) = 1 /\ funcname[1].name \in BuiltinFunctions
      \/ Len(funcname) > 1 /\ funcname[1].name \in SystemSchemas \cup KnownExtensionSchemas

\* Kind of the objects of a type, for the statements that serve many types.
ObjectTypePrefixes ==
    [SCHEMA |-> "schema_", TABLE |-> "table_", VIEW |-> "view_", MATVIEW |-> "mview_", SEQUENCE |-> "seq_",
     INDEX |-> "index_", TYPE |-> "type_", COLLATION |-> "collation_", TRIGGER |-> "trigger_",
     ROLE |-> "role_", DATABASE |-> "db_", FUNCTION |-> "func_", PROCEDURE |-> "proc_", COLUMN |-> "col_",
     POLICY |-> "policy_", TABCONSTRAINT |-> "constraint_", CONVERSION |-> "conversion_",
     FOREIGN_TABLE |-> "ftable_", RULE |-> "rule_", AGGREGATE |-> "agg_", OPERATOR |-> "op_",
     OPCLASS |-> "opclass_", OPFAMILY |-> "opfamily_"] @@ ("DOMAIN" :> "domain_")
GetObjectTypePrefix(objectType) == IF objectType \in DOMAIN ObjectTypePrefixes THEN ObjectTypePrefixes[objectType] ELSE "anon_"

-----------------------------------------------------------------------------
(* Constants. *)

anonymizeAConst(ac, kind) == Literal(ac, "val", kind)

\* The value of an option: the name of a type, a literal, a string or a number.
anonymizeConstantValue(n, kind) ==
    CASE n.type = "TypeName" -> InTypeName(n, kind)
      [] n.type = "A_Const" -> anonymizeAConst(n, kind)
      [] n.type \in {"String", "Integer"} -> Literal(n, "sval", kind)
      [] OTHER -> n

literalNodesProcessor(n) == IF n.type = "A_Const" THEN anonymizeAConst(n, "const_") ELSE n

miscellaneousNodesProcessor(n) ==
    IF n.type = "DefElem" /\ n.of \in {"table_name", "schema"}
    THEN InKids(n, "arg", LAMBDA a : anonymizeConstantValue(a, IF n.of = "table_name" THEN "table_" ELSE "schema_"))
    ELSE n

-----------------------------------------------------------------------------
(* Handlers of one kind of object each. *)

handleSchemaObjectNodes(n) ==
    CASE n.type = "CreateSchemaStmt" -> Each(n, "schemaname", "schema_")
      [] Is(n, "AlterOwnerStmt", "SCHEMA") -> InKids(n, "object", LAMBDA o : InString(o, "schema_"))
      [] Is(n, "AlterOwnerStmt", "CONVERSION") -> InKids(n, "object", LAMBDA o : InList(o, "conversion_"))
      [] Is(n, "GrantStmt", "SCHEMA") -> InKids(n, "objects", LAMBDA o : InString(o, "schema_"))
      [] OTHER -> n

handleDefineStmtWithReturn(n, objectType, kind) == IF n.of = objectType THEN Qualified(n, "defnames", kind) ELSE n

handleCollationObjectNodes(n) ==
    IF n.type = "DefineStmt" THEN handleDefineStmtWithReturn(n, "COLLATION", "collation_") ELSE n

\* OWNED BY names a column of a table.
OwnedBy(d) == IF d.of = "owned_by" THEN InKids(d, "arg", LAMBDA l : Column(l, "items")) ELSE d

handleSequenceObjectNodes(n) ==
    CASE n.type = "CreateSeqStmt" -> InKids(n, "sequence", LAMBDA rv : anonymizeRangeVarNode(rv, "seq_"))
      [] n.type = "AlterSeqStmt" ->
             InKids(InKids(n, "sequence", LAMBDA rv : anonymizeRangeVarNode(rv, "seq_")), "options", OwnedBy)
      [] OTHER -> n

\* Options of CREATE TYPE AS RANGE.
RangeTypeKinds == [subtype |-> "type_", subtype_opclass |-> "opclass_", collation |-> "collation_",
                   canonical |-> "func_", subtype_diff |-> "func_", multirange_type_name |-> "type_"]

anonymizeRangeTypeParameters(d) ==
    InKids(d, "arg", LAMBDA a :
        IF a.type # "TypeName" \/ d.of \notin DOMAIN RangeTypeKinds THEN a
        ELSE IF RangeTypeKinds[d.of] = "type_" /\ IsBuiltinType(a) THEN a ELSE InTypeName(a, RangeTypeKinds[d.of]))

\* Options of CREATE TYPE of a base type.
anonymizeBaseTypeParameters(d) ==
    InKids(d, "arg", LAMBDA a :
        CASE d.of \in {"input", "output", "receive", "send", "typmod_in", "typmod_out", "analyze", "subscript"} ->
                 InTypeName(a, "func_")
          [] d.of \in {"like", "element"} ->
                 IF a.type = "TypeName" /\ IsBuiltinType(a) THEN a ELSE InTypeName(a, "type_")
          [] d.of \in {"internallength", "alignment", "storage", "category", "preferred", "default", "delimiter",
                       "passedbyvalue", "collatable"} -> anonymizeConstantValue(a, "const_")
          [] OTHER -> a)

handleUserDefinedTypeObjectNodes(n) ==
    CASE n.type = "CreateEnumStmt" -> Each(Qualified(n, "typename", "type_"), "vals", "enum_")
      [] n.type = "AlterEnumStmt" -> Each(Qualified(n, "typename", "type_"), "newval", "enum_")
      [] n.type = "CompositeTypeStmt" -> InKids(n, "typevar", LAMBDA rv : anonymizeRangeVarNode(rv, "type_"))
      [] n.type = "CreateRangeStmt" ->
             InKids(Qualified(n, "typename", "type_"), "params", anonymizeRangeTypeParameters)
      [] Is(n, "DefineStmt", "TYPE") ->
             InKids(handleDefineStmtWithReturn(n, "TYPE", "type_"), "definition", anonymizeBaseTypeParameters)
      [] OTHER -> n

handleDomainObjectNodes(n) == IF n.type = "CreateDomainStmt" THEN Qualified(n, "domainname", "domain_") ELSE n

\* What the name of a subcommand of ALTER TABLE names.
alterTablePrefixMap(subtype) ==
    CASE subtype \in {"DropColumn", "AlterColumnType", "ColumnDefault", "DropNotNull", "SetNotNull",
                      "SetStatistics", "SetOptions", "SetStorage", "AddIdentity", "SetIdentity", "DropIdentity"} -> "col_"
      [] subtype \in {"AlterConstraint", "ValidateConstraint", "DropConstraint"} -> "constraint_"
      [] subtype \in {"EnableTrig", "EnableAlwaysTrig", "EnableReplicaTrig", "DisableTrig"} -> "trigger_"
      [] subtype \in {"EnableRule", "EnableAlwaysRule", "EnableReplicaRule", "DisableRule"} -> "rule_"
      [] subtype = "ClusterOn" -> "index_"
      [] OTHER -> ""

IdentitySequence(o) == IF o.of = "sequence_name" THEN InKids(o, "arg", LAMBDA l : InList(l, "seq_")) ELSE o

AlterTableCmd(n) ==
    CASE n.of = "ReplicaIdentity" -> InKids(n, "def", LAMBDA r : Each(r, "name", "index_"))
      [] n.of = "AddIdentity" -> InKids(n, "def", LAMBDA c : InKids(c, "options", IdentitySequence))
      [] n.of = "AttachPartition" ->
             InKids(n, "def", LAMBDA p : InKids(p, "name", LAMBDA rv : anonymizeRangeVarNode(rv, "table_")))
      [] OTHER -> n

handlePartitionSpec(n) == InKids(n, "partspec", LAMBDA p : InKids(p, "params", LAMBDA e : Each(e, "name", "col_")))

handleTableObjectNodes(n) ==
    CASE n.type = "CreateStmt" -> handlePartitionSpec(n)
      [] n.type = "AlterTableStmt" -> InKids(n, "relation", LAMBDA rv : anonymizeRangeVarNode(rv, "table_"))
      [] n.type = "AlterTableCmd" ->
             AlterTableCmd(IF alterTablePrefixMap(n.of) = "" THEN n ELSE Each(n, "name", alterTablePrefixMap(n.of)))
      [] OTHER -> n

\* Every part, the schema too, is taken for an operator class.
anonymizeIndexOpclass(n) == Each(n, "opclass", "opclass_")

anonymizeIndexOpclassOptions(n) ==
    InKids(n, "opclassopts", LAMBDA d :
        InKids(Each(d, "defname", "param_"), "arg", LAMBDA a : anonymizeConstantValue(a, "const_")))

handleIndexObjectNodes(n) ==
    CASE n.type = "IndexStmt" -> Each(n, "idxname", "index_")
      [] n.type = "IndexElem" ->
             anonymizeIndexOpclassOptions(anonymizeIndexOpclass(Each(Each(n, "name", "col_"), "indexcolname", "alias_")))
      [] OTHER -> n

handlePolicyObjectNodes(n) == IF n.type = "CreatePolicyStmt" THEN Each(n, "policyname", "policy_") ELSE n

handleCommentObjectNodes(n) ==
    LET kind == GetObjectTypePrefix(n.of)
        \* the name first, then the table, qualified
        OnTable(l) ==
            IF l.type # "List" \/ Len(l.names["items"]) < 3 THEN l
            ELSE [l EXCEPT !.names["items"] = anonymizeStringNodes(<<Head(@)>>, kind)
                                                  \o anonymizeStringNodes(Tail(@), "table_")]
        Object(o) ==
            CASE n.of \in {"FUNCTION", "PROCEDURE"} ->
                     IF o.type = "ObjectWithArgs" THEN Qualified(o, "objname", kind) ELSE o
              [] n.of \in {"TYPE", "DOMAIN"} -> InTypeName(o, kind)
              [] n.of = "COLUMN" -> Column(o, "items")
              [] n.of \in {"TABCONSTRAINT", "TRIGGER", "POLICY"} -> OnTable(o)
              [] OTHER -> InString(InList(o, kind), kind)
    IN  IF n.type # "CommentStmt" THEN n ELSE Each(InKids(n, "object", Object), "comment", "const_")

handleConversionObjectNodes(n) ==
    IF n.type = "CreateConversionStmt"
    THEN Qualified(Qualified(n, "conversion_name", "conversion_"), "func_name", "func_") ELSE n

ForeignTableOption(d) ==
    InKids(d, "arg", LAMBDA a : InString(a, CASE d.of = "table_name" -> "table_"
                                              [] d.of = "schema_name" -> "schema_"
                                              [] OTHER -> "anon_"))

handleForeignTableObjectNodes(n) ==
    IF n.type # "CreateForeignTableStmt" THEN n
    ELSE InKids(Each(InKids(n, "base", LAMBDA b : InKids(b, "relation", LAMBDA rv : anonymizeRangeVarNode(rv, "ftable_"))),
                     "servername", "anon_"),
                "options", ForeignTableOption)

handleRuleObjectNodes(n) == IF n.type = "RuleStmt" THEN Each(n, "rulename", "rule_") ELSE n

AggregateFunction(d) ==
    IF d.of \in {"sfunc", "finalfunc", "msfunc", "minvfunc", "mfinalfunc"}
    THEN InKids(d, "arg", LAMBDA a : InTypeName(a, "func_")) ELSE d

handleAggregateObjectNodes(n) ==
    IF Is(n, "DefineStmt", "AGGREGATE")
    THEN InKids(handleDefineStmtWithReturn(n, "AGGREGATE", "agg_"), "definition", AggregateFunction) ELSE n

OperatorOption(d) ==
    InKids(d, "arg", LAMBDA a : CASE d.of \in {"procedure", "restrict", "join"} -> InTypeName(a, "func_")
                                  [] d.of \in {"commutator", "negator"} -> InList(a, "op_")
                                  [] OTHER -> a)

handleOperatorObjectNodes(n) ==
    IF Is(n, "DefineStmt", "OPERATOR")
    THEN InKids(handleDefineStmtWithReturn(n, "OPERATOR", "op_"), "definition", OperatorOption) ELSE n

OpClassItem(i) ==
    InKids(i, "name", LAMBDA o : Qualified(o, "objname", CASE i.of = "operator" -> "op_"
                                                           [] i.of = "function" -> "func_"
                                                           [] OTHER -> "anon_"))
OpFamilyItem(i) == InKids(i, "name", LAMBDA o : Qualified(o, "objname", "op_"))

handleOperatorClassAndFamilyObjectNodes(n) ==
    CASE n.type = "CreateOpClassStmt" ->
             InKids(Qualified(Qualified(n, "opclassname", "opclass_"), "opfamilyname", "opfamily_"), "items", OpClassItem)
      [] n.type = "CreateOpFamilyStmt" -> Qualified(n, "opfamilyname", "opfamily_")
      [] n.type = "AlterOpFamilyStmt" -> InKids(Qualified(n, "opfamilyname", "opfamily_"), "items", OpFamilyItem)
      [] OTHER -> n

-----------------------------------------------------------------------------
(* Statements that serve many types of objects. *)

handleGenericRenameStmt(n) ==
    LET kind == GetObjectTypePrefix(n.of)
        old == CASE n.of \in {"SCHEMA", "COLUMN"} -> Each(n, "subname", kind)
                 [] n.of \in {"COLLATION", "TYPE", "DOMAIN", "CONVERSION"} -> InKids(n, "object", LAMBDA o : InList(o, kind))
                 [] OTHER -> InKids(n, "object", LAMBDA o : InString(o, kind))
    IN  Each(old, "newname", kind)

handleGenericDropStmt(n) ==
    LET kind == GetObjectTypePrefix(n.of)
    IN  InKids(n, "objects", LAMBDA o : CASE n.of = "SCHEMA" -> InString(o, kind)
                                          [] n.of = "DOMAIN" -> InTypeName(o, kind)
                                          [] OTHER -> InString(InList(o, kind), kind))

handleGenericAlterObjectSchemaStmt(n) ==
    LET kind == GetObjectTypePrefix(n.of)
        object == CASE n.of \in {"TABLE", "SEQUENCE"} -> InKids(n, "relation", LAMBDA rv : anonymizeRangeVarNode(rv, kind))
                    [] n.of = "EXTENSION" -> InKids(n, "object", LAMBDA o : InString(o, "anon_"))
                    [] n.of \in {"TYPE", "CONVERSION"} -> InKids(n, "object", LAMBDA o : InList(o, kind))
                    [] OTHER -> n
    IN  Each(object, "newschema", "schema_")

-----------------------------------------------------------------------------
(* The catch-alls: nodes that occur in many statements. *)

\* A default that is a constant.
anonymizeColumnDefNode(n) ==
    InKids(Each(n, "colname", "col_"), "constraints", LAMBDA c :
        IF c.of = "DEFAULT" THEN InKids(c, "raw_expr", LAMBDA e : anonymizeConstantValue(e, "const_")) ELSE c)

\* The columns of a foreign key are taken for the parts of one name.
ConstraintNode(n) ==
    Each(Qualified(Qualified(Each(Each(n, "conname", "constraint_"), "keys", "col_"), "pk_attrs", "col_"),
                   "fk_attrs", "col_"), "indexname", "index_")

\* The sequence is named by a literal, with or without a cast.
anonymizeSequenceFunctionArgs(n) ==
    LET Name(a) == IF a.type = "A_Const" /\ a.of = "string"
                   THEN [a EXCEPT !.names["val"] = anonymizeQualifiedStringLiteral(@, "seq_")] ELSE a
        Arg(a) == IF a.type = "TypeCast" THEN InKids(a, "arg", Name) ELSE Name(a)
        args == Children(n, "args")
    IN  IF args = <<>> THEN n ELSE [n EXCEPT !.kids["args"][1] = Arg(args[1])]

anonymizeFuncCall(n) ==
    IF IsSequenceFunction(n.names["funcname"]) THEN anonymizeSequenceFunctionArgs(n)
    ELSE IF ShouldAnonymizeFunction(n.names["funcname"]) THEN Qualified(n, "funcname", "func_") ELSE n

CommonNodes(n) ==
    CASE n.type = "RangeVar" -> anonymizeRangeVarNode(n, "table_")
      [] n.type = "ColumnDef" -> anonymizeColumnDefNode(n)
      [] n.type = "ColumnRef" -> Column(n, "fields")
      [] n.type = "ResTarget" -> Each(n, "name", "col_")
      [] n.type = "Constraint" -> ConstraintNode(n)
      [] n.type = "Alias" -> Each(n, "aliasname", "alias_")
      [] n.type = "TypeName" -> IF IsBuiltinType(n) THEN n ELSE Qualified(n, "names", "type_")
      [] n.type = "RoleSpec" -> Each(n, "rolename", "role_")
      [] n.type = "RenameStmt" -> handleGenericRenameStmt(n)
      [] n.type = "DropStmt" -> handleGenericDropStmt(n)
      [] n.type = "AlterObjectSchemaStmt" -> handleGenericAlterObjectSchemaStmt(n)
      [] n.type = "FuncCall" -> anonymizeFuncCall(n)
      [] OTHER -> n

identifierNodesProcessor(n) ==
    CommonNodes(handleOperatorClassAndFamilyObjectNodes(handleOperatorObjectNodes(handleAggregateObjectNodes(
        handleRuleObjectNodes(handleForeignTableObjectNodes(handleConversionObjectNodes(handleCommentObjectNodes(
            handlePolicyObjectNodes(handleIndexObjectNodes(handleTableObjectNodes(handleDomainObjectNodes(
                handleUserDefinedTypeObjectNodes(handleSequenceObjectNodes(handleCollationObjectNodes(
                    handleSchemaObjectNodes(n))))))))))))))))

anonymizationProcessor(n) == miscellaneousNodesProcessor(literalNodesProcessor(identifierNodesProcessor(n)))

\* The children are visited first.
RECURSIVE TraverseParseTree_ChildrenFirst(_)
TraverseParseTree_ChildrenFirst(n) ==
    anonymizationProcessor(
        [n EXCEPT !.kids = [r \in DOMAIN n.kids |->
                               [i \in DOMAIN n.kids[r] |-> TraverseParseTree_ChildrenFirst(n.kids[r][i])]]])

RECURSIVE TraverseParseTree(_)
TraverseParseTree(n) ==
    LET m == anonymizationProcessor(n)
    IN  [m EXCEPT !.kids = [r \in DOMAIN m.kids |-> [i \in DOMAIN m.kids[r] |-> TraverseParseTree(m.kids[r][i])]]]

\* Statements with code in them, and those about objects with code, are left out.
unsupportedStatementTypes == {"CreateFunctionStmt", "AlterFunctionStmt", "ViewStmt", "RefreshMatViewStmt",
                              "CreateTrigStmt", "DoStmt", "CallStmt", "CreateEventTrigStmt", "AlterEventTrigStmt"}
unsupportedObjectTypes == {"FUNCTION", "PROCEDURE", "VIEW", "MATVIEW", "TRIGGER", "EVENT_TRIGGER"}

checkUnsupportedStatementType(n) ==
    \/ n.type \in unsupportedStatementTypes
    \/ /\ n.type \in {"CreateTableAsStmt", "DropStmt", "RenameStmt", "AlterOwnerStmt", "AlterObjectSchemaStmt",
                      "AlterTableStmt"}
       /\ n.of \in unsupportedObjectTypes

RECURSIVE PartsOf(_)
PartsOf(n) == UNION {ToSet(n.names[f]) : f \in DOMAIN n.names}
                  \cup UNION {UNION {PartsOf(n.kids[r][i]) : i \in DOMAIN n.kids[r]} : r \in DOMAIN n.kids}

\* The anonymized statement, or none.
AnonymizeSql(stmt) ==
    IF checkUnsupportedStatementType(stmt) THEN {}
    ELSE {tree \in {TraverseParseTree(stmt)} : \A part \in PartsOf(tree) : part.kind # "error"}

-----------------------------------------------------------------------------
(* Names outside of statements. *)

AnonymizeSchemaName(part) == GetHash("schema_", part)
AnonymizeTableName(part) == GetHash("table_", part)
AnonymizeIndexName(part) == GetHash("index_", part)
AnonymizeDatabaseName(part) == GetHash("db_", part)

AnonymizeQualifiedTableName(parts) ==
    IF Len(parts) = 2 THEN <<AnonymizeSchemaName(parts[1]), AnonymizeTableName(parts[2])>>
    ELSE HashLiteral("table_", parts)

-----------------------------------------------------------------------------
(* What 'assess-migration' and 'export schema' send home when they are done: *)
(* counts and sizes, and the names of the source as tokens.  The salt of the *)
(* tokens is generated once per migration and kept in its status record, so  *)
(* that payloads of one migration can be compared and of two cannot.         *)

NoSalt == 0

loadOrGenerateAnonymisationSalt(stored, fresh) == IF stored = NoSalt THEN fresh ELSE stored

\* Objects with code, and issues about code, are not sent.
skipObjectTypesForAnonymization == {"VIEW", "MVIEW", "TRIGGER", "FUNCTION", "PROCEDURE"}
skipCategoriesForAnonymization == {"unsupported_query_constructs", "unsupported_plpgsql_objects"}

NameOf(role, id) == Raw(role, ToString(id))

\* All schemas of the sources are called public.
anonymizeSourceDBDetails ==
    [database |-> AnonymizeDatabaseName(Raw("database", "db")), schemas |-> {AnonymizeSchemaName(Raw("schema", "public"))}]

SizingStats(stats) ==
    {[schema |-> AnonymizeSchemaName(Raw("schema", "public")),
      object |-> IF s.parent # 0 THEN AnonymizeIndexName(NameOf("index", s.name)) ELSE AnonymizeTableName(NameOf("table", s.name)),
      size |-> s.size, reads |-> s.reads, writes |-> s.writes] : s \in stats}

anonymizeQualifiedTableNames(tables) ==
    [i \in DOMAIN tables |-> AnonymizeQualifiedTableName(<<Raw("schema", "public"), NameOf("table", tables[i].name)>>)]

shouldSkipAnonymization(e) ==
    e.category \in skipCategoriesForAnonymization \/ e.issue.object.kind \in skipObjectTypesForAnonymization

\* The object is named for an issue of a datatype, on its table.
anonymizeAssessmentIssuesForCallhomePayload(entries) ==
    {[type |-> e.issue.type, kind |-> e.issue.object.kind,
      object |-> IF ~shouldSkipAnonymization(e) /\ e.category = "unsupported_datatypes"
                 THEN AnonymizeQualifiedTableName(<<Raw("schema", "public"), Raw("table", e.issue.object.name)>>)
                 ELSE <<>>] : e \in entries}

\* A statement that cannot be anonymized is left out.
getAnonymizedDDLs(ddls) ==
    UNION {AnonymizeSql(d.stmt) : d \in {d \in ddls : d.file \notin skipObjectTypesForAnonymization}}

packAndSendAssessMigrationPayload(salt, report, ddls) ==
    [phase |-> "assess-migration", salt |-> salt, details |-> anonymizeSourceDBDetails,
     stats |-> SizingStats(report.stats),
     colocated |-> anonymizeQualifiedTableNames(report.recommendation.colocated),
     sharded |-> anonymizeQualifiedTableNames(report.recommendation.sharded),
     issues |-> anonymizeAssessmentIssuesForCallhomePayload(report.content.entries),
     ddls |-> getAnonymizedDDLs(ddls), removed |-> {}]

\* Indexes that 'export schema' left out, each on its table.
getAnonymizedIndexObjectsFromIndexToTableMap(indexes) ==
    {[index |-> AnonymizeIndexName(NameOf("index", i.name)),
      table |-> AnonymizeQualifiedTableName(<<Raw("schema", "public"), NameOf("table", i.table)>>)] : i \in indexes}

packAndSendExportSchemaPayload(salt, dropped) ==
    [phase |-> "export-schema", salt |-> salt, details |-> anonymizeSourceDBDetails, stats |-> {}, colocated |-> <<>>,
     sharded |-> <<>>, issues |-> {}, ddls |-> {}, removed |-> getAnonymizedIndexObjectsFromIndexToTableMap(dropped)]

-----------------------------------------------------------------------------
(* For the properties. *)

\* Places whose names the handlers take for something else: the columns of a
\* foreign key of several (they are read as the parts of one name), the schema of
\* an operator class, a domain that is a column's type, and what a comment on a
\* constraint is about.
MisreadNames(n) ==
    {f \in DOMAIN n.names :
        \/ n.type = "Constraint" /\ f \in {"fk_attrs", "pk_attrs"} /\ Len(n.names[f]) > 1
        \/ n.type = "IndexElem" /\ f = "opclass" /\ Len(n.names[f]) > 1}
MisreadKids(n) ==
    {r \in DOMAIN n.kids :
        \/ n.type = "CommentStmt" /\ n.of = "TABCONSTRAINT"
        \/ n.type = "ColumnDef" /\ r = "typename" /\ \E part \in PartsOf(n.kids[r][1]) : part.role = "domain"}

\* The names of a statement in all other places.
RECURSIVE WellReadParts(_)
WellReadParts(n) ==
    UNION {ToSet(n.names[f]) : f \in DOMAIN n.names \ MisreadNames(n)}
    \cup UNION {UNION {WellReadParts(n.kids[r][i]) : i \in DOMAIN n.kids[r]} : r \in DOMAIN n.kids \ MisreadKids(n)}

\* The names in a payload, with those that Parts finds in its statements.
PartsSent(p, Parts(_)) ==
    {p.details.database} \cup p.details.schemas \cup UNION {{s.schema, s.object} : s \in p.stats}
    \cup UNION {ToSet(t) : t \in ToSet(p.colocated) \cup ToSet(p.sharded)} \cup UNION {ToSet(i.object) : i \in p.issues}
    \cup UNION {Parts(d) : d \in p.ddls} \cup UNION {{r.index} \cup ToSet(r.table) : r \in p.removed}
=============================================================================
