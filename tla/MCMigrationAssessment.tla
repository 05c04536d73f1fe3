------------------------ MODULE MCMigrationAssessment ------------------------
(* MigrationAssessment on the schemas and sources below.                    *)
EXTENDS MigrationAssessment

-----------------------------------------------------------------------------
(* Schemas to assess: tables in every order of their statements, types and  *)
(* functions, for target releases before and after the features they need.  *)

Blank ==
    [node |-> "", name |-> "", creates |-> "", parses |-> TRUE, phrases |-> {}, fetchUnsupported |-> FALSE,
     constructs |-> <<>>, schemas |-> {}, body |-> <<>>, language |-> "", kind |-> "", sqlBody |-> FALSE,
     returns |-> [type |-> "void", column |-> FALSE], persistence |-> "p", ofTypename |-> "", inhRelations |-> <<>>,
     partbound |-> FALSE, elts |-> <<>>, partspec |-> [strategy |-> "", elems |-> <<>>], server |-> "", table |-> "",
     method |-> "btree", unique |-> FALSE, options |-> 0, viewOptions |-> {}, params |-> <<>>, where |-> [kind |-> "none"],
     cmds |-> <<>>, roles |-> {}, isconstraint |-> FALSE, transitionRels |-> 0, timing |-> 0, row |-> FALSE,
     funcname |-> "", coldeflist |-> <<>>, type |-> "", deterministic |-> ""]

Constraint(contype, name, keys) ==
    [contype |-> contype, conname |-> name, keys |-> keys, deferrable |-> FALSE, pktable |-> "", pkAttrs |-> <<>>, options |-> 0]
References(name, keys, table, attrs) == [Constraint("FOREIGN", name, keys) EXCEPT !.pktable = table, !.pkAttrs = attrs]
Column(name, type) == [column |-> name, type |-> type, array |-> FALSE, compression |-> FALSE, constraints |-> <<>>]
With(elt, contype, name) == [elt EXCEPT !.constraints = Append(@, Constraint(contype, name, <<>>))]
TableKey(c) == [Column("", "") EXCEPT !.constraints = <<c>>]

CreateTable(name, elts) == [Blank EXCEPT !.node = "CreateStmt", !.creates = "TABLE", !.name = name, !.elts = elts]
By(s, strategy, columns) == [s EXCEPT !.partspec = [strategy |-> strategy, elems |-> columns]]
Inherits(s, parents) == [s EXCEPT !.inhRelations = parents]
PartOf(s, parent) == [s EXCEPT !.inhRelations = <<parent>>, !.partbound = TRUE]
Alter(table, subtype, column, constraint, child) ==
    [Blank EXCEPT !.node = "AlterTableStmt", !.name = table,
                  !.cmds = <<[subtype |-> subtype, name |-> column, constraint |-> constraint, items |-> 0, child |-> child]>>]
AddKey(table, c) == Alter(table, "AddConstraint", "", c, "")
SetNotNullOf(table, column) == Alter(table, "SetNotNull", column, Constraint("", "", <<>>), "")
Attach(table, child) == Alter(table, "AttachPartition", "", Constraint("", "", <<>>), child)
CreateIndex(name, table, columns) ==
    [Blank EXCEPT !.node = "IndexStmt", !.creates = "INDEX", !.name = name, !.table = table,
                  !.params = [i \in DOMAIN columns |-> [column |-> columns[i], ordering |-> "DEFAULT", expression |-> FALSE,
                                                        castType |-> "", castArray |-> FALSE]]]
CreateDomain(name, base) == [Blank EXCEPT !.node = "CreateDomainStmt", !.creates = "DOMAIN", !.name = name, !.type = base]
CreateType(name, fields) == [Blank EXCEPT !.node = "CompositeTypeStmt", !.creates = "TYPE", !.name = name, !.coldeflist = fields]
CreateFunction(name, body) ==
    [Blank EXCEPT !.node = "CreateFunctionStmt", !.creates = "FUNCTION", !.name = name, !.kind = "FUNCTION",
                  !.language = "plpgsql", !.body = body]
Query(constructs, schemas) == [Blank EXCEPT !.node = "SelectStmt", !.constructs = constructs, !.schemas = schemas]

\* A statement on a line of its own; a function on three, with semicolons in its body.
Line(s, part, parts) == [stmt |-> s, part |-> part, parts |-> parts, starts |-> FALSE, delim |-> "", end |-> FALSE,
                         ends |-> TRUE, comment |-> -1]
OnLines(s) ==
    IF s.node # "CreateFunctionStmt" THEN <<Line(s, 1, 1)>>
    ELSE <<[Line(s, 1, 3) EXCEPT !.starts = TRUE, !.delim = "$$", !.ends = FALSE], Line(s, 2, 3),
           [Line(s, 3, 3) EXCEPT !.delim = "$$"]>>
File(stmts) == FoldLeft(LAMBDA lines, s : lines \o OnLines(s), <<>>, stmts)

\* The orders of a file in which a table is created before it is altered.
Orders(stmts) ==
    {order \in {[i \in DOMAIN stmts |-> stmts[f[i]]] : f \in Permutations(DOMAIN stmts)} :
        \A i, j \in DOMAIN order : order[i].node = "AlterTableStmt" /\ order[j].node = "CreateStmt" /\ order[i].name = order[j].name
                                       => j < i}

Schema(dump, target) == [files |-> dump, target |-> target, stats |-> Nothing, queries |-> {}, schemas |-> {"public"}]
NoSchema == Schema(Nothing, Version("2024.2", 0))
Targets == {Version("2024.2", 0), Version("2025.1", 0), Version("2025.2", 3), Version("2026.1", 0)}

-----------------------------------------------------------------------------

\* Partitions of partitions, one of them attached, and a foreign key to the top.
Partitioned ==
    LET top == By(CreateTable("p", <<With(Column("k", "int4"), "NOTNULL", ""), Column("r", "int4"), Column("j", "jsonb"), Column("ts", "timestamp")>>),
                  "RANGE", <<"k">>)
        middle(by) == PartOf(By(CreateTable("q", <<>>), "LIST", by), "p")
        leaf == PartOf(CreateTable("l", <<>>), "q")
        fk(type) == CreateTable("x", <<Column("k", type), TableKey(References("x_fk", <<"k">>, "p", <<"k">>))>>)
        uk(keys) == AddKey("p", Constraint("UNIQUE", "p_uk", keys))
        pk == AddKey("l", Constraint("PRIMARY", "l_pk", <<"ts", "k">>))
        Dump(order, indexes) == ("TABLE" :> File(order)) @@ ("INDEX" :> File(indexes))
        indexes == <<CreateIndex("l_j", "l", <<"ts", "j">>), CreateIndex("x_k", "x", <<"k", "j">>)>>
        leafAlone == CreateTable("l", <<Column("k", "int4"), Column("r", "int4"), Column("j", "jsonb"), Column("ts", "timestamp")>>)
        topUnique == [top EXCEPT !.elts = Append(@, TableKey(Constraint("UNIQUE", "p_uk", <<"k">>)))]
    IN  UNION {{Dump(order, indexes) : order \in Orders(<<top, middle(d[1]), leaf, fk(d[2]), uk(<<"k">>)>>)} :
                   d \in {<<<<"k">>, "int4">>, <<<<"r">>, "int8">>}}
        \cup {Dump(order, <<indexes[1]>>) : order \in Orders(<<top, middle(<<"k">>), leaf, fk("int4"), pk>>)}
        \cup UNION {{Dump(order, <<indexes[1]>>) : order \in Orders(<<topUnique, middle(<<"k">>), leafAlone, Attach("q", "l"), key>>)} :
                   key \in {pk, SetNotNullOf("l", "k")}}

\* Grandparents, types in types, and a column that is made not null.
Inheriting ==
    LET a(type) == CreateTable("a", <<Column("c", type), Column("id", "int4")>>)
        b == Inherits(CreateTable("b", <<Column("d", "dom")>>), <<"a">>)
        c == Inherits(CreateTable("c", <<TableKey(Constraint("UNIQUE", "c_uk", <<"c">>))>>), <<"b">>)
        fk == AddKey("c", References("c_fk", <<"c", "id">>, "a", <<"id", "id">>))
        notNull == SetNotNullOf("a", "id")
        Dump(order, base) ==
            ("TYPE" :> File(<<CreateType("inner", <<Column("f", base)>>), CreateType("outer", <<Column("g", "inner"), Column("h", "int4")>>)>>))
            @@ ("DOMAIN" :> File(<<CreateDomain("dom", "outer")>>))
            @@ ("TABLE" :> File(order))
            @@ ("INDEX" :> File(<<[CreateIndex("a_id", "a", <<"id">>) EXCEPT !.unique = TRUE], CreateIndex("c_i", "c", <<"id", "c">>)>>))
    IN  UNION {{Dump(order, base) : order \in Orders(<<a(type), b, c, fk, notNull>>)} :
                   <<type, base>> \in {<<"jsonb", "xml">>, <<"date", "xml">>, <<"outer", "xml">>, <<"jsonb", "tsquery">>}}

\* Functions, and statements after them; a column is subscripted that a table makes jsonb.
Coding ==
    LET lock == Query(<<Node("FuncCall", "pg_advisory_lock", <<>>)>>, {})
        merge == Query(<<Node("MergeStmt", "", <<>>)>>, {})
        sub == Query(<<Node("SelectStmt", "", <<Node("A_Indirection", "", <<Node("ColumnRef", "j", <<>>)>>)>>)>>, {})
        Block(stmts, inner) == [exprs |-> stmts, body |-> inner]
        f == CreateFunction("f", <<Block(<<sub>>, <<Block(<<lock>>, <<Block(<<merge>>, <<>>)>>)>>)>>)
        g == CreateFunction("g", <<Block(<<Unparsable(lock), merge>>, <<>>)>>)
        h == [CreateFunction("h", <<>>) EXCEPT !.sqlBody = TRUE, !.language = "sql"]
        t(type) == CreateTable("t", <<Column("j", type)>>)
    IN  {("FUNCTION" :> File(order)) @@ ("TABLE" :> File(<<t(type)>>)) : order \in Orders(<<f, g, h>>), type \in {"jsonb", "text"}}

\* One statement of every other kind, with everything that can be found in it.
Everything ==
    LET elts == <<[With(Column("a", "int4"), "UNIQUE", "u_a") EXCEPT !.compression = TRUE, !.constraints = Append(@, Constraint("ATTR_DEFERRABLE", "", <<>>))],
                  With(Column("b", "int4"), "GENERATED", ""), TableKey(Constraint("EXCLUSION", "u_x", <<"a">>))>>
        table == [CreateTable("u", elts) EXCEPT !.persistence = "u"]
        typed == [CreateTable("ty", <<>>) EXCEPT !.ofTypename = "rec"]
        part == By(CreateTable("pl", <<Column("a", "int4"), Column("b", "int4"), TableKey(Constraint("PRIMARY", "pl_pk", <<"a">>))>>), "LIST", <<"a", "b">>)
        command(s, items) == [Alter("u", s, "a", Constraint("", "", <<>>), "") EXCEPT !.cmds[1].items = items]
        gin == [CreateIndex("i_gin", "u", <<"a", "b">>) EXCEPT !.method = "gin", !.options = 1]
        partial == [CreateIndex("i_a", "u", <<"a">>) EXCEPT
                       !.where = [kind |-> "BoolExpr", args |-> <<[kind |-> "A_Expr", column |-> "a", op |-> "<>", values |-> {"1"}],
                                                                  [kind |-> "NullTest", column |-> "a", test |-> "IS_NOT_NULL"],
                                                                  [kind |-> "BooleanTest", column |-> "b", test |-> "IS_TRUE"],
                                                                  [kind |-> "ColumnRef", column |-> "b"]>>]]
        cast == [CreateIndex("i_c", "u", <<"">>) EXCEPT !.params[1].expression = TRUE, !.params[1].castType = "date"]
        gist == [CreateIndex("i_gist", "u", <<"a">>) EXCEPT !.method = "gist"]
        trigger == [Blank EXCEPT !.node = "CreateTrigStmt", !.creates = "TRIGGER", !.name = "tr", !.table = "pl", !.isconstraint = TRUE,
                                 !.transitionRels = 1, !.timing = 2, !.row = TRUE, !.funcname = "lo_manage"]
        policy == [Blank EXCEPT !.node = "CreatePolicyStmt", !.creates = "POLICY", !.name = "po", !.roles = {"admin"}]
        foreign == [Blank EXCEPT !.node = "CreateForeignTableStmt", !.creates = "FOREIGN TABLE", !.name = "ft", !.server = "s", !.elts = <<Column("x", "xml")>>]
        view == [Blank EXCEPT !.node = "ViewStmt", !.creates = "VIEW", !.name = "v", !.viewOptions = {"security_invoker"},
                              !.phrases = {"WITH CHECK OPTION"},
                              !.constructs = <<Node("SelectStmt", "WITH_TIES", <<Node("ColumnRef", "ctid", <<>>), Node("XmlExpr", "", <<>>),
                                                Node("JsonTable", "", <<>>), Node("CommonTableExpr", "ALWAYS", <<>>), Node("JsonIsPredicate", "", <<>>),
                                                Node("JsonArrayAgg", "", <<>>), Node("A_Const", "non-decimal", <<>>)>>)>>]
        mview == [Blank EXCEPT !.node = "CreateTableAsStmt", !.creates = "MVIEW", !.name = "mv", !.constructs = <<Node("RangeTableFunc", "xmltable", <<>>)>>]
        collation(d) == [Blank EXCEPT !.node = "DefineStmt", !.creates = "COLLATION", !.name = "co_" \o d, !.deterministic = d]
        extension(e) == [Blank EXCEPT !.node = "CreateExtensionStmt", !.creates = "EXTENSION", !.name = e]
        conversion == [Blank EXCEPT !.node = "CreateConversionStmt", !.name = "cv"]
        bad == [Unparsable(CreateTable("bad", <<>>)) EXCEPT !.phrases = {"LIKE"}]
        queries == {Query(<<Node("TransactionStmt", "SAVEPOINT", <<>>)>>, {}), Query(<<Node("TransactionStmt", "PREPARE", <<>>)>>, {}),
                    Query(<<Node("ListenStmt", "", <<>>)>>, {""}), Query(<<Node("CopyStmt", "", <<Node("DefElem", "where", <<>>), Node("DefElem", "on_error", <<>>)>>)>>, {"public"}),
                    Query(<<Node("FuncCall", "regexp_count", <<>>)>>, {"other", "pg_catalog"}),
                    Query(<<Node("A_Indirection", "", <<Node("A_Expr", "", <<Node("TypeCast", "jsonb", <<>>)>>)>>)>>, {}),
                    Query(<<Node("A_Indirection", "", <<Node("FuncCall", "jsonb_set", <<>>)>>)>>, {}),
                    Query(<<Node("CreatedbStmt", "db", <<Node("DefElem", "oid", <<>>)>>)>>, {})}
        comment(n) == [Line(Blank, 1, 1) EXCEPT !.comment = n]
        one(s) == File(<<s>>)
        dump == ("TYPE" :> one(CreateType("rec", <<Column("g", "lo")>>)))
                 @@ ("TABLE" :> File(<<table, typed, part, command("SetOptions", 1), command("DisableRule", 0), command("ClusterOn", 0), command("SetCompression", 0), bad>>))
                 @@ ("INDEX" :> File(<<gin, partial, cast>>)) @@ ("FTS_INDEX" :> one(gist)) @@ ("TRIGGER" :> one(trigger)) @@ ("POLICY" :> one(policy))
                 @@ ("FOREIGN TABLE" :> one(foreign)) @@ ("VIEW" :> <<comment(3)>> \o one(view)) @@ ("MVIEW" :> <<comment(1)>> \o one(mview))
                 @@ ("COLLATION" :> File(<<collation("true"), collation("false")>>)) @@ ("EXTENSION" :> File(<<extension("citext"), extension("hypopg")>>))
                 @@ ("CONVERSION" :> one(conversion))
        stat == [commonValue |-> "2", commonFrequency |-> 70, nullFrequency |-> 50]
    IN  {[Schema(dump, v) EXCEPT !.queries = queries, !.stats = ("u" :> ("a" :> stat))] : v \in Targets}

MCSchemas ==
    {Schema(dump, Version("2024.2", 0)) : dump \in Partitioned}
    \cup {Schema(dump, v) : dump \in Inheriting, v \in {Version("2025.1", 0), Version("2026.1", 0)}}
    \cup {Schema(dump, v) : dump \in Coding, v \in Targets} \cup Everything

-----------------------------------------------------------------------------
(* Statements of dumped schemas, as parse trees: the objects of one schema, *)
(* each created, altered and referred to in the ways pg_dump writes.        *)

Raw(role, name) == Home!Raw(role, name)
Tree(type, kind, names, kids) == Home!Node(type, kind, names, kids)

None1 == <<>>   \* no names, no children
S == Raw("schema", "public")
In(role, name) == <<S, Raw(role, name)>>
RangeVar(role, name) == Tree("RangeVar", "", [relname |-> In(role, name)], None1)
List(parts) == Tree("List", "", [items |-> parts], None1)
Str(role, name) == Tree("String", "", [sval |-> <<Raw(role, name)>>], None1)
Const(value) == Tree("A_Const", "string", [val |-> <<Raw("constant", value)>>], None1)
Type(parts) == Tree("TypeName", "", [names |-> parts], None1)
Builtin(name) == Type(<<Raw("builtin", "pg_catalog"), Raw("builtin", name)>>)
Ref(parts) == Tree("ColumnRef", "", [fields |-> parts], None1)
Option(name, arg) == Tree("DefElem", name, None1, [arg |-> <<arg>>])
Call(parts, args) == Tree("FuncCall", "", [funcname |-> parts], [args |-> args])
Role(name) == Tree("RoleSpec", "", [rolename |-> <<Raw("role", name)>>], None1)
NextVal(seq) ==
    Call(<<Raw("builtin", "nextval")>>,
         <<Tree("TypeCast", "", None1, [arg |-> <<Tree("A_Const", "string", [val |-> In("sequence", seq)], None1)>>,
                                        typename |-> <<Type(<<Raw("builtin", "regclass")>>)>>])>>)

ColumnDef(name, type, constraints) ==
    Tree("ColumnDef", "", [colname |-> <<Raw("column", name)>>], [typename |-> <<type>>, constraints |-> constraints])
Default(e) == Tree("Constraint", "DEFAULT", None1, [raw_expr |-> <<e>>])
Check(name, e) == Tree("Constraint", "CHECK", [conname |-> <<Raw("constraint", name)>>], [raw_expr |-> <<e>>])
Unique(name, columns) == Tree("Constraint", "UNIQUE", [conname |-> <<Raw("constraint", name)>>, keys |-> columns], None1)
UsingIndex(name, index) ==
    Tree("Constraint", "UNIQUE", [conname |-> <<Raw("constraint", name)>>, indexname |-> <<Raw("index", index)>>], None1)
ForeignKey(name, columns, table, attrs) ==
    Tree("Constraint", "FOREIGN", [conname |-> <<Raw("constraint", name)>>, fk_attrs |-> columns, pk_attrs |-> attrs],
         [pktable |-> <<RangeVar("table", table)>>])
C(name) == Raw("column", name)

Create(table, columns, by) ==
    Tree("CreateStmt", "", None1, [relation |-> <<RangeVar("table", table)>>, table_elts |-> columns,
         partspec |-> IF by = "" THEN <<>>
                      ELSE <<Tree("PartitionSpec", "", None1, [params |-> <<Tree("PartitionElem", "", [name |-> <<C(by)>>], None1)>>])>>])
Cmd(subtype, names, def) == Tree("AlterTableCmd", subtype, names, [def |-> def])
AlterTree(table, change) == Tree("AlterTableStmt", "TABLE", None1, [relation |-> <<RangeVar("table", table)>>, cmds |-> <<change>>])
Add(table, constraint) == AlterTree(table, Cmd("AddConstraint", None1, <<constraint>>))
Elem(names, kids) == Tree("IndexElem", "", names, kids)
IndexTree(name, table, elems) ==
    Tree("IndexStmt", "", [idxname |-> <<Raw("index", name)>>], [relation |-> <<RangeVar("table", table)>>, params |-> elems])
Define(kind, parts, options) == Tree("DefineStmt", kind, [defnames |-> parts], [definition |-> options])
Comment(kind, object) == Tree("CommentStmt", kind, [comment |-> <<Raw("constant", "text")>>], [object |-> <<object>>])
Args(parts) == Tree("ObjectWithArgs", "", [objname |-> parts], None1)
Item(kind, parts) == Tree("CreateOpClassItem", kind, None1, [name |-> <<Args(parts)>>])

\* A sequence, the column that owns it and draws its default from it, keys and indexes.
\* Tables 1 and 2 and index 10 are also in the sizing statistics.
Tables ==
    {Tree("CreateSchemaStmt", "", [schemaname |-> <<S>>], None1),
     Tree("CreateSeqStmt", "", None1, [sequence |-> <<RangeVar("sequence", "s")>>]),
     Tree("AlterSeqStmt", "", None1, [sequence |-> <<RangeVar("sequence", "s")>>,
          options |-> <<Option("owned_by", List(<<S, Raw("table", "1"), C("id")>>))>>]),
     Create("1", <<ColumnDef("id", Builtin("int8"), <<Default(NextVal("s"))>>),
                   ColumnDef("state", Type(In("type", "mood")), <<Default(Const("new"))>>),
                   ColumnDef("1", Builtin("text"), <<Check("c1", Call(<<Raw("builtin", "lower")>>, <<Ref(<<C("1")>>)>>)),
                                                     Default(Call(In("function", "f"), <<Const("x")>>))>>)>>, ""),
     Create("2", <<ColumnDef("id", Builtin("int8"), <<>>), ColumnDef("t1", Builtin("int8"), <<>>)>>, "id"),
     Add("1", Unique("k1", <<C("id"), C("state"), C("1")>>)), Add("1", UsingIndex("k2", "10")),
     Add("2", ForeignKey("fk", <<C("t1")>>, "1", <<C("id")>>)),
     AlterTree("2", Cmd("AttachPartition", None1, <<Tree("PartitionCmd", "", None1,
                [name |-> <<RangeVar("table", "3")>>, bound |-> <<Tree("PartitionBoundSpec", "", None1, [lower |-> <<Const("5")>>])>>])>>)),
     AlterTree("1", Cmd("AddIdentity", [name |-> <<C("id")>>],
                    <<Tree("Constraint", "IDENTITY", None1, [options |-> <<Option("sequence_name", List(In("sequence", "s2")))>>])>>)),
     AlterTree("1", Cmd("ReplicaIdentity", None1, <<Tree("ReplicaIdentityStmt", "", [name |-> <<Raw("index", "10")>>], None1)>>)),
     AlterTree("1", Cmd("ClusterOn", [name |-> <<Raw("index", "10")>>], <<>>)),
     AlterTree("1", Cmd("ValidateConstraint", [name |-> <<Raw("constraint", "c1")>>], <<>>)),
     AlterTree("1", Cmd("DisableTrig", [name |-> <<Raw("trigger", "t")>>], <<>>)),
     AlterTree("1", Cmd("DisableRule", [name |-> <<Raw("rule", "r")>>], <<>>)),
     AlterTree("1", Cmd("AlterColumnType", [name |-> <<C("state")>>], <<Tree("ColumnDef", "", None1, [typename |-> <<Type(In("type", "mood"))>>])>>)),
     IndexTree("10", "1", <<Elem([name |-> <<C("id")>>], None1), Elem(None1, [expr |-> <<Call(In("function", "f"), <<Ref(<<C("state")>>)>>)>>])>>),
     IndexTree("11", "2", <<Elem([name |-> <<C("t1")>>, opclass |-> <<Raw("operator class", "ops")>>],
                             [opclassopts |-> <<Tree("DefElem", "siglen", [defname |-> <<Raw("parameter", "siglen")>>], [arg |-> <<Str("constant", "32")>>])>>])>>),
     Tree("CreatePolicyStmt", "", [policyname |-> <<Raw("policy", "p")>>],
          [table |-> <<RangeVar("table", "1")>>, roles |-> <<Role("app")>>, qual |-> <<Ref(<<C("state")>>)>>]),
     Tree("RuleStmt", "", [rulename |-> <<Raw("rule", "r")>>],
          [relation |-> <<RangeVar("table", "1")>>,
           actions |-> <<Tree("InsertStmt", "", None1, [relation |-> <<Tree("RangeVar", "", [relname |-> In("table", "2")],
                                 [alias |-> <<Tree("Alias", "", [aliasname |-> <<Raw("alias", "a")>>], None1)>>])>>,
                             cols |-> <<Tree("ResTarget", "", [name |-> <<C("id")>>], None1)>>])>>]),
     Tree("ViewStmt", "", None1, [view |-> <<RangeVar("view", "v")>>])}

\* Types of all kinds, operators and what is built from them.
Types ==
    {Tree("CreateEnumStmt", "", [typename |-> In("type", "mood"), vals |-> <<Raw("value", "new"), Raw("value", "old")>>], None1),
     Tree("AlterEnumStmt", "", [typename |-> In("type", "mood"), newval |-> <<Raw("value", "archived")>>], None1),
     Tree("CompositeTypeStmt", "", None1, [typevar |-> <<RangeVar("type", "pair")>>,
          coldeflist |-> <<ColumnDef("a", Builtin("int4"), <<>>), ColumnDef("b", Type(In("type", "mood")), <<>>)>>]),
     Tree("CreateRangeStmt", "", [typename |-> In("type", "span")],
          [params |-> <<Option("subtype", Builtin("time")), Option("subtype_diff", Type(In("function", "diff"))),
                        Option("multirange_type_name", Type(In("type", "spans")))>>]),
     Define("TYPE", In("type", "base"), <<Option("input", Type(In("function", "base_in"))), Option("element", Type(In("type", "mood"))),
                                          Option("storage", Type(<<Raw("constant", "plain")>>)), Option("like", Builtin("int4")),
                                          Option("internallength", Tree("Integer", "", [sval |-> <<Raw("constant", "16")>>], None1))>>),
     Tree("CreateDomainStmt", "", [domainname |-> In("domain", "zip")],
          [typename |-> <<Builtin("text")>>, constraints |-> <<Check("zip_c", Call(In("function", "f"), <<Const("re")>>))>>]),
     Define("COLLATION", In("collation", "nocase"), <<>>),
     Define("AGGREGATE", In("aggregate", "total"), <<Option("sfunc", Type(In("function", "f"))), Option("stype", Type(In("type", "pair")))>>),
     Define("OPERATOR", In("operator", "<#"), <<Option("procedure", Type(In("function", "f"))), Option("leftarg", Type(In("type", "pair"))),
                                                Option("commutator", List(In("operator", "#>")))>>),
     Tree("CreateOpFamilyStmt", "", [opfamilyname |-> In("operator family", "fam")], None1),
     Tree("CreateOpClassStmt", "", [opclassname |-> In("operator class", "ops"), opfamilyname |-> In("operator family", "fam")],
          [datatype |-> <<Type(In("type", "pair"))>>,
           items |-> <<Item("operator", In("operator", "<#")), Item("function", In("function", "f"))>>]),
     Tree("AlterOpFamilyStmt", "", [opfamilyname |-> In("operator family", "fam")],
          [items |-> <<Item("operator", In("operator", "#>"))>>]),
     Tree("CreateConversionStmt", "", [conversion_name |-> In("conversion", "conv"), func_name |-> In("function", "f")], None1),
     Tree("CreateForeignTableStmt", "", [servername |-> <<Raw("server", "srv")>>],
          [base |-> <<Tree("CreateStmt", "", None1, [relation |-> <<RangeVar("foreign table", "ft")>>,
                                                     table_elts |-> <<ColumnDef("id", Builtin("int4"), <<>>)>>])>>,
           options |-> <<Option("schema_name", Str("schema", "public")), Option("table_name", Str("table", "1")), Option("fetch_size", Str("constant", "9"))>>]),
     Tree("CreateExtensionStmt", "", None1, [options |-> <<Option("schema", Str("schema", "public"))>>])}

\* Comments and the statements that change an object's name, schema or owner.
Changes ==
    {Comment("TABLE", List(In("table", "1"))), Comment("COLUMN", List(<<S, Raw("table", "1"), C("id")>>)),
     Comment("FUNCTION", Args(In("function", "f"))), Comment("DOMAIN", Type(In("domain", "zip"))), Comment("SCHEMA", Str("schema", "public")),
     Comment("TYPE", Type(In("type", "mood"))), Comment("SEQUENCE", List(In("sequence", "s"))),
     Tree("RenameStmt", "SCHEMA", [subname |-> <<S>>, newname |-> <<Raw("schema", "s2")>>], None1),
     Tree("RenameStmt", "COLUMN", [subname |-> <<C("id")>>, newname |-> <<C("id2")>>], [relation |-> <<RangeVar("table", "1")>>]),
     Tree("RenameStmt", "TYPE", [newname |-> <<Raw("type", "mood2")>>], [object |-> <<List(In("type", "mood"))>>]),
     Tree("DropStmt", "SCHEMA", None1, [objects |-> <<Str("schema", "s2")>>]), Tree("DropStmt", "TABLE", None1, [objects |-> <<List(In("table", "3"))>>]),
     Tree("DropStmt", "DOMAIN", None1, [objects |-> <<Type(In("domain", "zip"))>>]), Tree("DropStmt", "TYPE", None1, [objects |-> <<Type(In("type", "mood"))>>]),
     Tree("DropStmt", "VIEW", None1, [objects |-> <<List(In("view", "v"))>>]),
     Tree("AlterObjectSchemaStmt", "SEQUENCE", [newschema |-> <<Raw("schema", "s2")>>], [relation |-> <<RangeVar("sequence", "s")>>]),
     Tree("AlterObjectSchemaStmt", "EXTENSION", [newschema |-> <<Raw("schema", "s2")>>], [object |-> <<Str("extension", "hstore")>>]),
     Tree("AlterObjectSchemaStmt", "TYPE", [newschema |-> <<Raw("schema", "s2")>>], [object |-> <<List(In("type", "mood"))>>]),
     Tree("AlterOwnerStmt", "SCHEMA", None1, [object |-> <<Str("schema", "public")>>, newowner |-> <<Role("app")>>]),
     Tree("AlterOwnerStmt", "CONVERSION", None1, [object |-> <<List(In("conversion", "conv"))>>, newowner |-> <<Role("app")>>]),
     Tree("GrantStmt", "SCHEMA", None1, [objects |-> <<Str("schema", "public")>>, grantees |-> <<Role("app")>>])}

\* Names whose token is that of something else: the first column of a foreign key of two,
\* the schema of an operator class, a domain as a column's type, a comment on a constraint;
\* and a foreign key of four columns, which cannot be anonymized.
CompositeKey == Add("2", ForeignKey("fk2", <<C("id"), C("t1")>>, "1", <<C("id"), C("1")>>))
Confusing ==
    {CompositeKey,
     Add("2", ForeignKey("fk4", <<C("id"), C("t1"), C("a"), C("b")>>, "1", <<C("id"), C("1"), C("a"), C("b")>>)),
     IndexTree("12", "2", <<Elem([name |-> <<C("t1")>>,
                              opclass |-> In("operator class", "ops")], None1)>>),
     Create("4", <<ColumnDef("zip", Type(In("domain", "zip")), <<>>)>>, ""),
     Comment("TABCONSTRAINT", List(<<S, Raw("table", "1"), Raw("constraint", "k1")>>))}

In2(file, stmts) == {[file |-> file, stmt |-> s] : s \in stmts}
MCStatementSets == {In2("TABLE", Tables), In2("TYPE", Types), In2("TABLE", Tables) \cup In2("TYPE", Types) \cup In2("COMMENT", Changes),
                    In2("TABLE", Tables \cup Confusing) \cup In2("DOMAIN", Types)}

-----------------------------------------------------------------------------
(* Sources to assess: small ones under kills, failures and re-runs, one of  *)
(* them with a replica; and many, undisturbed, for what is recommended,      *)
(* which indexes are redundant and which issues there are.                  *)

(* Instance types, with limits small enough for every check to matter. *)
MCExp ==
    [cores |-> {2, 4},
     colocatedLimits |-> (2 :> [size |-> 3 * GB, objects |-> 2]) @@ (4 :> [size |-> 6 * GB, objects |-> 3]),
     colocatedThroughput |-> (2 :> [selects |-> 100, inserts |-> 50]) @@ (4 :> [selects |-> 110, inserts |-> 60]),
     shardedLimits |-> (2 :> 3) @@ (4 :> 7),
     shardedThroughput |-> (2 :> [selects |-> 40, inserts |-> 20]) @@ (4 :> [selects |-> 50, inserts |-> 20])]

Undisturbed == [moments |-> 1, kills |-> 0, failures |-> 0, starts |-> 0, exports |-> 1]

Activity(reads, writes) ==
    [n \in Nodes |-> IF n = "primary" THEN [reads |-> reads, writes |-> writes]
                     ELSE [reads |-> 2 * reads, writes |-> 3]]

Key(c) == [column |-> c, options |-> 0]
Plain(name, table) == [name |-> name, table |-> table, keys |-> <<Key(name)>>, included |-> <<>>,
                       unique |-> FALSE, nullsNotDistinct |-> FALSE, partial |-> FALSE, constraint |-> FALSE]

Table(name, size, since, reads, writes) ==
    [name |-> name, type |-> "table", parent |-> 0, size |-> size, since |-> since,
     activity |-> Activity(reads, writes), def |-> 0]
Index(def, size, reads) ==
    [name |-> def.name, type |-> "index", parent |-> def.table, size |-> size, since |-> 0,
     activity |-> Activity(reads, 0), def |-> def]

\* Three tables of three sizes and loads, the second with few or many indexes.
SizingSources ==
    {[objects |-> {Table(1, 1, 0, l1, 2), Table(2, s2, 0, l2, 6), Table(3, s3, 0, l3, 8)}
                     \cup {Index(Plain(10 + i, 2), GB, 2) : i \in 1..n},
      schema |-> NoSchema, ddls |-> {}, replicas |-> {}, bounds |-> [Undisturbed EXCEPT !.exports = 0]] :
        s2 \in {0, 2 * GB}, s3 \in {2 * GB + 1, 7 * GB}, n \in {0, 1, 3, 5},
        l1 \in {0, 30}, l2 \in {0, 60}, l3 \in {10, 200}}

\* Indexes on columns 1 and 2 that overlap in every way the query tells apart.
Definitions ==
    LET Def(keys, included, unique, nnd) ==
            [keys |-> keys, included |-> included, unique |-> unique, nullsNotDistinct |-> nnd,
             partial |-> FALSE, constraint |-> FALSE]
        d == {Def(<<Key(1)>>, <<>>, FALSE, FALSE), Def(<<Key(1)>>, <<2>>, FALSE, FALSE),
              Def(<<Key(1), Key(2)>>, <<>>, FALSE, FALSE), Def(<<Key(2)>>, <<>>, FALSE, FALSE),
              Def(<<[column |-> 1, options |-> 1]>>, <<>>, FALSE, FALSE),
              Def(<<Key(1)>>, <<>>, TRUE, FALSE), Def(<<Key(1)>>, <<>>, TRUE, TRUE),
              Def(<<Key(1), Key(2)>>, <<>>, TRUE, FALSE), Def(<<Key(1)>>, <<2>>, TRUE, FALSE)}
    IN  d \cup {[Def(<<Key(1)>>, <<>>, FALSE, FALSE) EXCEPT !.partial = TRUE],
                [Def(<<Key(1)>>, <<>>, TRUE, FALSE) EXCEPT !.constraint = TRUE]}

IndexSources ==
    {[objects |-> {Table(1, 1, 0, 1, 1)} \cup {Index([name |-> 10 + i, table |-> 1] @@ defs[i], 0, 0) : i \in 1..3},
      schema |-> NoSchema, ddls |-> {}, replicas |-> {}, bounds |-> [Undisturbed EXCEPT !.moments = 0]] : defs \in [1..3 -> Definitions]}

Disturbances ==
    {[replicas |-> {}, bounds |-> [moments |-> 1, kills |-> 2, failures |-> 1, starts |-> 1, exports |-> 1]],
     [replicas |-> {}, bounds |-> [moments |-> 2, kills |-> 0, failures |-> 0, starts |-> 1, exports |-> 2]],
     [replicas |-> Replicas, bounds |-> [moments |-> 2, kills |-> 0, failures |-> 1, starts |-> 0, exports |-> 1]]}

\* A table that grows, one that appears, a partitioned one, a replica.
DisturbedSources ==
    {[objects |-> {Table(1, 1, 0, 3, 2), Table(2, 2, 1, 1, 1),
                   [Table(3, 0, 0, 0, 0) EXCEPT !.type = "partitioned table"],
                   Index(Plain(10, 1), 1, 1), Index([Plain(11, 1) EXCEPT !.keys = <<Key(10), Key(11)>>], 1, 0)},
      schema |-> NoSchema, ddls |-> {}, replicas |-> d.replicas, bounds |-> d.bounds] : d \in Disturbances}

SchemaSources ==
    {[objects |-> {Table(1, 1, 0, 1, 1)}, schema |-> s, ddls |-> {}, replicas |-> {},
      bounds |-> [Undisturbed EXCEPT !.moments = 0, !.exports = 0]] : s \in MCSchemas}

\* Two tables and an index that the statements name too; the second table's index is left out.
PayloadSource(ddls) ==
    [objects |-> {Table(1, 1, 0, 1, 1), Table(2, 1, 0, 1, 1), Index(Plain(10, 1), 0, 0),
                   Index(Plain(11, 2), 0, 0), Index([Plain(12, 2) EXCEPT !.keys = <<Key(11), Key(12)>>], 0, 0)},
      schema |-> NoSchema, ddls |-> ddls, replicas |-> {}, bounds |-> Undisturbed]
PayloadSources == {PayloadSource(ddls) : ddls \in MCStatementSets}

MCSources == PayloadSources \cup SchemaSources \cup SizingSources \cup IndexSources \cup DisturbedSources
=============================================================================
