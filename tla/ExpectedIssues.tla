--------------------------- MODULE ExpectedIssues ---------------------------
(* What is wrong with a schema, said of the set of its statements: in which *)
(* files and in which order they come does not matter.  The properties      *)
(* compare this with what the assessment reports.                           *)
EXTENDS SchemaAnalysis

\* All statements of a schema.
StatementsOf(schema) == UNION {{l.stmt : l \in {l \in ToSet(schema.files[f]) : l.comment < 0}} : f \in DOMAIN schema.files}

CreatesOf(S, t) == {s \in S : s.node = "CreateStmt" /\ s.name = t}
TablesOf(S) == {s.name : s \in {s \in S : s.node = "CreateStmt"}}
Attached(S) == {<<s.cmds[1].child, s.name>> : s \in {s \in S : s.node = "AlterTableStmt" /\ s.cmds[1].subtype = "AttachPartition"}}
ParentsOf(S, t) == UNION {ToSet(s.inhRelations) : s \in CreatesOf(S, t)} \cup {a[2] : a \in {a \in Attached(S) : a[1] = t}}
PartitionOf(S, t) == UNION {IF s.partbound THEN ToSet(s.inhRelations) ELSE {} : s \in CreatesOf(S, t)}
                         \cup {a[2] : a \in {a \in Attached(S) : a[1] = t}}

\* A table and all it inherits from; a table and all its partitions.
RECURSIVE Lineage(_, _)
Lineage(S, t) == {t} \cup UNION {Lineage(S, q) : q \in ParentsOf(S, t)}
RECURSIVE Partitions(_, _)
Partitions(S, t) == {t} \cup UNION {Partitions(S, q) : q \in {q \in TablesOf(S) : t \in PartitionOf(S, q)}}
IsPartitioned(S, t) == \E s \in CreatesOf(S, t) : s.partspec.strategy # NoName

\* The kind of a column, wherever it is declared; a set of at most one.
KindOf(S, elt) ==
    CASE elt.array -> "array"
      [] ~elt.array /\ (\E s \in S : s.node = "CompositeTypeStmt" /\ s.name = elt.type) -> "user_defined_type"
      [] OTHER -> elt.type
ColumnOf(S, t, c) == UNION {{KindOf(S, e) : e \in {e \in ToSet(s.elts) : e.column = c}} : s \in UNION {CreatesOf(S, q) : q \in Lineage(S, t)}}

\* The constraints of all tables, of a column, of the table or added later.
KeysOf(S) ==
    LET Constraint(t, c, columns) == [table |-> t, name |-> c.conname, type |-> c.contype, columns |-> columns,
                                      refTable |-> c.pktable, refColumns |-> c.pkAttrs]
        Elts == UNION {{<<s.name, e, c>> : c \in ToSet(e.constraints)} :
                          <<s, e>> \in UNION {{<<s, e>> : e \in ToSet(s.elts)} : s \in {s \in S : s.node = "CreateStmt"}}}
    IN  {Constraint(x[1], x[3], IF x[2].column = NoName THEN x[3].keys ELSE <<x[2].column>>) : x \in Elts}
        \cup {Constraint(s.name, s.cmds[1].constraint, s.cmds[1].constraint.keys) :
                 s \in {s \in S : s.node = "AlterTableStmt" /\ s.cmds[1].subtype = "AddConstraint"}}
UniqueKeys(S) == {k \in KeysOf(S) : k.type \in {"PRIMARY", "UNIQUE"}}
ForeignKeys(S) == {k \in KeysOf(S) : k.type = "FOREIGN"}
IndexesOf(S) == {s \in S : s.node = "IndexStmt"}
Columns(index) == [i \in DOMAIN index.params |-> index.params[i].column]

ComplexKinds == UnsupportedIndexDatatypes \cup {"array", "user_defined_type"}

-----------------------------------------------------------------------------
(* Keys, indexes and foreign keys, by the types of the columns they have of *)
(* their own or through any number of parents.                              *)

OnComplexTypes(S) ==
    UNION {{PrimaryOrUniqueConstraintOnDatatypeIssue(Object("TABLE", k.table), kind, k.name) :
               kind \in UNION {ColumnOf(S, k.table, c) : c \in ToSet(k.columns)} \cap ComplexKinds} : k \in UniqueKeys(S)}
    \cup UNION {{IndexOnDatatypeIssue(Object("INDEX", i.name), kind) :
               kind \in UNION {ColumnOf(S, i.table, c) : c \in ToSet(Columns(i))} \cap ComplexKinds} :
                   i \in {i \in IndexesOf(S) : i.method = "btree"}}

Hotspots(S) ==
    LET Kind(k) == IF k = "date" THEN "date" ELSE "timestamp"
        First(i) == IF i.params[1].expression THEN {i.params[1].castType} ELSE ColumnOf(S, i.table, Columns(i)[1])
    IN  UNION {{HotspotOnPKOrUKIssue(Object("TABLE", k.table), Kind(kind), k.columns[1]) :
                   kind \in ColumnOf(S, k.table, k.columns[1]) \cap hotspotRangeIndexesTypes} :
                      k \in {k \in UniqueKeys(S) : ~IsPartitioned(S, k.table)}}
        \cup UNION {{HotspotOnIndexIssue(Object("INDEX", i.name), Kind(kind), Columns(i)[1]) :
                   kind \in First(i) \cap hotspotRangeIndexesTypes} :
                      i \in {i \in IndexesOf(S) : i.method = "btree" /\ ~IsPartitioned(S, i.table)}}

\* The two ends of a foreign key are of different types.
Mismatches(S) ==
    LET Differ(k, i) == \E a \in ColumnOf(S, k.table, k.columns[i]) : \E b \in ColumnOf(S, k.refTable, k.refColumns[i]) : a # b
    IN  UNION {{ForeignKeyDatatypeMismatchIssue(Object("TABLE", k.table), k.columns[i]) :
                   i \in {i \in DOMAIN k.refColumns : Differ(k, i)}} : k \in ForeignKeys(S)}

ToPartitioned(S) ==
    {ForeignKeyReferencesPartitionedTableIssue(Object("TABLE", k.table), k.name) :
        k \in {k \in ForeignKeys(S) : IsPartitioned(S, k.refTable)}}

\* Deleting a referenced row scans the whole table.
Unindexed(S) ==
    LET Leads(columns, fk) == Len(fk) <= Len(columns) /\ {columns[i] : i \in DOMAIN fk} = ToSet(fk)
        Served(k) == \/ \E i \in IndexesOf(S) : i.table = k.table /\ Leads(Columns(i), k.columns)
                     \/ \E u \in UniqueKeys(S) : u.table = k.table /\ Leads(u.columns, k.columns)
    IN  {MissingForeignKeyIndexIssue(Object("TABLE", k.table), ToSet(k.columns)) : k \in {k \in ForeignKeys(S) : ~Served(k)}}

\* A table without a primary key, here and in its partitions, that could have one: unique
\* columns that are not null and, if it is partitioned, include what all levels partition by.
Keyless(S) ==
    LET Roots == {t \in TablesOf(S) : ParentsOf(S, t) = {} /\ \A k \in KeysOf(S) : k.table \in Partitions(S, t) => k.type # "PRIMARY"}
        Unique(t) == {ToSet(k.columns) : k \in {k \in UniqueKeys(S) : k.table = t}}
                     \cup {ToSet(Columns(i)) : i \in {i \in IndexesOf(S) : i.table = t /\ i.unique}}
        NotNull(t, c) == \/ \E k \in KeysOf(S) : k.table = t /\ k.type = "NOTNULL" /\ k.columns = <<c>>
                         \/ \E s \in S : s.node = "AlterTableStmt" /\ s.name = t /\ s.cmds[1].subtype = "SetNotNull" /\ s.cmds[1].name = c
        PartitionedBy(t) == UNION {UNION {ToSet(s.partspec.elems) : s \in CreatesOf(S, q)} : q \in Partitions(S, t)}
    IN  UNION {{MissingPrimaryKeyWhenUniqueNotNullIssue(Object("TABLE", t), cols) :
                   cols \in {cols \in Unique(t) : (\A c \in cols : NotNull(t, c)) /\ PartitionedBy(t) \subseteq cols}} : t \in Roots}

-----------------------------------------------------------------------------
(* Types that cannot be migrated, however deep in domains and composites. *)

RECURSIVE BuiltFrom(_, _)
BuiltFrom(S, type) ==
    {type} \cup UNION {BuiltFrom(S, s.type) : s \in {s \in S : s.node = "CreateDomainStmt" /\ s.name = type}}
    \cup UNION {UNION {BuiltFrom(S, f.type) : f \in ToSet(s.coldeflist)} : s \in {s \in S : s.node = "CompositeTypeStmt" /\ s.name = type}}

\* Every type that is in the way of some migration is reported once per column: as
\* unsupported if the target has not got it, for live migrations if Debezium lacks it,
\* for fall-back and fall-forward if the exporter from the target does.
Datatypes(S, v) ==
    LET Elts(s) == {e \in ToSet(s.elts) : e.column # NoName}
                   \cup UNION {ToSet(q.coldeflist) : q \in {q \in S : q.node = "CompositeTypeStmt" /\ q.name = s.ofTypename}}
        Of(o, e, moved) ==
            LET types == BuiltFrom(S, e.type)
                offline == {i \in {ReportUnsupportedDatatypes(x, e.column, o) : x \in types \cap PostgresUnsupportedDataTypes} :
                                ~isFixedInVersionMap(i.ga, v)}
                composites == {x \in types : \E s \in S : s.node = "CompositeTypeStmt" /\ s.name = x}
                outermost == {x \in composites : \A y \in composites \ {x} : x \notin BuiltFrom(S, y)}
            IN  IF ~moved THEN offline
                ELSE offline
                \cup {LiveMigrationDatatypeIssue(o, e.column, x) :
                         x \in {x \in types \cap PostgresUnsupportedDataTypesForDbzm :
                                   \A i \in offline : i.variant # x}}
                \cup {LiveMigrationWithFFOrFBDatatypeIssue(o, e.column, x) :
                         x \in IF types \cap PostgresUnsupportedDataTypesForDbzm # {} THEN {}
                               ELSE outermost \cup (types \cap LiveMigrationWithFFOrFBUnsupportedDatatypes)}
    IN  UNION {UNION {Of(Object("TABLE", s.name), e, TRUE) : e \in Elts(s)} : s \in {s \in S : s.node = "CreateStmt"}}
        \cup UNION {UNION {Of(Object("FOREIGN TABLE", s.name), e, FALSE) : e \in Elts(s)} :
                       s \in {s \in S : s.node = "CreateForeignTableStmt"}}

\* A child table is either not possible in the target, or it is and there is a caveat.
Inherited(S) ==
    UNION {{InheritanceIssue(Object("TABLE", s.name)), InheritanceMigrationCaveatIssue(Object("TABLE", s.name))} :
              s \in {s \in S : s.node = "CreateStmt" /\ s.inhRelations # <<>> /\ ~s.partbound}}

\* What the statements in a body do is reported for the routine, at any depth.
RECURSIVE Within(_)
Within(body) == UNION {ToSet(b.exprs) \cup Within(b.body) : b \in ToSet(body)}
InRoutines(S) ==
    LET Subscripts(n) == n.node = "A_Indirection" /\ n.args[1].node = "ColumnRef"
                         /\ \E t \in TablesOf(S) : "jsonb" \in ColumnOf(S, t, n.args[1].name)
        Of(n, o) == Reported({<<n.node = "FuncCall" /\ n.name \in unsupportedAdvLockFuncs, AdvisoryLocksIssue(o)>>,
                              <<n.node = "MergeStmt", UnsupportedStatementIssue(o, "MERGE")>>,
                              <<Subscripts(n), JsonbSubscriptingIssue(o)>>})
    IN  UNION {UNION {UNION {Of(n, Object(s.kind, s.name)) : n \in TraverseParseTree(q.constructs)} : q \in {q \in Within(s.body) : q.parses}} :
                  s \in {s \in S : s.node = "CreateFunctionStmt" /\ s.language = "plpgsql"}}

-----------------------------------------------------------------------------

WholeSchemaIssues(S, v) ==
    {i \in OnComplexTypes(S) \cup Hotspots(S) \cup Mismatches(S) \cup ToPartitioned(S) \cup Unindexed(S) \cup Keyless(S)
           \cup InRoutines(S) \cup Datatypes(S, v)
           \cup (LET inh == Inherited(S)
                 IN  {i \in inh : i.type = "INHERITANCE_MIGRATION_CAVEAT" => \A j \in inh : j.object = i.object /\ j.type = "INHERITANCE" => isFixedInVersionMap(j.ga, v)}) :
        ~isFixedInVersionMap(i.ga, v)}
=============================================================================
