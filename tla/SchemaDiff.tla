----------------------------- MODULE SchemaDiff ------------------------------
(* Comparing schema snapshots, and the drift report made of it.             *)
EXTENDS FiniteSets, Sequences, Naturals, FiniteSetsExt, Relation

-----------------------------------------------------------------------------
(* What a schema snapshot holds of a PostgreSQL catalog, and how two       *)
(* snapshots are compared (src/schemasnapshot/postgres.go and              *)
(* src/schemadiff).                                                        *)
(*                                                                         *)
(* A catalog is a record                                                   *)
(*   tables  a function from table OIDs to                                 *)
(*           [schema, name, kind, columns, objects], where columns maps an *)
(*           attnum to [name, type, notNull, default] and objects maps the *)
(*           OID of a constraint or index to [kind, name, fromParent];     *)
(*   links   the rows of pg_inherits, [child, parent, isPartition].        *)
(* Definitions (the text of a constraint or index) are never compared by   *)
(* the code and are left out.                                              *)

NoRef == [schema |-> "", name |-> ""]

RefOf(t) == [schema |-> t.schema, name |-> t.name]

-----------------------------------------------------------------------------
(* Capture: what TakeSnapshot makes of the catalog.                        *)

\* The rows of pg_inherits whose child lives in a captured schema.
LinkRows(catalog, schemas) ==
    {l \in catalog.links : catalog.tables[l.child].schema \in schemas}

\* The refs at one end of the links of one sort that have oid at the other end.
ParentRefs(catalog, rows, oid, isPartition) ==
    {RefOf(catalog.tables[l.parent]) :
        l \in {x \in rows : x.child = oid /\ x.isPartition = isPartition}}

ChildRefs(catalog, rows, oid, isPartition) ==
    {RefOf(catalog.tables[l.child]) :
        l \in {x \in rows : x.parent = oid /\ x.isPartition = isPartition}}

\* One captured table: its links become names, at the time of the capture.  A
\* partition has one parent; the code keeps the last row it sees.
linkTableHierarchy(catalog, rows, oid) ==
    LET t == catalog.tables[oid]
        parents == ParentRefs(catalog, rows, oid, TRUE)
    IN  [id                |-> oid,
         schema            |-> t.schema,
         name              |-> t.name,
         kind              |-> t.kind,
         columns           |-> t.columns,
         objects           |-> t.objects,
         partitionParent   |-> IF parents = {} THEN NoRef
                               ELSE CHOOSE r \in parents : TRUE,
         partitionChildren |-> ChildRefs(catalog, rows, oid, TRUE),
         inheritsFrom      |-> ParentRefs(catalog, rows, oid, FALSE),
         inheritedBy       |-> ChildRefs(catalog, rows, oid, FALSE)]

\* Every query of the capture reads one point of the catalog (REPEATABLE READ).
TakeSnapshot(catalog, schemas) ==
    LET rows == LinkRows(catalog, schemas)
    IN  {linkTableHierarchy(catalog, rows, oid) :
            oid \in {o \in DOMAIN catalog.tables :
                        catalog.tables[o].schema \in schemas}}

-----------------------------------------------------------------------------
(* The diff.  A finding names the object on each side: NoIdent where the   *)
(* object does not exist, [table, sub] otherwise, sub "" for a table.      *)

NoIdent == [table |-> NoRef, sub |-> ""]

TableIdent(t) == [table |-> RefOf(t), sub |-> ""]

SubIdent(t, o) == [table |-> RefOf(t), sub |-> o.name]

Finding(type, objectType, a, b) ==
    [type |-> type, objectType |-> objectType, objectA |-> a, objectB |-> b]

\* Objects of the two sides are paired by a key.
matchByKey(as, bs, KeyA(_), KeyB(_), OnMatch(_, _), OnDropped(_), OnAdded(_)) ==
    UNION (   {OnMatch(p[1], p[2]) : p \in {q \in as \X bs : KeyA(q[1]) = KeyB(q[2])}}
         \cup {OnDropped(a) : a \in {x \in as : \A b \in bs : KeyA(x) # KeyB(b)}}
         \cup {OnAdded(b)   : b \in {x \in bs : \A a \in as : KeyA(a) # KeyB(x)}})

\* Both sides are the same PostgreSQL, so a table is matched by its OID.
idOfTable(t) == t.id

\* (A link compared by name alone would make a renamed parent a new parent.)
linkKey_ByName(content, ref) == [id |-> {}, ref |-> ref]

\* A link goes to a table by name; it is compared by the identity of the table
\* of that name in the same snapshot, and by the name when there is none.
linkKey(content, ref) ==
    LET named == {t \in content : RefOf(t) = ref}
    IN  [id |-> {idOfTable(t) : t \in named},
         ref |-> IF named = {} THEN ref ELSE NoRef]

LinkKeys(content, refs) == {linkKey(content, r) : r \in refs}

\* INHERITS links of a matched table that appeared or went.
diffLinkSet(tA, tB, keysA, keysB, added, removed) ==
       (IF keysA \ keysB # {}
        THEN {Finding(removed, "TABLE", TableIdent(tA), TableIdent(tB))} ELSE {})
  \cup (IF keysB \ keysA # {}
        THEN {Finding(added, "TABLE", TableIdent(tA), TableIdent(tB))} ELSE {})

\* The columns of a matched table, paired by attnum (part of the column's ID).
ColumnFindings(tA, tB) ==
    LET A == DOMAIN tA.columns
        B == DOMAIN tB.columns
        Changed(type, n) == Finding(type, "COLUMN", SubIdent(tA, tA.columns[n]),
                                    SubIdent(tB, tB.columns[n]))
        Where(type, P(_, _)) ==
            {Changed(type, n) : n \in {m \in A \cap B : P(tA.columns[m], tB.columns[m])}}
    IN       {Finding("COLUMN_DROPPED", "COLUMN", SubIdent(tA, tA.columns[n]), NoIdent) : n \in A \ B}
        \cup {Finding("COLUMN_ADDED", "COLUMN", NoIdent, SubIdent(tB, tB.columns[n])) : n \in B \ A}
        \cup Where("COLUMN_NAME_CHANGED", LAMBDA c, d : c.name # d.name)
        \cup Where("COLUMN_TYPE_CHANGED", LAMBDA c, d : c.type # d.type)
        \cup Where("COLUMN_NOT_NULL_SET", LAMBDA c, d : ~c.notNull /\ d.notNull)
        \cup Where("COLUMN_NOT_NULL_DROPPED", LAMBDA c, d : c.notNull /\ ~d.notNull)
        \cup Where("COLUMN_DEFAULT_CHANGED", LAMBDA c, d : c.default # d.default)

\* The kinds of constraint and index, and the object type each is filed under.
ObjectKinds == {"PRIMARY_KEY", "UNIQUE", "CHECK", "FOREIGN_KEY", "UNIQUE_INDEX", "INDEX"}

ObjectTypeOf(kind) == IF kind \in {"UNIQUE_INDEX", "INDEX"} THEN "INDEX" ELSE "CONSTRAINT"

TypesOf(kind) ==
    CASE kind = "PRIMARY_KEY"  -> [added |-> "PRIMARY_KEY_ADDED", dropped |-> "PRIMARY_KEY_DROPPED", renamed |-> "PRIMARY_KEY_NAME_CHANGED"]
      [] kind = "UNIQUE"       -> [added |-> "UNIQUE_ADDED", dropped |-> "UNIQUE_DROPPED", renamed |-> "UNIQUE_NAME_CHANGED"]
      [] kind = "CHECK"        -> [added |-> "CHECK_ADDED", dropped |-> "CHECK_DROPPED", renamed |-> "CHECK_NAME_CHANGED"]
      [] kind = "FOREIGN_KEY"  -> [added |-> "FOREIGN_KEY_ADDED", dropped |-> "FOREIGN_KEY_DROPPED", renamed |-> "FOREIGN_KEY_NAME_CHANGED"]
      [] kind = "UNIQUE_INDEX" -> [added |-> "UNIQUE_INDEX_ADDED", dropped |-> "UNIQUE_INDEX_DROPPED", renamed |-> "UNIQUE_INDEX_NAME_CHANGED"]
      [] kind = "INDEX"        -> [added |-> "INDEX_ADDED", dropped |-> "INDEX_DROPPED", renamed |-> "INDEX_NAME_CHANGED"]

\* The constraints and indexes of a matched table, kind by kind, paired by OID.
\* The copies a partition or an inheritance child has of its parent's are silent.
diffConstraintsOrIndexes(tA, tB, kind) ==
    LET A == {o \in DOMAIN tA.objects : tA.objects[o].kind = kind}
        B == {o \in DOMAIN tB.objects : tB.objects[o].kind = kind}
        T == TypesOf(kind)
        F(type, a, b) == Finding(type, ObjectTypeOf(kind), a, b)
    IN       {F(T.dropped, SubIdent(tA, tA.objects[o]), NoIdent) :
                o \in {x \in A \ B : ~tA.objects[x].fromParent}}
        \cup {F(T.added, NoIdent, SubIdent(tB, tB.objects[o])) :
                o \in {x \in B \ A : ~tB.objects[x].fromParent}}
        \cup {F(T.renamed, SubIdent(tA, tA.objects[o]), SubIdent(tB, tB.objects[o])) :
                o \in {x \in A \cap B : /\ ~tA.objects[x].fromParent
                                        /\ ~tB.objects[x].fromParent
                                        /\ tA.objects[x].name # tB.objects[x].name}}

\* Everything that is compared of a table present on both sides.
compareMatchedTables(A, B, tA, tB) ==
    LET Changed(type) == Finding(type, "TABLE", TableIdent(tA), TableIdent(tB))
        parentA == IF tA.partitionParent = NoRef THEN {} ELSE LinkKeys(A, {tA.partitionParent})
        parentB == IF tB.partitionParent = NoRef THEN {} ELSE LinkKeys(B, {tB.partitionParent})
    IN       (IF tA.name   # tB.name   THEN {Changed("TABLE_NAME_CHANGED")} ELSE {})
        \cup (IF tA.schema # tB.schema THEN {Changed("TABLE_SCHEMA_CHANGED")} ELSE {})
        \cup (IF tA.kind   # tB.kind   THEN {Changed("TABLE_KIND_CHANGED")} ELSE {})
        \cup (IF parentA # parentB /\ parentA # {} THEN {Changed("TABLE_PARTITION_DETACHED")} ELSE {})
        \cup (IF parentA # parentB /\ parentB # {} THEN {Changed("TABLE_PARTITION_ATTACHED")} ELSE {})
        \cup (IF LinkKeys(A, tA.partitionChildren) # LinkKeys(B, tB.partitionChildren)
              THEN {Changed("TABLE_PARTITION_CHILDREN_CHANGED")} ELSE {})
        \cup diffLinkSet(tA, tB, LinkKeys(A, tA.inheritsFrom), LinkKeys(B, tB.inheritsFrom),
                         "TABLE_INHERIT_ADDED", "TABLE_INHERIT_REMOVED")
        \cup diffLinkSet(tA, tB, LinkKeys(A, tA.inheritedBy), LinkKeys(B, tB.inheritedBy),
                         "TABLE_INHERITED_BY_ADDED", "TABLE_INHERITED_BY_REMOVED")
        \cup ColumnFindings(tA, tB)
        \cup UNION {diffConstraintsOrIndexes(tA, tB, k) : k \in ObjectKinds}

\* All findings between two captured contents.  A dropped or added table is one
\* finding, whatever it holds.
diffTables(A, B) ==
    matchByKey(A, B, idOfTable, idOfTable,
               LAMBDA tA, tB : compareMatchedTables(A, B, tA, tB),
               LAMBDA t : {Finding("TABLE_DROPPED", "TABLE", TableIdent(t), NoIdent)},
               LAMBDA t : {Finding("TABLE_ADDED", "TABLE", NoIdent, TableIdent(t))})

-----------------------------------------------------------------------------
(* The filter on findings: scope is [schemas, tables, objectTypes].        *)

\* The table a finding is filed under: that of side A, of side B for an addition.
anchorTableOf(f) == IF f.objectA = NoIdent THEN f.objectB.table ELSE f.objectA.table

schemasOf(f) == {i.table.schema : i \in {f.objectA, f.objectB} \ {NoIdent}}

FilterByScope_SideB(findings, scope) ==
    {f \in findings : /\ f.objectType \in scope.objectTypes
                      /\ schemasOf(f) \cap scope.schemas # {}
                      /\ (IF f.objectB = NoIdent THEN f.objectA.table ELSE f.objectB.table)
                            \in scope.tables}

FilterByScope(findings, scope) ==
    {f \in findings : /\ f.objectType \in scope.objectTypes
                      /\ schemasOf(f) \cap scope.schemas # {}
                      /\ anchorTableOf(f) \in scope.tables}

-----------------------------------------------------------------------------
(* The drift report: which captures are compared, when each change is said *)
(* to have happened and how severe that makes it (src/schema/schemadrift,  *)
(* and the scope resolution of cmd/detectDrift.go).                        *)
(*                                                                         *)
(* A capture point is a record [label, reason, schemas, content]; content  *)
(* is the empty set for a placeholder, whose `placeholder' is TRUE.        *)
(* Migration info is [exportType, requestedAt], requestedAt the number of  *)
(* capture points taken when the cutover was requested, NotRequested       *)
(* before that: a point was captured at or after the request exactly when  *)
(* its index is larger.                                                    *)

NotRequested == 99

AllObjectTypes == {"TABLE", "COLUMN", "CONSTRAINT", "INDEX"}

-----------------------------------------------------------------------------
(* Scope.                                                                  *)

\* The tables that can be named: those of every capture and of the live read.
driftTableUniverse(points) ==
    {RefOf(t) : t \in UNION {points[i].content : i \in DOMAIN points}}

\* Which table has been recorded as a partition of which, in any capture.
driftPartitionChildren(points) ==
    UNION {{<<RefOf(t), c>> : c \in t.partitionChildren} :
            t \in UNION {points[i].content : i \in DOMAIN points}}

\* The listed tables with all their partitions, at every level.
expandDriftPartitions(refs, children) ==
    LET nodes == {p[1] : p \in children} \cup {p[2] : p \in children}
        Reach == TransitiveClosure([e \in nodes \X nodes |-> e \in children], nodes)
    IN  refs \cup {n \in nodes : \E r \in refs \cap nodes : Reach[r, n]}

\* filters is [tableList, excludeTableList]; the empty set is a flag not given.
\* Naming a table that no capture holds, and excluding every table, are refused.
resolveDriftScope(points, schemas, filters) ==
    LET universe == driftTableUniverse(points)
        children == driftPartitionChildren(points)
        named    == filters.tableList \cup filters.excludeTableList
        tables   == IF filters.tableList # {}
                    THEN expandDriftPartitions(filters.tableList, children)
                    ELSE universe \ expandDriftPartitions(filters.excludeTableList, children)
    IN  [schemas     |-> schemas,
         objectTypes |-> AllObjectTypes,
         tables      |-> tables,
         error       |-> ~(named \subseteq universe) \/ (named # {} /\ tables = {})]

-----------------------------------------------------------------------------
(* Timing.                                                                 *)

IsExportDataPoint(p) == p.label \in {"start", "periodic", "exit"}

\* (Judging by the capture that ends the interval.)
isAfterCutover_ByNext(points, prev, info) ==
    \/ points[prev].label = "exit" /\ points[prev].reason = "cutover"
    \/ info.requestedAt # NotRequested /\ prev + 1 > info.requestedAt

\* The whole interval lies after the cutover.
isAfterCutover(points, prev, info) ==
    \/ points[prev].label = "exit" /\ points[prev].reason = "cutover"
    \/ info.requestedAt # NotRequested /\ prev > info.requestedAt

\* The first export data capture from the interval's end on begins a fresh export.
isBeforeExportData(points, next, info) ==
    \/ info.exportType = "none"
    \/ LET later == {i \in next .. Len(points) : IsExportDataPoint(points[i])}
       IN  /\ later # {}
           /\ points[Min(later)].label = "start"
           /\ points[Min(later)].reason \in {"initial", "clean_restart"}

timingFor(points, prev, next, info) ==
    CASE isAfterCutover(points, prev, info)     -> "after_cutover"
      [] ~isAfterCutover(points, prev, info)
         /\ isBeforeExportData(points, next, info) -> "before_export_data"
      [] OTHER -> CASE info.exportType = "snapshot-only"        -> "offline"
                    [] info.exportType = "snapshot-and-changes" -> "live"
                    [] info.exportType = "changes-only"         -> "changes_only"
                    [] OTHER                                    -> "unknown"

-----------------------------------------------------------------------------
(* Severity of a kind of change at each timing.                            *)

\* Changes that never matter to the data.
AlwaysAdvisory ==
    {"COLUMN_NOT_NULL_SET", "TABLE_PARTITION_CHILDREN_CHANGED", "TABLE_INHERIT_REMOVED",
     "TABLE_INHERITED_BY_REMOVED", "UNIQUE_ADDED", "CHECK_ADDED", "FOREIGN_KEY_ADDED",
     "INDEX_ADDED", "INDEX_DROPPED", "PRIMARY_KEY_NAME_CHANGED", "UNIQUE_NAME_CHANGED",
     "CHECK_NAME_CHANGED", "FOREIGN_KEY_NAME_CHANGED", "UNIQUE_INDEX_NAME_CHANGED",
     "INDEX_NAME_CHANGED"}

BeforeExportInfo(type) ==
    CASE type \in AlwaysAdvisory \cup {"TABLE_DROPPED", "UNIQUE_INDEX_ADDED"} -> "advisory"
      [] type \in {"TABLE_NAME_CHANGED", "TABLE_SCHEMA_CHANGED", "TABLE_ADDED", "COLUMN_ADDED",
                   "COLUMN_NAME_CHANGED", "COLUMN_NOT_NULL_DROPPED", "TABLE_PARTITION_ATTACHED",
                   "TABLE_INHERIT_ADDED", "TABLE_INHERITED_BY_ADDED", "PRIMARY_KEY_ADDED",
                   "PRIMARY_KEY_DROPPED", "UNIQUE_DROPPED", "CHECK_DROPPED",
                   "UNIQUE_INDEX_DROPPED"} -> "breaks_recoverable"
      [] type \in {"COLUMN_DROPPED", "COLUMN_TYPE_CHANGED", "COLUMN_DEFAULT_CHANGED",
                   "TABLE_KIND_CHANGED", "TABLE_PARTITION_DETACHED", "FOREIGN_KEY_DROPPED"}
            -> "potential_impact"

OfflineInfo(type) ==
    IF type \in AlwaysAdvisory \cup {"TABLE_DROPPED", "TABLE_ADDED", "PRIMARY_KEY_ADDED",
                                     "UNIQUE_INDEX_ADDED"}
    THEN "advisory" ELSE "potential_impact"

LiveInfo(type) ==
    CASE type \in AlwaysAdvisory \cup {"TABLE_ADDED", "PRIMARY_KEY_ADDED"} -> "advisory"
      [] type \in {"TABLE_DROPPED", "TABLE_NAME_CHANGED", "TABLE_SCHEMA_CHANGED",
                   "COLUMN_NAME_CHANGED", "TABLE_PARTITION_DETACHED", "TABLE_INHERIT_ADDED",
                   "TABLE_INHERITED_BY_ADDED", "PRIMARY_KEY_DROPPED"} -> "breaks_unrecoverable"
      [] type \in {"COLUMN_ADDED", "COLUMN_NOT_NULL_DROPPED", "UNIQUE_DROPPED", "CHECK_DROPPED",
                   "UNIQUE_INDEX_DROPPED"} -> "breaks_recoverable"
      [] type \in {"COLUMN_DROPPED", "COLUMN_TYPE_CHANGED", "COLUMN_DEFAULT_CHANGED",
                   "TABLE_KIND_CHANGED", "TABLE_PARTITION_ATTACHED", "FOREIGN_KEY_DROPPED",
                   "UNIQUE_INDEX_ADDED"} -> "potential_impact"

getDriftInfo(type, timing) ==
    CASE timing = "after_cutover"      -> "advisory"
      [] timing = "before_export_data" -> BeforeExportInfo(type)
      [] timing = "offline"            -> OfflineInfo(type)
      [] timing \in {"live", "changes_only"} -> LiveInfo(type)

-----------------------------------------------------------------------------
(* The report.                                                             *)

\* A capture that failed, or that did not look at every requested schema, is
\* no evidence of anything and is passed over.
UsablePoints(points, scope) ==
    {i \in DOMAIN points : ~points[i].placeholder /\ scope.schemas \subseteq points[i].schemas}

\* Each usable point against the nearest usable one before it.
ComparedIntervals(points, scope) ==
    LET usable == UsablePoints(points, scope)
    IN  {<<Max({j \in usable : j < i}), i>> :
            i \in {k \in usable : \E j \in usable : j < k}}

BuildReport(points, scope, info) ==
    LET intervals == ComparedIntervals(points, scope)
        Timing(v) == timingFor(points, v[1], v[2], info)
        Entries(v) == {[prev |-> v[1], next |-> v[2], diff |-> f, timing |-> Timing(v),
                        severity |-> getDriftInfo(f.type, Timing(v))] :
                        f \in FilterByScope(diffTables(points[v[1]].content,
                                                       points[v[2]].content), scope)}
    IN  IF \E v \in intervals : Timing(v) = "unknown"
        THEN [error |-> "unknown export type", intervals |-> {}, drifts |-> {}]
        ELSE [error     |-> IF intervals = {} THEN "nothing compared" ELSE "",
              intervals |-> intervals,
              drifts    |-> UNION {Entries(v) : v \in intervals}]
=============================================================================
