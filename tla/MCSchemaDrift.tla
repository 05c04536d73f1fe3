--------------------------- MODULE MCSchemaDrift ---------------------------
(* A source with a partitioned table and its partition, a plain table, and  *)
(* an inheritance parent and child, in two schemas.                         *)
EXTENDS SchemaDrift

Table(schema, name, kind) ==
    [schema |-> schema, name |-> name, kind |-> kind, objects |-> <<>>,
     columns |-> (1 :> [name |-> "id", type |-> "int", notNull |-> FALSE, default |-> ""])]

MCCatalog ==
    [tables |-> <<Table("s1", "root", "partitioned"), Table("s2", "part", "ordinary"),
                  Table("s1", "t", "ordinary"), Table("s1", "base", "ordinary"),
                  Table("s2", "child", "ordinary")>>,
     links |-> {[child |-> 2, parent |-> 1, isPartition |-> TRUE],
                [child |-> 5, parent |-> 4, isPartition |-> FALSE]}]

D(op, oid, arg) == [op |-> op, oid |-> oid, arg |-> arg]

MCSchemas == {"s1", "s2"}

Changes ==
    {D("create", 6, [schema |-> "s2", name |-> "u"]), D("rename", 1, "root2"), D("rename", 4, "base2"),
     D("drop", 2, ""), D("move", 3, "s2"), D("move", 5, "s1"),
     D("detach", 2, 1), D("attach", 3, 1), D("inherit", 3, 4), D("uninherit", 5, 4),
     D("add column", 3, ""), D("drop column", 3, ""), D("alter column", 3, "name"),
     D("alter column", 3, "type"), D("alter column", 3, "notNull"), D("alter column", 3, "default"),
     D("add object", 1, "UNIQUE_INDEX"), D("add object", 3, "PRIMARY_KEY"),
     D("drop object", 3, ""), D("rename object", 3, "")}

\* Any two statements between two captures and a live read.
Catalogs ==
    [ddls |-> Changes, ddl |-> 2, schemaSets |-> {{"s1"}, MCSchemas}, types |-> {}, hooks |-> {},
     schemaRuns |-> 2, runs |-> 0, periodic |-> 0, failures |-> 1, checks |-> 1]

\* One streaming run with captures that fail, beside periodic captures.
OneRun ==
    [ddls |-> {D("move", 3, "s2")}, ddl |-> 1, schemaSets |-> {MCSchemas},
     types |-> {"changes-only"}, hooks |-> {"interrupt"},
     schemaRuns |-> 1, runs |-> 1, periodic |-> 1, failures |-> 1, checks |-> 1]

\* Two runs, the second one a resumption or a clean restart.
TwoRuns ==
    [ddls |-> {D("drop", 3, "")}, ddl |-> 1, schemaSets |-> {MCSchemas},
     types |-> {"snapshot-and-changes", "snapshot-only"}, hooks |-> {},
     schemaRuns |-> 1, runs |-> 2, periodic |-> 0, failures |-> 0, checks |-> 1]

MCBudgets == {Catalogs, OneRun, TwoRuns}
=============================================================================
