------------------------- MODULE MCOfflineMigration -------------------------
(***************************************************************************)
(* A small schema in which every detour is taken: a type that needs a      *)
(* domain that needs a function (deferred in the wrong order), a table     *)
(* that inherits from one the transformation moves behind it, a key on a   *)
(* timestamp, a NOT VALID constraint, a foreign key and an owned sequence  *)
(* for the second pass, a redundant index, a unique index, a function that *)
(* the target refuses and a view that needs it.                            *)
(***************************************************************************)
EXTENDS OfflineMigration

D(type, id, cmd, on, needs) ==
  [type |-> type,
   stmt |-> [id |-> id, cmd |-> cmd, on |-> on, makes |-> {id}, needs |-> needs,
             notValid |-> FALSE, key |-> "none", opts |-> {}]]
Key(d, k) == [d EXCEPT !.stmt.key = k]
NotValid(d) == [d EXCEPT !.stmt.notValid = TRUE]

MCPreamble == <<[cmd |-> "SET", var |-> "row_security", val |-> "off"]>>

MCDump ==
  <<D("TYPE", "composite", "CREATE TYPE", "", {"domain"}),
    D("DOMAIN", "domain", "CREATE DOMAIN", "", {"f"}),
    D("FUNCTION", "f", "CREATE FUNCTION", "", {}),
    D("FUNCTION", "g", "CREATE FUNCTION", "", {}),
    D("TABLE", "child", "CREATE TABLE", "child", {"t2"}),
    D("TABLE", "t1", "CREATE TABLE", "t1", {}),
    D("TABLE", "t2", "CREATE TABLE", "t2", {}),
    D("SEQUENCE", "q", "CREATE SEQUENCE", "", {}),
    D("SEQUENCE OWNED BY", "q owned", "ALTER SEQUENCE", "", {"q", "t1"}),
    D("TABLE ATTACH", "attach", "ATTACH PARTITION", "t1", {"t1", "t2"}),
    NotValid(D("CHECK CONSTRAINT", "late check", "ADD CHECK", "t1", {"t1"})),
    NotValid(D("CHECK CONSTRAINT", "lost check", "ADD CHECK", "t1", {"t1", "g"})),
    Key(D("CONSTRAINT", "t1 pk", "ADD PRIMARY KEY", "t1", {"t1"}), "hash"),
    Key(D("CONSTRAINT", "t2 pk", "ADD PRIMARY KEY", "t2", {"t2"}), "range"),
    D("CONSTRAINT", "t1 unique", "ADD UNIQUE", "t1", {"t1"}),
    D("TABLE", "t1 identity", "REPLICA IDENTITY", "t1", {"t1"}),
    D("FK CONSTRAINT", "fk", "ADD FOREIGN KEY", "t2", {"t1 pk", "t2"}),
    D("INDEX", "idx", "CREATE INDEX", "t1", {"t1"}),
    D("INDEX", "idx2", "CREATE INDEX", "t1", {"t1"}),
    D("INDEX", "uidx", "CREATE UNIQUE INDEX", "t2", {"t2"}),
    D("VIEW", "v", "CREATE VIEW", "", {"g"}),
    D("MATERIALIZED VIEW", "mv", "CREATE MATERIALIZED VIEW", "", {"t1"}),
    D("FOREIGN TABLE", "ft", "CREATE FOREIGN TABLE", "ft", {}),
    D("DEFAULT", "ft default", "ALTER FOREIGN TABLE", "ft", {"ft"}),
    D("SUBSCRIPTION", "sub", "CREATE SUBSCRIPTION", "", {})>>

TableDump == SelectSeq(MCDump, LAMBDA e : e.stmt.cmd = "CREATE TABLE")
MCFiles   == <<"t2", "t1", "child">>

\* "errors" and "kills": every statement, around a data import that is one batch.
\* "data": three tables, and batches enough to fill the queue and the pools.
MCMigrations ==
  [errors |-> [dump |-> MCDump, batches |-> [t1 |-> 1],
               conflicts |-> 2, starts |-> 3, kills |-> 1],
   kills  |-> [dump |-> MCDump, batches |-> [t1 |-> 1],
               conflicts |-> 0, starts |-> 3, kills |-> 2],
   data   |-> [dump |-> TableDump, batches |-> [t1 |-> 5, t2 |-> 1, child |-> 1],
               conflicts |-> 0, starts |-> 1, kills |-> 1]]
=============================================================================
