------------------------- MODULE MCTableMigration ---------------------------
(***************************************************************************)
(* acc has an identity column whose sequence "Acc" uses too; ord has two   *)
(* partitions and may get a third; log is empty at first.                  *)
(***************************************************************************)
EXTENDS TableMigration, TLC

T(id) == <<"public", id, "lower">>

acc  == T("acc")
Acc  == <<"public", "acc", "mixed">>
ord  == T("ord")
ord1 == T("ord_1")
ord2 == T("ord_2")
ord3 == T("ord_3")
log  == T("log")
accSeq == T("acc_id_seq")
ordSeq == T("ord_id_seq")

Plain == {acc, Acc, ord, ord1, ord2, log}

OrdKeys == ord1 :> "id" @@ ord2 :> "id" @@ ord3 :> "id"
Base ==
  [tables |-> Plain, parent |-> ord1 :> ord @@ ord2 :> ord @@ ord3 :> ord,
   primaryKey |-> acc :> "id" @@ Acc :> "id" @@ log :> "id" @@ ord :> "id" @@ OrdKeys,
   deferrable |-> {}, inheriting |-> {},
   sequences |-> {accSeq, ordSeq},
   attached |-> acc :> accSeq @@ Acc :> accSeq @@
                ord :> ordSeq @@ ord1 :> ordSeq @@ ord2 :> ordSeq @@ ord3 :> ordSeq]

Pattern(ids_, quoted) == [schema |-> "", ids |-> ids_, case |-> "mixed", quoted |-> quoted]
None == [include |-> {}, exclude |-> {}]
With(patterns) == [include |-> patterns, exclude |-> {}]
Without(patterns) == [include |-> {}, exclude |-> patterns]

AccAnyCase == Pattern({"acc"}, FALSE)
AccQuoted  == Pattern({"acc"}, TRUE)
OrdFirst   == Pattern({"ord_1"}, FALSE)
OrdAny     == Pattern({"ord", "ord_1", "ord_2", "ord_3"}, FALSE)
LogOnly    == Pattern({"log"}, FALSE)
Unknown    == Pattern({"nothing"}, FALSE)

InitialRows == {<<acc, 1>>, <<Acc, 2>>, <<ord1, 1>>, <<ord2, 2>>}

Scenario(live, catalog, exportFlags, importFlags, inserts, late, missing) ==
  [live |-> live, catalog |-> catalog, exportFlags |-> exportFlags, importFlags |-> {importFlags},
   inserts |-> inserts, late |-> late, missing |-> missing, rows |-> InitialRows,
   seqAt |-> accSeq :> 2 @@ ordSeq :> 2,
   target |-> Plain, always |-> {acc}]

\* A catalog that a live migration refuses, but for some tables left out.
Unfit(catalog) ==
  Scenario(TRUE, catalog, {None, Without({OrdAny}), Without({LogOnly})}, None, 0, {}, {})

\* A new schema: nothing inserted yet, the sequences not used.
Fresh(s) == [s EXCEPT !.rows = {}, !.seqAt = accSeq :> 0 @@ ordSeq :> 0]

MCScenarios == {
  \* partitions, of which one may be created on the way; their sequence is missing
  Scenario(TRUE, Base, {None, With({AccAnyCase}), Without({OrdFirst})}, None, 0, {ord3}, {ordSeq}),
  \* names that differ in letter case; a target that has only one of them
  Scenario(FALSE, Base, {None}, None, 0, {}, {Acc}),
  Scenario(TRUE, Base, {With({AccQuoted}), With({AccAnyCase})}, None, 1, {}, {}),
  \* a target that lacks a table
  Scenario(TRUE, Base, {None}, None, 1, {}, {log}),
  Fresh(Scenario(TRUE, [Base EXCEPT !.tables = {acc, ord, ord1}], {None}, None, 2, {}, {})),
  \* offline, all or some of the files imported
  Scenario(FALSE, Base, {None, Without({OrdFirst})}, None, 0, {}, {ordSeq}),
  Scenario(FALSE, Base, {None, With({LogOnly}), With({Unknown})}, Without({OrdAny}), 0, {}, {ord, ordSeq}),
  Unfit([Base EXCEPT !.primaryKey = acc :> "id" @@ Acc :> "id" @@ ord :> "id" @@ OrdKeys]),
  Unfit([Base EXCEPT !.primaryKey = acc :> "id" @@ Acc :> "id" @@ log :> "id" @@
                                    ord1 :> "id" @@ ord2 :> "id, region"]),
  Unfit([Base EXCEPT !.deferrable = {log}]),
  Unfit([Base EXCEPT !.inheriting = {log}])}
=============================================================================
