-------------------------- MODULE MCStreamImport --------------------------
(***************************************************************************)
(* Bounded instances of StreamImport.  The table has a primary key id, a   *)
(* column u under a unique index and a column p that is the predicate of a *)
(* partial index or the custom partition key.  Logs is the set of ALL      *)
(* histories of HistoryLength changes a source database with the same      *)
(* unique indexes could have committed, followed by the cutover event.     *)
(***************************************************************************)
EXTENDS StreamImport, TLC

CONSTANTS Us, Ps, HistoryLength, ForeignCutover

MCColumns == {"id", "u", "p"}
MCValues == KeyValues \cup Us \cup Ps \cup {NULL}

UniqueU == [columns |-> {"u"}, IsPartialIndex |-> FALSE, NullsNotDistinct |-> FALSE]
UniqueUNullsNotDistinct == [UniqueU EXCEPT !.NullsNotDistinct = TRUE]
UniqueUWhereP == [UniqueU EXCEPT !.IsPartialIndex = TRUE]
OnUniqueU == {UniqueU}
OnUniqueUNullsNotDistinct == {UniqueUNullsNotDistinct}
OnUniqueUWhereP == {UniqueUWhereP}

RowWith(k, x, y) == [c \in MCColumns |-> CASE c = "id" -> k [] c = "u" -> x [] c = "p" -> y]
TableRows(k) == {RowWith(k, x, y) : x \in Us, y \in Ps}

NoRows == [k \in KeyValues |-> NoRow]

\* Changes the source may commit on table r.
SourceEvents(r) ==
  {e \in UNION {
       {[Op |-> "c", BeforeFields |-> NoRow, AfterFields |-> w] :
          w \in UNION {TableRows(k) : k \in {j \in KeyValues : r[j] = NoRow}}},
       {[Op |-> "d", BeforeFields |-> r[k], AfterFields |-> NoRow] :
          k \in {j \in KeyValues : r[j] # NoRow}},
       UNION {{[Op |-> "u", BeforeFields |-> r[k], AfterFields |-> w] :
          w \in {t \in TableRows(k) : /\ t # r[k]
                                      /\ Strategy = "custom" => t[CustomColumn] = r[k][CustomColumn]}}
          : k \in {j \in KeyValues : r[j] # NoRow}}} :
     UniqueIndexesHold(ApplyEvent(r, e))}

Histories ==
  LET h[n \in 0 .. HistoryLength] ==
        IF n = 0 THEN {<<<<>>, InitRows>>}
        ELSE UNION {{<<Append(g[1], e), ApplyEvent(g[2], e)>> : e \in SourceEvents(g[2])}
                    : g \in h[n - 1]}
  IN  {g[1] : g \in h[HistoryLength]}

CutoverEvent(op) == [Op |-> op, BeforeFields |-> NoRow, AfterFields |-> NoRow]
Foreign == IF ForeignCutover THEN <<CutoverEvent("cutover.other")>> ELSE <<>>
MCLogs == {Foreign \o h \o <<CutoverEvent("cutover.own")>> : h \in Histories}

\* Partition keys are spread so that two keys share channel 0.
MCHash == [k \in PartitionKeys |-> IF k = <<>> THEN 0
                                   ELSE IF k[1] \in {"k2", "t"} THEN 1 ELSE 0]
TwoRows == ("k1" :> RowWith("k1", "a", "f")) @@ ("k2" :> RowWith("k2", "b", "f")) @@ NoRows
SameUOneInIndex == ("k1" :> RowWith("k1", "a", "t")) @@ ("k2" :> RowWith("k2", "a", "f")) @@ NoRows
TwoPartitions == ("k1" :> RowWith("k1", "a", "f")) @@ ("k2" :> RowWith("k2", NULL, "t")) @@ NoRows
=============================================================================
