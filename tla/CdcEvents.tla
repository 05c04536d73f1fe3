----------------------------- MODULE CdcEvents -----------------------------
(***************************************************************************)
(* Change events of one table, the partition key that routes them to an    *)
(* event channel, the unique-index value tuples the conflict detection     *)
(* cache files and looks up, and what one event does to the rows of the    *)
(* target table.  Pure definitions, no state.                              *)
(*                                                                         *)
(* One table is enough: the partition key and every bucket key start with  *)
(* the table's name, so events of two tables neither conflict nor share a  *)
(* partition.                                                              *)
(***************************************************************************)
EXTENDS Integers, Sequences, FiniteSets

CONSTANTS
  Columns,      \* column names of the table
  Values,       \* column values, NULL included
  NULL,         \* SQL NULL
  KeyValues,    \* values of the primary key
  NoRow,        \* there is no row with the key
  PkColumn,     \* the primary-key column
  CustomColumn, \* the immutable column of the custom partition key
  PredColumn,   \* the column a partial index's predicate reads
  PredValue,    \* the predicate: row[PredColumn] = PredValue
  UniqueIndexes,\* records [columns, IsPartialIndex, NullsNotDistinct]
  Strategy      \* "pk", "table" or "custom": the table's CDC partition strategy

UniqueIndexType ==
  [columns : SUBSET Columns, IsPartialIndex : BOOLEAN, NullsNotDistinct : BOOLEAN]

ASSUME EventsAssumption ==
  /\ NULL \in Values
  /\ KeyValues \subseteq Values \ {NULL}
  /\ NoRow \notin [Columns -> Values]
  /\ {PkColumn, CustomColumn, PredColumn} \subseteq Columns
  /\ UniqueIndexes \subseteq UniqueIndexType
  /\ Strategy \in {"pk", "table", "custom"}

Row == {r \in [Columns -> Values] : r[PkColumn] \in KeyValues}

DataOps == {"c", "u", "d"}
CutoverOps == {"cutover.own", "cutover.other"}

DataEvent ==
  [Op : {"c"}, BeforeFields : {NoRow}, AfterFields : Row]
    \cup [Op : {"u"}, BeforeFields : Row, AfterFields : Row]
    \cup [Op : {"d"}, BeforeFields : Row, AfterFields : {NoRow}]

Event == DataEvent \cup [Op : CutoverOps, BeforeFields : {NoRow}, AfterFields : {NoRow}]

IsCutoverEvent(e) == e.Op \in CutoverOps

\* Fields of an update: only the changed columns are in the event.
ChangedColumns(e) == {c \in Columns : e.BeforeFields[c] # e.AfterFields[c]}

\* The image that carries an event's key: AfterFields of an insert, else BeforeFields.
KeyImage(e) == IF e.Op = "c" THEN e.AfterFields ELSE e.BeforeFields
Key(e) == KeyImage(e)[PkColumn]

GetEventPartitionKey(e) ==
  CASE Strategy = "pk"     -> <<Key(e)>>
    [] Strategy = "table"  -> <<>>
    [] Strategy = "custom" -> <<KeyImage(e)[CustomColumn]>>

-----------------------------------------------------------------------------
(* Unique indexes the conflict cache works with.                           *)

PkConflictGuard ==
  [columns |-> {PkColumn}, IsPartialIndex |-> FALSE, NullsNotDistinct |-> TRUE]

\* Mutant: no primary-key guard under the custom partition key.
ConflictIndexes_NoPkGuard == UniqueIndexes

ConflictIndexes ==
  IF Strategy = "custom" /\ (\A i \in UniqueIndexes : i.columns # {PkColumn})
  THEN UniqueIndexes \cup {PkConflictGuard}
  ELSE UniqueIndexes

shouldHandleConflicts == ConflictIndexes # {} /\ Strategy # "table"

\* NULLS DISTINCT: a tuple with a NULL equals no other tuple.
anyUniqueIndexColumnValueIsNull(row, i) == \E c \in i.columns : row[c] = NULL
Indexable(row, i) == i.NullsNotDistinct \/ ~anyUniqueIndexColumnValueIsNull(row, i)

anyUniqueIndexColumnChanged(e, i) == i.columns \cap ChangedColumns(e) # {}

indexRelevantForUpdate(e, i) == i.IsPartialIndex \/ anyUniqueIndexColumnChanged(e, i)

computeConflictBucketKey(row, i) == <<i, [c \in i.columns |-> row[c]]>>

\* The buckets a cached update or delete is filed under.
EventBuckets(e) ==
  {computeConflictBucketKey(e.BeforeFields, i) :
     i \in {j \in ConflictIndexes : /\ e.Op = "u" => indexRelevantForUpdate(e, j)
                                    /\ Indexable(e.BeforeFields, j)}}

checkBeforeAfterConflict(e) ==
  {computeConflictBucketKey(e.AfterFields, i) :
     i \in {j \in ConflictIndexes : /\ e.Op = "u" => anyUniqueIndexColumnChanged(e, j)
                                    /\ Indexable(e.AfterFields, j)}}

\* Mutant: no before-before check, a change of the predicate is missed.
checkBeforeBeforeConflict_None(e) == {}

checkBeforeBeforeConflict(e) ==
  {computeConflictBucketKey(e.BeforeFields, i) :
     i \in {j \in ConflictIndexes : /\ e.Op = "u" /\ j.IsPartialIndex
                                    /\ Indexable(e.BeforeFields, j)}}

\* A cached event f blocks the incoming insert or update e.
Conflicts(f, e) ==
  /\ EventBuckets(f) \cap (checkBeforeAfterConflict(e) \cup checkBeforeBeforeConflict(e)) # {}
  /\ GetEventPartitionKey(f) # GetEventPartitionKey(e)

-----------------------------------------------------------------------------
(* The target table: a function from primary keys to rows or NoRow.        *)

Rows == [KeyValues -> Row \cup {NoRow}]

\* INSERT ... ON CONFLICT (pk) DO NOTHING; UPDATE sets the changed columns of
\* the row with the key, DELETE removes it; both may affect no row.
ApplyEvent(rows, e) ==
  LET k == Key(e) IN
  CASE e.Op = "c" -> IF rows[k] = NoRow THEN [rows EXCEPT ![k] = e.AfterFields] ELSE rows
    [] e.Op = "u" -> IF rows[k] = NoRow THEN rows
                     ELSE [rows EXCEPT ![k] = [c \in Columns |->
                             IF c \in ChangedColumns(e) THEN e.AfterFields[c] ELSE rows[k][c]]]
    [] e.Op = "d" -> [rows EXCEPT ![k] = NoRow]

InIndex(row, i) ==
  /\ row # NoRow
  /\ i.IsPartialIndex => row[PredColumn] = PredValue
  /\ Indexable(row, i)

\* Every unique index of the database accepts the rows.
UniqueIndexesHold(rows) ==
  \A i \in UniqueIndexes : \A k1, k2 \in KeyValues :
    /\ k1 # k2
    /\ InIndex(rows[k1], i)
    /\ InIndex(rows[k2], i)
    => \E c \in i.columns : rows[k1][c] # rows[k2][c]

=============================================================================
