----------------------------- MODULE TableLists ------------------------------
(***************************************************************************)
(* The names, the tables and the sequences of a migration.                 *)
(*                                                                         *)
(* First the name registry: the names of the tables and sequences of the   *)
(* source and of the target, taken down once from each database, and the   *)
(* lookup that pairs a name of one side with its counterpart of the other. *)
(*                                                                         *)
(* A name is <<schema, identifier, letter case>>: two names with the same  *)
(* identifier differ only in the case of their letters.                    *)
(***************************************************************************)
EXTENDS Integers, FiniteSets, Sequences

NoName == <<>>

Schema(n) == n[1]

\* The tables and the sequences of a side of the registry are nil, <<>>, or the
\* names that its catalog had.
Nil == <<>>

EmptyRegistry ==
  [source |-> Nil, sourceSequences |-> Nil, yb |-> Nil, ybSequences |-> Nil,
   sourceDefault |-> "", ybDefault |-> "", replicaDefault |-> ""]

-----------------------------------------------------------------------------
(* Registering.                                                            *)

\* initSourceDBSchemaNames: the only schema, or public if it is among several.
DefaultSourceDBSchemaName(schemas) ==
  IF Cardinality(schemas) = 1 THEN CHOOSE s \in schemas : TRUE
  ELSE IF "public" \in schemas THEN "public" ELSE ""

registerSourceNames(reg, schemas, catalog) ==
  [reg EXCEPT !.sourceDefault = DefaultSourceDBSchemaName(schemas),
              !.source = <<{t \in catalog.tables : Schema(t) \in schemas}>>,
              !.sourceSequences = <<{s \in catalog.sequences : Schema(s) \in schemas}>>]

\* The schemas of a PostgreSQL source are looked up in the target.
registerYBNames(reg, schemas, catalog) ==
  [reg EXCEPT !.ybDefault = reg.sourceDefault,
              !.yb = <<{t \in catalog.tables : Schema(t) \in schemas}>>,
              !.ybSequences = <<{s \in catalog.sequences : Schema(s) \in schemas}>>]

\* The sequences stay.
UnRegisterYBNames(reg) == [reg EXCEPT !.yb = Nil, !.ybDefault = ""]

\* registerNames: each role adds its part, once.
registerNames(reg, role, schemas, catalog) ==
  CASE role = "source_db_exporter" /\ reg.source = Nil
         -> registerSourceNames(reg, schemas, catalog)
    [] role = "target_db_importer" /\ reg.yb = Nil
         -> registerYBNames(reg, schemas, catalog)
    [] role = "source_replica_db_importer" /\ reg.replicaDefault = ""
         -> [reg EXCEPT !.replicaDefault = reg.sourceDefault]
    [] OTHER -> reg

-----------------------------------------------------------------------------
(* Looking up.                                                             *)

EqualFold(a, b) == a[1] = b[1] /\ a[2] = b[2]
ToLower(n) == [n EXCEPT ![3] = "lower"]

Found(n) == [err |-> "", name |-> n]
NotFound(err) == [err |-> err, name |-> NoName]

\* An exact match wins; otherwise a single name that differs in case only.
matchName(names, n) ==
  LET candidates == {m \in names : EqualFold(m, n)}
  IN  CASE n \in names                  -> Found(n)
        [] candidates = {}              -> NotFound("name not found")
        [] n \notin names /\ Cardinality(candidates) = 1
                                        -> Found(CHOOSE m \in candidates : TRUE)
        [] OTHER                        -> NotFound("multiple matching names")

lookup(names, defaultSchemaName, n) ==
  IF Schema(n) = "" /\ defaultSchemaName = "" THEN NotFound("no default schema name")
  ELSE matchName(names, IF Schema(n) = "" THEN [n EXCEPT ![1] = defaultSchemaName] ELSE n)

\* Several candidates: the one in lower case, if there is one, as PostgreSQL and
\* YugabyteDB would read the name without quotes.
orLower(exact, lower) ==
  IF exact.err = "multiple matching names" /\ lower.err = "" THEN lower ELSE exact

lookupFold(names, defaultSchemaName, n) ==
  orLower(lookup(names, defaultSchemaName, n), lookup(names, defaultSchemaName, ToLower(n)))

\* The tables and the sequences of a side in one map, nil only if both are.
createAllObjectNamesMap(tables, sequences) ==
  IF tables = Nil /\ sequences = Nil THEN Nil
  ELSE <<UNION {tables[i] : i \in DOMAIN tables} \cup UNION {sequences[i] : i \in DOMAIN sequences}>>

checkIfSchemaNameIsDefault(reg, schema) ==
  schema \in {reg.sourceDefault, reg.replicaDefault, reg.ybDefault}

DefaultSourceSideSchemaName(reg, role) ==
  IF role = "source_replica_db_importer" THEN reg.replicaDefault ELSE reg.sourceDefault

\* What the two lookups give: a side that is registered must have the name, unless
\* told to ignore that.
pairOfNames(source, target, ignoreIfTargetNotFound, ignoreIfSourceNotFound) ==
  LET fails(side, ignore) == side.err # "" /\ ~(ignore /\ side.err = "name not found")
      error == IF fails(source, ignoreIfSourceNotFound) THEN source.err
               ELSE IF fails(target, ignoreIfTargetNotFound) THEN target.err
               ELSE IF source.name = NoName /\ target.name = NoName THEN "name not found" ELSE ""
  IN  IF error = "" THEN [err |-> "", source |-> source.name, target |-> target.name]
      ELSE [err |-> error, source |-> NoName, target |-> NoName]

\* A side that is not registered has no names.
lookupSide(objectNames, defaultSchemaName, n) ==
  IF objectNames = Nil THEN Found(NoName) ELSE lookupFold(objectNames[1], defaultSchemaName, n)

\* The pair of names for a name of either side, or why there is none.
lookupSourceAndTargetTableNames(reg, role, n, ignoreIfTargetNotFound, ignoreIfSourceNotFound) ==
  LET arg     == IF checkIfSchemaNameIsDefault(reg, Schema(n)) THEN [n EXCEPT ![1] = ""] ELSE n
      default == DefaultSourceSideSchemaName(reg, role)
  IN  IF role = "target_db_importer" /\ (default = "") # (reg.ybDefault = "")
      THEN [err |-> "default schema names", source |-> NoName, target |-> NoName]
      ELSE pairOfNames(
             lookupSide(createAllObjectNamesMap(reg.source, reg.sourceSequences), default, arg),
             lookupSide(createAllObjectNamesMap(reg.yb, reg.ybSequences), reg.ybDefault, arg),
             ignoreIfTargetNotFound, ignoreIfSourceNotFound)

LookupTableName(reg, role, n) == lookupSourceAndTargetTableNames(reg, role, n, FALSE, FALSE)

LookupTableNameAndIgnoreIfTargetNotFoundBasedOnRole(reg, role, n) ==
  lookupSourceAndTargetTableNames(reg, role, n,
    role \in {"target_db_importer", "source_db_exporter"}, FALSE)

\* NewNameTuple: the name that the database of the role knows.
CurrentName(role, tuple) == IF role = "target_db_importer" THEN tuple.target ELSE tuple.source

\* ForKey: the source's name stands for the table, wherever there is one.
ForKey(tuple) == IF tuple.source # NoName THEN tuple.source ELSE tuple.target

\* GetRegisteredTableList, for the roles on the source's side: the tables, not
\* the sequences, with the target's names where they are known.
GetRegisteredTableList(reg, role) ==
  {LookupTableNameAndIgnoreIfTargetNotFoundBasedOnRole(reg, role, t) : t \in reg.source[1]}

\* MatchesPattern: without quotes the case does not matter; a pattern without a
\* schema is about the default one.  pattern.ids is what its wildcards match.
MatchesPattern(name, defaultSchemaName, pattern) ==
  /\ Schema(name) = IF pattern.schema = "" THEN defaultSchemaName ELSE pattern.schema
  /\ name[2] \in pattern.ids
  /\ pattern.quoted => name[3] = pattern.case

-----------------------------------------------------------------------------
(* The tables of an export: what --table-list and --exclude-table-list     *)
(* select on the first run, the partitions that stand for a partitioned    *)
(* table, the guardrails that keep a later run to the first run's list,    *)
(* and the tables that are refused.                                        *)
(*                                                                         *)
(* A catalog has its tables, the parent of each partition, the tables that *)
(* have a primary key with its columns, the tables with a deferrable key,  *)
(* those in an inheritance relation and the sequences of their columns.    *)
(* A list is a set of name tuples; two tuples of one table have one key.   *)

Role == "source_db_exporter"

Keys(list) == {ForKey(t) : t \in list}

\* A tuple made by hand, for partitions: the registry need not know them.
getNameTupleForNonRoot(n) == [err |-> "", source |-> n, target |-> NoName]

-----------------------------------------------------------------------------
(* Partitions.                                                             *)

ParentTableOfPartition(cat, t) == IF t \in DOMAIN cat.parent THEN cat.parent[t] ELSE NoName
GetPartitions(cat, t) == {p \in DOMAIN cat.parent \cap cat.tables : cat.parent[p] = t}

\* The root of a partition's tree, with the names that the registry has for it.
rootTable(cat, n) ==
  LET root[t \in cat.tables] ==
        IF ParentTableOfPartition(cat, t) = NoName THEN t
        ELSE root[ParentTableOfPartition(cat, t)]
  IN  root[n]

orByHand(known, root, tuple) ==
  IF known.err = "" THEN known
  ELSE IF root = ForKey(tuple) THEN tuple ELSE getNameTupleForNonRoot(root)

GetRootTableOfPartition(reg, cat, tuple) ==
  orByHand(LookupTableName(reg, Role, rootTable(cat, ForKey(tuple))),
           rootTable(cat, ForKey(tuple)), tuple)

GetAllLeafPartitions(cat, t) ==
  LET leaves[n \in cat.tables] ==
        UNION {IF GetPartitions(cat, p) = {} THEN {p} ELSE leaves[p] : p \in GetPartitions(cat, n)}
  IN  {getNameTupleForNonRoot(n) : n \in leaves[t]}

\* One tuple for each key.
UniqByKey(list) == {CHOOSE t \in list : ForKey(t) = k : k \in Keys(list)}

\* Leaf partitions and their roots stand for a partitioned table; tables in the
\* middle of the tree go.
addLeafPartitionsInTableList(reg, cat, list, addAllLeafPartitions) ==
  UniqByKey(UNION {
    LET leaves == GetAllLeafPartitions(cat, ForKey(t))
        root   == GetRootTableOfPartition(reg, cat, t)
    IN  IF leaves = {} THEN {t, root}
        ELSE IF addAllLeafPartitions THEN leaves \cup {root} ELSE {} : t \in list})

\* partitionsToRootTableMap: the root of each leaf partition of the list.
partitionsToRootTableMap(reg, cat, list) ==
  LET isLeaf(n) == ParentTableOfPartition(cat, n) # NoName /\ GetPartitions(cat, n) = {}
  IN  [n \in {k \in Keys(list) : isLeaf(k)} |->
         ForKey(GetRootTableOfPartition(reg, cat, getNameTupleForNonRoot(n)))]

-----------------------------------------------------------------------------
(* The flags.                                                              *)

\* extractTableListFromString: every pattern must match something.
extractTableListFromString(reg, full, patterns) ==
  LET matching(p) == {t \in full : \/ MatchesPattern(t.source, reg.sourceDefault, p)
                                   \/ /\ t.target # NoName
                                      /\ MatchesPattern(t.target, reg.ybDefault, p)}
  IN  [known |-> \A p \in patterns : matching(p) # {},
       list  |-> UNION {matching(p) : p \in patterns}]

\* The include and the exclude list that the flags make of the full list.
applyTableListFlagsOnFullListAndAddLeafPartitions(reg, cat, full, flags) ==
  LET include == extractTableListFromString(reg, full, flags.include)
      exclude == extractTableListFromString(reg, full, flags.exclude)
  IN  [known   |-> include.known /\ exclude.known,
       include |-> IF flags.include = {} THEN addLeafPartitionsInTableList(reg, cat, full, FALSE)
                   ELSE addLeafPartitionsInTableList(reg, cat, include.list, TRUE),
       exclude |-> addLeafPartitionsInTableList(reg, cat, exclude.list, TRUE)]

SetDifferenceNameTuplesWithKey(a, b) == {t \in a : ForKey(t) \notin Keys(b)}

-----------------------------------------------------------------------------
(* The first run, and the later ones.                                      *)

\* Partitions get a tuple made by hand, other tables the registry's.
getNameTupleFromQualifiedObject(reg, cat, n) ==
  IF ParentTableOfPartition(cat, n) # NoName THEN getNameTupleForNonRoot(n)
  ELSE LookupTableName(reg, Role, n)

\* What an export may do with its tables.
Proceed(list, renames) == [verdict |-> "proceed", list |-> list, renames |-> renames]
Refuse(why) == [verdict |-> why, list |-> {}, renames |-> <<>>]

\* A table that the registry lacks ends the command; so does a pattern that
\* matches nothing.
fetchTablesNamesFromSourceAndFilterTableList(reg, cat, flags) ==
  LET full    == {getNameTupleFromQualifiedObject(reg, cat, n) : n \in cat.tables}
      lists   == applyTableListFlagsOnFullListAndAddLeafPartitions(reg, cat, full, flags)
      chosen  == lists.include \ lists.exclude
      list    == addLeafPartitionsInTableList(reg, cat, chosen, FALSE)
  IN  IF \E t \in full : t.err # "" THEN Refuse("lookup failed")
      ELSE IF ~lists.known THEN Refuse("unknown table")
      ELSE Proceed(list, partitionsToRootTableMap(reg, cat, list))

\* retrieveFirstRunListAndPartitionsRootMap: the stored list, by its names.
firstRunTableWithLeafsAndRoots(reg, cat, msr) ==
  {getNameTupleFromQualifiedObject(reg, cat, n) : n \in msr.leafList}

\* Partitions of the roots that the registry does not know are left out.
detectNewLeafPartitions(reg, cat, roots) ==
  Keys(UNION {GetAllLeafPartitions(cat, ForKey(r)) : r \in roots}) \ reg.source[1]

\* applyTableListFlagsOnCurrentAndRemoveRootsFromBothLists
currentRunTableList(lists, roots, newLeaves) ==
  {t \in SetDifferenceNameTuplesWithKey(lists.include, lists.exclude) :
     t \notin roots /\ ForKey(t) \notin newLeaves}

\* guardrailsAroundFirstRunAndCurrentRunTableList, missing tables only.
guardrails_MissingOnly(firstRun, currentRun) ==
  SetDifferenceNameTuplesWithKey(firstRun, currentRun) = {}

guardrails(firstRun, currentRun) ==
  /\ SetDifferenceNameTuplesWithKey(firstRun, currentRun) = {}
  /\ SetDifferenceNameTuplesWithKey(currentRun, firstRun) = {}

\* A later run goes on with the first run's list if its flags select the same.
resumeTableList(reg, cat, msr, flags) ==
  LET firstRun  == firstRunTableWithLeafsAndRoots(reg, cat, msr)
      roots     == {LookupTableName(reg, Role, msr.renames[n]) : n \in DOMAIN msr.renames}
      known     == GetRegisteredTableList(reg, Role)
      lists     == applyTableListFlagsOnFullListAndAddLeafPartitions(reg, cat, known, flags)
      newLeaves == detectNewLeafPartitions(reg, cat, roots)
  IN  IF \E t \in firstRun \cup roots \cup known : t.err # "" THEN Refuse("lookup failed")
      ELSE IF ~lists.known THEN Refuse("unknown table")
      ELSE IF guardrails(firstRun \ roots, currentRunTableList(lists, roots, newLeaves))
      THEN Proceed(firstRun, msr.renames)
      ELSE Refuse("changed table list")

\* getInitialTableList
getInitialTableList(reg, cat, msr, flags, startClean) ==
  IF startClean \/ msr.rootList = {} \/ msr.leafList = {}
  THEN fetchTablesNamesFromSourceAndFilterTableList(reg, cat, flags)
  ELSE resumeTableList(reg, cat, msr, flags)

-----------------------------------------------------------------------------
(* Tables that cannot be exported.                                         *)

buildRootToLeafPartitionsMap(renames) ==
  [r \in {renames[n] : n \in DOMAIN renames} |-> {n \in DOMAIN renames : renames[n] = r}]

\* reportUnsupportedTablesForLiveMigration: without a primary key, except roots
\* whose leaves all have one.
nonPKTables(cat, keys, rootToLeaf) ==
  {n \in keys : /\ n \notin DOMAIN cat.primaryKey
                /\ ~(n \in DOMAIN rootToLeaf /\ rootToLeaf[n] \subseteq DOMAIN cat.primaryKey)}

\* Leaves of a root without a key of its own must agree on theirs.
reportLeafPartitionsWithMismatchedPrimaryKeys(cat, rootToLeaf) ==
  \E r \in DOMAIN rootToLeaf : /\ r \notin DOMAIN cat.primaryKey
                               /\ Cardinality({cat.primaryKey[n] : n \in rootToLeaf[r]}) > 1

\* finalizeTableAndColumnList: what is refused, and, offline, the tables without
\* rows that are left out.
finalizeTableAndColumnList(cat, chosen, live, nonEmpty) ==
  LET keys       == Keys(chosen.list)
      rootToLeaf == buildRootToLeafPartitionsMap(chosen.renames)
      hasRows(n) == IF n \in DOMAIN rootToLeaf THEN rootToLeaf[n] \cap nonEmpty # {}
                    ELSE n \in nonEmpty
  IN  IF chosen.verdict # "proceed" THEN chosen
      ELSE IF live /\ nonPKTables(cat, keys, rootToLeaf) # {} THEN Refuse("no primary key")
      ELSE IF live /\ reportLeafPartitionsWithMismatchedPrimaryKeys(cat, rootToLeaf)
      THEN Refuse("different primary keys")
      ELSE IF live /\ cat.deferrable \cap keys # {} THEN Refuse("deferrable key")
      ELSE IF cat.inheriting \cap keys # {} THEN Refuse("inheritance")
      ELSE IF live THEN chosen
      ELSE [chosen EXCEPT !.list = {t \in @ : hasRows(ForKey(t))}]

-----------------------------------------------------------------------------
(* The sequences of a migration: which of them belong to the columns of    *)
(* the exported tables, the values that are dumped, the highest values     *)
(* that Debezium keeps while it streams, and their restoration on the      *)
(* target.                                                                 *)
(*                                                                         *)
(* catalog.attached gives the sequence of a table's id column: its own, by *)
(* serial or identity, or another one by a DEFAULT nextval().  A value in  *)
(* postdata.sql has the last value and whether it has been used.           *)

Larger(a, b) == IF a > b THEN a ELSE b

ValuesOf(f) == {f[x] : x \in DOMAIN f}

-----------------------------------------------------------------------------
(* Exporting.                                                              *)

\* GetColumnToSequenceMap: both queries, over the tables, their roots and leaves.
GetColumnToSequenceMap(cat, keys) ==
  [t \in keys \cap DOMAIN cat.attached |-> cat.attached[t]]

\* renameTableIfRequired: events and files of a leaf carry the root's name.
renameTableIfRequired(renames, t) == IF t \in DOMAIN renames THEN renames[t] ELSE t

\* Debezium's mapping has the names that the events will have.
getColumnToSequenceMapping(colToSeq, renames) ==
  [t \in {renameTableIfRequired(renames, n) : n \in DOMAIN colToSeq} |->
     colToSeq[CHOOSE n \in DOMAIN colToSeq : renameTableIfRequired(renames, n) = t]]

\* pg_dump writes the state of the sequences of the list when it comes to them.
setval(seqAt, sequences) ==
  [s \in sequences |-> IF seqAt[s] = 0 THEN [value |-> 1, isCalled |-> FALSE]
                       ELSE [value |-> seqAt[s], isCalled |-> TRUE]]

\* getSequenceInitialValues: every value is restored as used.
getSequenceInitialValues(postdata) ==
  [s \in DOMAIN postdata |->
     IF postdata[s].isCalled THEN postdata[s].value ELSE postdata[s].value - 1]

\* initSequenceMax and initColumnSequenceMap: the saved values take the place of
\* the initial ones, and a sequence without any starts at 0.
initSequenceMax(initial, saved, mapping) ==
  [s \in DOMAIN initial \cup DOMAIN saved \cup ValuesOf(mapping) |->
     IF s \in DOMAIN saved THEN saved[s]
     ELSE IF s \in DOMAIN initial THEN initial[s] ELSE 0]

\* The highest value of each column in the stream, by the names of the events;
\* without the renaming the leaves of a partitioned table would not be seen.
processRecord(sequenceMax, mapping, table, id) ==
  IF table \notin DOMAIN mapping THEN sequenceMax
  ELSE [sequenceMax EXCEPT ![mapping[table]] = Larger(@, id)]

-----------------------------------------------------------------------------
(* Restoring.                                                              *)

\* RestoreSequences of the target: setval for all of them, 0 excepted.
RestoreSequences(targetSeqs, values) ==
  [s \in DOMAIN targetSeqs |->
     IF s \in DOMAIN values /\ values[s] # 0 THEN values[s] ELSE targetSeqs[s]]

\* readSequenceLastValueFromPostDataSql: whether the value is used is not read.
readSequenceLastValueFromPostDataSql(postdata) == [s \in DOMAIN postdata |-> postdata[s].value]

\* fetchSequenceToTableListMap: the tables of each sequence, by their keys.
fetchSequenceToTableListMap(colToSeq) ==
  [s \in ValuesOf(colToSeq) |-> {t \in DOMAIN colToSeq : colToSeq[t] = s}]

\* filterSequencesAsPerImportTableList: with table-list flags only the sequences
\* of imported tables are restored.
filterSequencesAsPerImportTableList(colToSeq, importTables, sequences) ==
  LET tablesOf == fetchSequenceToTableListMap(colToSeq)
  IN  {s \in sequences \cap DOMAIN tablesOf : tablesOf[s] \cap importTables # {}}

\* The values by the target's names, or an error if a sequence has none there.
restored(tuples, values) ==
  IF \E s \in DOMAIN tuples : tuples[s].err # "" \/ tuples[s].target = NoName
  THEN [err |-> TRUE, values |-> <<>>]
  ELSE [err |-> FALSE,
        values |-> [n \in {tuples[s].target : s \in DOMAIN tuples} |->
                      values[CHOOSE s \in DOMAIN tuples : tuples[s].target = n]]]

restoreSequencesInOfflineMigration(reg, postdata, colToSeq, importTables, filtered) ==
  LET values == readSequenceLastValueFromPostDataSql(postdata)
      sequences == IF filtered
                   THEN filterSequencesAsPerImportTableList(colToSeq, importTables, DOMAIN values)
                   ELSE DOMAIN values
  IN  restored([s \in sequences |-> LookupTableNameAndIgnoreIfTargetNotFoundBasedOnRole(
                                      reg, "target_db_importer", s)], values)

restoreSequencesInLiveMigration(reg, sequenceLastValue) ==
  restored([s \in DOMAIN sequenceLastValue |-> LookupTableName(reg, "target_db_importer", s)],
           sequenceLastValue)
=============================================================================
