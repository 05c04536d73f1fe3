--------------------------- MODULE Recommendations ---------------------------
(* What an assessment computes from the metadata it has collected: the      *)
(* statistics of the source, the cluster recommended for it, and the        *)
(* indexes that are redundant.                                              *)
EXTENDS Integers, Sequences, FiniteSets, SequencesExt, FiniteSetsExt

-----------------------------------------------------------------------------
(* migassessment/assessmentDB.go: the metadata collected from the nodes of  *)
(* a source, and the statistics of its tables and indexes computed from it. *)
(*                                                                          *)
(* A CSV file is [node, file, at]: a collector on a node read the catalog   *)
(* at a moment, and what the file holds follows from the source.  A source  *)
(* has objects [name, type, parent, size, since, activity, def]; activity   *)
(* gives the reads and writes that a node counts from one moment to the     *)
(* next.  The interval between two measurements is the unit of time.  The   *)
(* file "types" stands for all that is read before the measurements, the    *)
(* file "sizes" for all that is read after them.                            *)

PARTITIONED_TYPES == {"partitioned table", "partitioned index"}
SourceMetadataTypes == {"table", "partitioned table", "index", "partitioned index", "materialized view"}

Holds(source, csv) == {o \in source.objects : o.since <= csv.at}

\* The counters of an object in a measurement.
ReadsIn(o, csv) == o.activity[csv.node].reads * (csv.at - o.since)
WritesIn(o, csv) == o.activity[csv.node].writes * (csv.at - o.since)

\* The rows of a file that the database holds for a node; a second copy of them is refused.
FromNode(rows, node, file) == {csv \in rows : csv.node = node /\ csv.file = file}
InFile(source, rows, o, node, file) == \E csv \in FromNode(rows, node, file) : o \in Holds(source, csv)

BulkInsertFails(source, rows, csvs) ==
    \E csv \in csvs : \E o \in Holds(source, csv) : InFile(source, rows, o, csv.node, csv.file)

\* The nodes with both measurements of an object, whatever its type.
MeasuredOn(source, rows, o) ==
    {csv.node : csv \in {csv \in rows : /\ InFile(source, rows, o, csv.node, "iops-initial")
                                        /\ InFile(source, rows, o, csv.node, "iops-final")}}

Difference(Count(_, _), rows, o, node) ==
    LET initial == CHOOSE csv \in FromNode(rows, node, "iops-initial") : TRUE
        final == CHOOSE csv \in FromNode(rows, node, "iops-final") : TRUE
    IN  Count(o, final) - Count(o, initial)

\* Reads of every node, writes of the primary.
read_write_rates(source, rows, o) ==
    LET nodes == MeasuredOn(source, rows, o)
    IN  [reads |-> MapThenSumSet(LAMBDA n : Difference(ReadsIn, rows, o, n), nodes),
         writes |-> MapThenSumSet(LAMBDA n : Difference(WritesIn, rows, o, n), nodes \cap {"primary"})]

\* An object's size is NULL, and counts as 0, when the file of sizes does not have it.
Stat(source, rows, o) ==
    [name |-> o.name, type |-> o.type, parent |-> o.parent,
     size |-> IF InFile(source, rows, o, "primary", "sizes") THEN o.size ELSE 0,
     reads |-> read_write_rates(source, rows, o).reads,
     writes |-> read_write_rates(source, rows, o).writes]

\* Tables come from the row counts, read after the measurements, indexes from their mapping, read before.
PopulateMigrationAssessmentStats(source, rows) ==
    {Stat(source, rows, o) : o \in {o \in source.objects :
        /\ o.type \notin PARTITIONED_TYPES
        /\ InFile(source, rows, o, "primary", "types")
        /\ o.parent = 0 => InFile(source, rows, o, "primary", "sizes")}}

(* sizing.go, getSourceMetadata: the tables by size, each with its indexes. *)
BySize(a, b) == a.size < b.size \/ (a.size = b.size /\ a.name < b.name)

getSourceMetadata(stats) ==
    LET used == {s \in stats : s.type \in SourceMetadataTypes}
        IndexesOf(t) == SetToSortSeq({s \in used : s.parent = t.name}, BySize)
        tables == SetToSortSeq({s \in used : s.parent = 0}, BySize)
    IN  [k \in DOMAIN tables |->
            [name |-> tables[k].name, size |-> tables[k].size, reads |-> tables[k].reads,
             writes |-> tables[k].writes, indexes |-> IndexesOf(tables[k])]]

-----------------------------------------------------------------------------
(* migassessment/sizing.go: the cluster recommended for a source.  For each *)
(* instance type (a number of cores) of the experiment data two             *)
(* recommendations are computed, one that colocates small tables and one    *)
(* that shards every table; the cheapest of all is picked.                  *)
(*                                                                          *)
(* A table is [name, size, reads, writes, indexes], an index                *)
(* [name, size, reads, writes].  Sizes are in units of 8 MB, so that 512 MB *)
(* is a whole number of them, and the code's floating-point quotients are   *)
(* exact fractions.  Measurements that are NULL have become 0.              *)

(* Exp.cores is the set of instance types.  Exp.colocatedLimits gives the   *)
(* size and objects a colocated tablet bears, Exp.shardedLimits the sharded *)
(* objects a node bears, the two throughputs the selects and inserts per    *)
(* core and second, in tenths.                                              *)
CONSTANT Exp

GB == 125
LOW_PHASE_SIZE_THRESHOLD == 64
HIGH_PHASE_SIZE_THRESHOLD == 10 * GB
FINAL_PHASE_SIZE_THRESHOLD == 100 * GB
HIGH_PHASE_SHARD_COUNT == 24
MAX_TABLETS_PER_TABLE == 256
COLOCATED_MAX_INDEXES_THRESHOLD == 2

Ceil(a, b) == (a + b - 1) \div b
Total(F(_), seq) == FoldLeft(LAMBDA sum, x : sum + F(x), 0, seq)

(* A table with its indexes. *)
ObjectCount(t) == 1 + Len(t.indexes)
TotalSize(t) == t.size + Total(LAMBDA i : i.size, t.indexes)
Reads(t) == t.reads + Total(LAMBDA i : i.reads, t.indexes)
Writes(t) == t.writes + Total(LAMBDA i : i.writes, t.indexes)

\* The cores that the operations of some tables need, at a throughput per core.
NeededCores(tables, throughput) ==
    Ceil(10 * (Total(Reads, tables) * throughput.inserts + Total(Writes, tables) * throughput.selects),
         throughput.selects * throughput.inserts)

(***************************************************************************)
(* Recommendations.  The code goes through a map of them, one per instance *)
(* type, in every step; here each step is applied to one of them.          *)
(***************************************************************************)
createRecommendationStructureColocatedAndShardedCombined(cores) ==
    [colocated |-> <<>>, sharded |-> <<>>, numNodes |-> 0, vCPUs |-> cores,
     coresNeeded |-> 0, failed |-> FALSE]

createRecommendationStructureAllShardedRecommendations(cores, tables) ==
    [createRecommendationStructureColocatedAndShardedCombined(cores) EXCEPT !.sharded = tables]

Colocatable(t) == Len(t.indexes) <= COLOCATED_MAX_INDEXES_THRESHOLD

\* The number of tables before the first at which a bound is exceeded; the loop breaks there.
Before(Over(_), tables) == Min({i \in DOMAIN tables : Over(i)} \cup {Len(tables) + 1}) - 1

\* Does the i-th table not fit on the tablet with the colocatable ones before it?
Exceeds(limits, tables, i) ==
    LET candidates == SelectSeq(SubSeq(tables, 1, i), Colocatable)
    IN  /\ Colocatable(tables[i])
        /\ \/ Total(TotalSize, candidates) > limits.size
           \/ Total(ObjectCount, candidates) > limits.objects

\* The sharded tables are completed without the count of those already set aside.
shardingBasedOnTableSizeAndCount_Slice(rec, tables) ==
    LET n == Before(LAMBDA i : Exceeds(Exp.colocatedLimits[rec.vCPUs], tables, i), tables)
        colocated == SelectSeq(SubSeq(tables, 1, n), Colocatable)
    IN  [rec EXCEPT !.colocated = colocated,
                    !.sharded = SelectSeq(SubSeq(tables, 1, n), LAMBDA t : ~Colocatable(t))
                                    \o SubSeq(tables, Len(colocated) + 1, Len(tables))]

\* Tables come by size; those with many indexes are sharded, the others colocated while they fit.
shardingBasedOnTableSizeAndCount(rec, tables) ==
    LET n == Before(LAMBDA i : Exceeds(Exp.colocatedLimits[rec.vCPUs], tables, i), tables)
    IN  [rec EXCEPT !.colocated = SelectSeq(SubSeq(tables, 1, n), Colocatable),
                    !.sharded = SelectSeq(SubSeq(tables, 1, n), LAMBDA t : ~Colocatable(t))
                                    \o SubSeq(tables, n + 1, Len(tables))]

\* Colocated tables whose operations one node does not bear are sharded after all.
shardingBasedOnOperations(rec) ==
    LET Over(i) == NeededCores(SubSeq(rec.colocated, 1, i), Exp.colocatedThroughput[rec.vCPUs]) > rec.vCPUs
        n == Before(Over, rec.colocated)
    IN  [rec EXCEPT !.colocated = SubSeq(@, 1, n),
                    !.sharded = @ \o SubSeq(rec.colocated, n + 1, Len(rec.colocated))]

checkShardedTableLimit(rec) ==
    IF Total(ObjectCount, rec.sharded) > Exp.shardedLimits[rec.vCPUs]
    THEN [rec EXCEPT !.colocated = <<>>, !.sharded = <<>>, !.failed = TRUE]
    ELSE rec

(***************************************************************************)
(* Nodes.                                                                  *)
(***************************************************************************)
\* One node leads the colocated tablet, and there are never fewer than three.
findNumNodesNeededBasedOnThroughputRequirement(rec) ==
    LET c == rec.vCPUs
        cores == NeededCores(rec.sharded, Exp.shardedThroughput[c])
        leader == IF rec.colocated = <<>> THEN 0 ELSE 1
    IN  [rec EXCEPT !.numNodes = Max({Ceil(cores, c) + leader, 3}),
                    !.coresNeeded = Max({cores + leader * c, 3 * c})]

\* The tablets of an object on n nodes: split at 512 MB, then at 10 GB, then at 100 GB.
getThresholdAndTablets(n, size) ==
    LET final == Ceil(size, FINAL_PHASE_SIZE_THRESHOLD)
    IN  CASE Ceil(size, LOW_PHASE_SIZE_THRESHOLD) <= n -> Ceil(size, LOW_PHASE_SIZE_THRESHOLD)
          [] OTHER ->
        CASE size <= n * HIGH_PHASE_SIZE_THRESHOLD -> n
          [] OTHER ->
        CASE Ceil(size, HIGH_PHASE_SIZE_THRESHOLD) <= HIGH_PHASE_SHARD_COUNT * n ->
                 Ceil(size, HIGH_PHASE_SIZE_THRESHOLD)
          [] OTHER ->
        CASE size <= HIGH_PHASE_SHARD_COUNT * FINAL_PHASE_SIZE_THRESHOLD -> HIGH_PHASE_SHARD_COUNT * n
          [] OTHER ->
        CASE final <= MAX_TABLETS_PER_TABLE * n -> final
          [] OTHER -> MAX_TABLETS_PER_TABLE + final - MAX_TABLETS_PER_TABLE * n

TabletsOf(t, n) ==
    getThresholdAndTablets(n, t.size) + Total(LAMBDA i : getThresholdAndTablets(n, i.size), t.indexes)

\* Each tablet has three replicas and as much again in reserve.
findNumNodesNeededBasedOnTabletsRequired(rec) ==
    LET tablets == Total(LAMBDA t : TabletsOf(t, rec.numNodes), rec.sharded)
        nodes == Ceil(tablets * 3 * 2, Exp.shardedLimits[rec.vCPUs])
    IN  IF rec.failed \/ nodes <= rec.numNodes THEN rec
        ELSE [rec EXCEPT !.numNodes = nodes, !.coresNeeded = nodes * rec.vCPUs]

(***************************************************************************)
(* The choice.                                                             *)
(***************************************************************************)
\* Fewer cores needed, and then larger instances.
Better(r, q) == r.coresNeeded < q.coresNeeded
                    \/ (r.coresNeeded = q.coresNeeded /\ r.vCPUs >= q.vCPUs)

\* The best of those that did not fail; a failed one if there is no other.
pickBestRecommendation(recs) ==
    LET valid == {r \in recs : ~r.failed}
    IN  IF valid = {} THEN CHOOSE r \in recs : \A q \in recs : r.vCPUs >= q.vCPUs
        ELSE CHOOSE r \in valid : \A q \in valid : Better(r, q)

ResultantCores(rec) == rec.vCPUs * rec.numNodes

\* Between the colocated and the all-sharded recommendation.
pickBestRecommendationStrategy(colocated, allSharded) ==
    IF allSharded.failed THEN colocated
    ELSE IF \/ colocated.failed
            \/ ResultantCores(allSharded) < ResultantCores(colocated)
            \/ /\ ResultantCores(allSharded) = ResultantCores(colocated)
               /\ allSharded.vCPUs >= colocated.vCPUs
         THEN allSharded
         ELSE colocated

CombinedRecommendations(tables) ==
    LET sized == {shardingBasedOnTableSizeAndCount(
                      createRecommendationStructureColocatedAndShardedCombined(c), tables) : c \in Exp.cores}
        limited == {checkShardedTableLimit(rec) : rec \in {shardingBasedOnOperations(rec) : rec \in sized}}
        fast == {findNumNodesNeededBasedOnThroughputRequirement(rec) : rec \in limited}
    IN  {findNumNodesNeededBasedOnTabletsRequired(rec) : rec \in fast}

AllShardedRecommendations(tables) ==
    LET limited == {checkShardedTableLimit(createRecommendationStructureAllShardedRecommendations(c, tables)) : c \in Exp.cores}
        fast == {findNumNodesNeededBasedOnThroughputRequirement(rec) : rec \in limited}
    IN  {findNumNodesNeededBasedOnTabletsRequired(rec) : rec \in fast}

SizingAssessment(tables) ==
    CHOOSE best \in
        {pickBestRecommendationStrategy(colocated, allSharded) :
            colocated \in {pickBestRecommendation(CombinedRecommendations(tables))},
            allSharded \in {pickBestRecommendation(AllShardedRecommendations(tables))}} : TRUE

-----------------------------------------------------------------------------
(* The indexes of a table that the assessment calls redundant: the query    *)
(* redundant-indexes.psql, and getResolvedRedundantIndexes, which replaces  *)
(* an existing index that is itself redundant by the one that makes it so.  *)
(* 'export schema' drops every redundant index.                             *)
(*                                                                          *)
(* An index is [name, table, keys, included, unique, nullsNotDistinct,      *)
(* partial, constraint].  A key is a column with its operator class, collation and   *)
(* ordering, [column, options]; included is a sequence of columns without   *)
(* repetition.  Access methods are the same.                                *)

KeyColumns(i) == [k \in DOMAIN i.keys |-> i.keys[k].column]
Included(i) == ToSet(i.included)

\* The columns of an index after its first n keys.
ColumnsAfter(i, n) == Included(i) \cup {i.keys[k].column : k \in {k \in DOMAIN i.keys : k > n}}

\* Two indexes that differ in their names alone: the larger name goes.
Tied(r, e) ==
    /\ KeyColumns(r) = KeyColumns(e)
    /\ Included(r) = Included(e)
    /\ r.unique = e.unique
    /\ r.nullsNotDistinct = e.nullsNotDistinct
    /\ r.name < e.name

\* Index e makes index r redundant.
IsRedundant(r, e) ==
    /\ ~r.constraint
    /\ r.name # e.name /\ r.table = e.table
    /\ ~r.partial /\ ~e.partial
    /\ IsPrefix(r.keys, e.keys)
    /\ Included(r) \subseteq ColumnsAfter(e, Len(r.keys))
    /\ r.unique => /\ e.unique
                   /\ KeyColumns(r) = KeyColumns(e)
                   /\ r.nullsNotDistinct => e.nullsNotDistinct
    /\ ~Tied(r, e)

\* One row per redundant index, with the first of the indexes that make it redundant.
redundant_indexes(indexes) ==
    {[redundant |-> r,
      existing |-> CHOOSE e \in indexes :
                      /\ IsRedundant(r, e)
                      /\ \A f \in indexes : IsRedundant(r, f) => e.name <= f.name] :
        r \in {r \in indexes : \E e \in indexes : IsRedundant(r, e)}}

\* The existing index of a row, or the one that makes that index redundant, and so on.
ExistingIndex(rows, index) ==
    IF \E row \in rows : row.redundant = index
    THEN (CHOOSE row \in rows : row.redundant = index).existing
    ELSE index

getRootRedundantIndexInfo(rows, row) ==
    LET follow[n \in 0..Cardinality(rows)] ==
            IF n = 0 THEN row.existing ELSE ExistingIndex(rows, follow[n - 1])
    IN  follow[Cardinality(rows)]

getResolvedRedundantIndexes(rows) ==
    {[row EXCEPT !.existing = getRootRedundantIndexInfo(rows, row)] : row \in rows}

-----------------------------------------------------------------------------
(* What an index is for, and when another one does it as well. *)

\* Scans by a leading part of the keys, in the order of the keys, reading only the index.
ServesScans(e, r) ==
    /\ e.table = r.table /\ ~e.partial
    /\ Len(r.keys) <= Len(e.keys)
    /\ \A k \in DOMAIN r.keys : e.keys[k] = r.keys[k]
    /\ \A c \in Included(r) : c \in Included(e) \/ \E k \in DOMAIN e.keys : e.keys[k].column = c

\* No two rows agree on the keys, nor on keys that are NULL when NULLs are not distinct.
Enforces(e, r) ==
    r.unique => /\ e.unique /\ e.table = r.table /\ ~e.partial
                /\ ToSet(KeyColumns(e)) \subseteq ToSet(KeyColumns(r))
                /\ r.nullsNotDistinct => e.nullsNotDistinct
=============================================================================
