---------------------------- MODULE StreamImport -----------------------------
(* The streaming phase of "import data": the main goroutine reads change   *)
(* events from the queue's segments, waits for conflicting events that are *)
(* still in flight, and sends each event to the event channel its          *)
(* partition key hashes to; one processEvents goroutine per channel        *)
(* batches events and executes each batch as one transaction that also     *)
(* moves the channel's last_applied_vsn.  The process may crash at any     *)
(* step and is started again; a commit may return an error and still land. *)
EXTENDS CdcEvents

CONSTANTS
  NUM_EVENT_CHANNELS,
  EVENT_CHANNEL_SIZE,
  MAX_EVENTS_PER_BATCH,
  EVENT_BATCH_MAX_RETRY_COUNT,
  EventsPerSegment,            \* events the exporter puts in a queue segment
  Hash,                        \* fnv64a(partition key) % NUM_EVENT_CHANNELS
  FLUSH_BATCH_EVENT,
  END_OF_QUEUE_SEGMENT_EVENT,
  Logs,                        \* the event logs the exporter may have written
  InitRows,                    \* the target table after the snapshot import
  LateLanding,                 \* may an in-doubt commit land after last_applied_vsn is read again?
  MaxErrors,                   \* bound: failed executions of a batch
  MaxCrashes                   \* bound: crashes of the importer

Channels == 0 .. NUM_EVENT_CHANNELS - 1
PartitionKeys == {<<>>} \cup {<<v>> : v \in Values}

ASSUME ImportAssumption ==
  /\ NUM_EVENT_CHANNELS \in Nat \ {0}
  /\ EVENT_CHANNEL_SIZE \in Nat \ {0}
  /\ MAX_EVENTS_PER_BATCH \in Nat \ {0}
  /\ EVENT_BATCH_MAX_RETRY_COUNT \in Nat \ {0}
  /\ EventsPerSegment \in Nat \ {0}
  /\ Hash \in [PartitionKeys -> Channels]
  /\ FLUSH_BATCH_EVENT # END_OF_QUEUE_SEGMENT_EVENT
  /\ FLUSH_BATCH_EVENT \notin Nat
  /\ END_OF_QUEUE_SEGMENT_EVENT \notin Nat
  /\ \A l \in Logs : l \in Seq(Event)
  (* the log is taken up to this importer's cutover event, where it stops reading *)
  /\ \A l \in Logs : \A x \in 1 .. Len(l) : l[x].Op = "cutover.own" => x = Len(l)
  /\ InitRows \in Rows
  /\ LateLanding \in BOOLEAN
  /\ MaxErrors \in Nat /\ MaxCrashes \in Nat

\* The source's table after each prefix of a log: SourceThrough(l)[n] after n events.
SourceThrough(l) ==
  LET after[n \in 0 .. Len(l)] ==
        IF n = 0 THEN InitRows
        ELSE IF IsCutoverEvent(l[n]) THEN after[n - 1] ELSE ApplyEvent(after[n - 1], l[n])
  IN  after

\* Event e changes a row of table r and carries its image before the change.  An
\* update keeps the primary key, and the custom partition key is immutable.
ChangeOf(r, e) ==
  /\ r[Key(e)] = e.BeforeFields
  /\ e.Op = "u" => /\ e.AfterFields[PkColumn] = Key(e)
                   /\ Strategy = "custom" => e.AfterFields[CustomColumn] = e.BeforeFields[CustomColumn]

\* The snapshot and every log come from a source table with the unique indexes
\* of the target.
ASSUME SourceAssumption ==
  /\ \A k \in KeyValues : InitRows[k] # NoRow => InitRows[k][PkColumn] = k
  /\ UniqueIndexesHold(InitRows)
  /\ \A l \in Logs : \A n \in 1 .. Len(l) :
       ~IsCutoverEvent(l[n]) => /\ ChangeOf(SourceThrough(l)[n - 1], l[n])
                               /\ UniqueIndexesHold(SourceThrough(l)[n])

VARIABLES
  (* the queue, written by the exporter; a vsn is a position in it *)
  log,
  (* target database *)
  rows,            \* the table
  lastVsn,         \* per channel: last_applied_vsn of ybvoyager_import_data_event_channels_metainfo
  numEvents,       \* per channel: num_inserts + num_updates + num_deletes
  pending,         \* per channel: the batch of a transaction whose commit is in doubt, or <<>>
  (* meta database *)
  processed,       \* segments imported_by this importer
  cutoverDetected, \* MSR.CutoverDetectedBy<role>Importer
  (* main goroutine *)
  pc, seg, cur, idx,
  meta,            \* eventChannelsMetaInfo, read once when streaming starts
  cache,           \* vsns in the conflict detection cache (vsnToBuckets)
  (* event channels and their processEvents goroutines *)
  chan, wpc, batch, endOfProcessing, attempt,
  (* history and bounds *)
  applied,         \* every vsn whose effects were ever committed
  errors, crashes

dbVars   == <<rows, lastVsn, numEvents, pending, applied>>
metaVars == <<processed, cutoverDetected>>
mainVars == <<pc, seg, cur, idx, meta>>
workVars == <<wpc, batch, endOfProcessing, attempt>>
bounds   == <<errors, crashes>>
vars == <<log, dbVars, metaVars, mainVars, cache, chan, workVars, bounds>>

Vsns == 1 .. Len(log)
DataVsns == {v \in Vsns : ~IsCutoverEvent(log[v])}

hashEvent(e) == Hash[GetEventPartitionKey(e)]
ChannelOf(v) == hashEvent(log[v])

LastVsn(s) == s * EventsPerSegment
FirstVsn(s) == LastVsn(s - 1) + 1
SegmentVsns(s) == {v \in Vsns : FirstVsn(s) <= v /\ v <= LastVsn(s)}

\* Mutant: names the next vsn, not the last.
GetLastVsn_PlusOne(b) == b[Len(b)] + 1

GetLastVsn(b) == b[Len(b)]
VsnsIn(s) == {s[i] : i \in DOMAIN s} \cap Nat

\* The table after each prefix of a batch: RowsThrough(r, b)[n] after n events.
RowsThrough(r, b) ==
  LET after[n \in 0 .. Len(b)] ==
        IF n = 0 THEN r ELSE ApplyEvent(after[n - 1], log[b[n]])
  IN  after

-----------------------------------------------------------------------------
Init ==
  /\ log \in Logs
  /\ rows = InitRows
  /\ lastVsn = [c \in Channels |-> -1]
  /\ numEvents = [c \in Channels |-> 0]
  /\ pending = [c \in Channels |-> <<>>]
  /\ processed = {}
  /\ cutoverDetected = FALSE
  /\ pc = "down" /\ seg = 0 /\ cur = 0 /\ idx = 0
  /\ meta = [c \in Channels |-> -1]
  /\ cache = {}
  /\ chan = [c \in Channels |-> <<>>]
  /\ wpc = [c \in Channels |-> "off"]
  /\ batch = [c \in Channels |-> <<>>]
  /\ endOfProcessing = [c \in Channels |-> FALSE]
  /\ attempt = [c \in Channels |-> 0]
  /\ applied = {}
  /\ errors = 0 /\ crashes = 0

-----------------------------------------------------------------------------
(* Main goroutine.                                                         *)

GetEventChannelsMetaInfo == lastVsn

\* cutoverInitiatedAndCutoverEventProcessed, InitLiveMigrationState and
\* GetEventChannelsMetaInfo: the metadata rows are read once.
StartStreaming ==
  /\ pc = "down"
  /\ LateLanding \/ \A c \in Channels : pending[c] = <<>>
  /\ pc' = IF cutoverDetected THEN "done" ELSE "next"
  /\ meta' = GetEventChannelsMetaInfo
  /\ cache' = {}
  /\ UNCHANGED <<log, dbVars, metaVars, seg, cur, idx, chan, workVars, bounds>>

FirstUnprocessed(s) == s \notin processed /\ 1 .. s - 1 \subseteq processed

\* Mutant: SegmentNumToStream is not advanced.
SegmentNumToStream_Stuck(s) == IF seg # 0 THEN s = seg ELSE FirstUnprocessed(s)

\* The first call resumes from the first segment that is not processed.
SegmentNumToStream(s) == IF seg # 0 THEN s = seg + 1 ELSE FirstUnprocessed(s)

\* GetNextSegment, then Open and one processEvents goroutine per channel.
NextSegment ==
  /\ pc = "next"
  /\ \E s \in Vsns : /\ SegmentNumToStream(s)
                   /\ FirstVsn(s) <= Len(log)
                   /\ seg' = s
                   /\ cur' = FirstVsn(s)
  /\ pc' = "read"
  /\ wpc' = [c \in Channels |-> "batching"]
  /\ UNCHANGED <<log, dbVars, metaVars, idx, meta, cache, chan, batch, endOfProcessing, attempt, bounds>>

\* NextEvent returned an event; the branch handleEvent takes first.
ReadEvent ==
  /\ pc = "read"
  /\ cur \in SegmentVsns(seg)
  /\ LET e == log[cur] IN
     \/ /\ e.Op = "cutover.own"
        /\ pc' = "end" /\ idx' = 0 /\ cur' = cur
     \/ /\ e.Op = "cutover.other"
        /\ pc' = "read" /\ cur' = cur + 1 /\ idx' = idx
     \/ /\ e.Op \in DataOps
        /\ pc' = IF ~shouldHandleConflicts THEN "send"
                 ELSE IF e.Op = "d" THEN "put" ELSE "check"
        /\ UNCHANGED <<cur, idx>>
  /\ UNCHANGED <<log, dbVars, metaVars, seg, meta, cache, chan, workVars, bounds>>

\* NextEvent met the EOF marker of the segment.
ReadEndOfSegment ==
  /\ pc = "read"
  /\ cur > LastVsn(seg)
  /\ pc' = "end" /\ idx' = 0
  /\ UNCHANGED <<log, dbVars, metaVars, seg, cur, meta, cache, chan, workVars, bounds>>

\* A send on the buffered Go channel does not block.
HasRoom(c) == Len(chan[c]) < EVENT_CHANNEL_SIZE

ConflictingEvents(v) == {f \in cache : Conflicts(log[f], log[v])}

\* WaitUntilNoConflict, one turn of its loop under the cache's lock: go on when
\* nothing conflicts, else offer every channel a flush marker (dropped when the
\* channel is full) and wait for a broadcast.
WaitUntilNoConflict ==
  /\ pc = "check"
  /\ \/ /\ ConflictingEvents(cur) = {}
        /\ pc' = IF log[cur].Op = "u" THEN "put" ELSE "send"
        /\ UNCHANGED chan
     \/ /\ ConflictingEvents(cur) # {}
        /\ pc' = "waiting"
        /\ chan' = [c \in Channels |-> IF HasRoom(c) THEN Append(chan[c], FLUSH_BATCH_EVENT)
                                       ELSE chan[c]]
  /\ UNCHANGED <<log, dbVars, metaVars, seg, cur, idx, meta, cache, workVars, bounds>>

\* Mutant: only deletes are cached.
Cached_DeletesOnly(v) == log[v].Op = "d"

\* An event that no bucket takes leaves no trace in the cache.
Cached(v) == EventBuckets(log[v]) # {}

Put ==
  /\ pc = "put"
  /\ cache' = IF Cached(cur) THEN cache \cup {cur} ELSE cache
  /\ pc' = "send"
  /\ UNCHANGED <<log, dbVars, metaVars, seg, cur, idx, meta, chan, workVars, bounds>>

\* evChans[h] <- event: blocks while the channel is full.
SendEvent ==
  LET h == ChannelOf(cur) IN
  /\ pc = "send"
  /\ HasRoom(h)
  /\ chan' = [chan EXCEPT ![h] = Append(@, cur)]
  /\ cur' = cur + 1
  /\ pc' = "read"
  /\ UNCHANGED <<log, dbVars, metaVars, seg, idx, meta, cache, workVars, bounds>>

SendEndOfSegment ==
  /\ pc = "end"
  /\ HasRoom(idx)
  /\ chan' = [chan EXCEPT ![idx] = Append(@, END_OF_QUEUE_SEGMENT_EVENT)]
  /\ IF idx + 1 \in Channels THEN pc' = "end" /\ idx' = idx + 1
                             ELSE pc' = "drain" /\ idx' = 0
  /\ UNCHANGED <<log, dbVars, metaVars, seg, cur, meta, cache, workVars, bounds>>

\* Mutant: one channel is done instead of all.
ProcessingDone_Any == \E c \in Channels : wpc[c] = "done"

\* <-processingDoneChans[i] for every channel.
ProcessingDone == \A c \in Channels : wpc[c] = "done"

Drained ==
  /\ pc = "drain"
  /\ ProcessingDone
  /\ pc' = "mark"
  /\ UNCHANGED <<log, dbVars, metaVars, seg, cur, idx, meta, cache, chan, workVars, bounds>>

\* MarkEventQueueSegmentAsProcessed[AndUpdateMSRInTxn].
MarkSegmentProcessed ==
  LET cutover == cur \in SegmentVsns(seg) /\ log[cur].Op = "cutover.own" IN
  /\ pc = "mark"
  /\ processed' = processed \cup {seg}
  /\ cutoverDetected' = (cutoverDetected \/ cutover)
  /\ pc' = IF cutover THEN "done" ELSE "next"
  /\ wpc' = [c \in Channels |-> "off"]
  /\ endOfProcessing' = [c \in Channels |-> FALSE]
  /\ UNCHANGED <<log, dbVars, seg, cur, idx, meta, cache, chan, batch, attempt, bounds>>

-----------------------------------------------------------------------------
(* processEvents, one goroutine per channel c.                             *)

\* Mutant: the woken goroutine does not check again.
RemoveEvents_NoRecheck(vsns) ==
  /\ cache' = cache \ vsns
  /\ pc' = IF cache \cap vsns # {} /\ pc = "waiting" THEN "send" ELSE pc

\* RemoveEvents: drop the vsns from the cache and wake the waiting goroutine
\* when something was dropped.
RemoveEvents(vsns) ==
  /\ cache' = cache \ vsns
  /\ pc' = IF cache \cap vsns # {} /\ pc = "waiting" THEN "check" ELSE pc

\* Where the Batching loop ends up: execute, or start over, or return.
AfterBatching(c, eop) ==
  IF batch[c] # <<>> THEN "exec" ELSE IF eop THEN "done" ELSE "batching"

ReceiveEvent(c) ==
  /\ wpc[c] = "batching" /\ chan[c] # <<>>
  /\ Head(chan[c]) \in Nat
  /\ Head(chan[c]) > meta[c]
  /\ chan' = [chan EXCEPT ![c] = Tail(@)]
  /\ batch' = [batch EXCEPT ![c] = Append(@, Head(chan[c]))]
  /\ wpc' = [wpc EXCEPT ![c] = IF Len(batch[c]) + 1 >= MAX_EVENTS_PER_BATCH
                               THEN "exec" ELSE "batching"]
  /\ UNCHANGED <<log, dbVars, metaVars, mainVars, cache, endOfProcessing, attempt, bounds>>

\* event.Vsn <= lastAppliedVsn: applied before a restart.
IgnoreEvent(c) ==
  /\ wpc[c] = "batching" /\ chan[c] # <<>>
  /\ Head(chan[c]) \in Nat
  /\ Head(chan[c]) <= meta[c]
  /\ chan' = [chan EXCEPT ![c] = Tail(@)]
  /\ RemoveEvents({Head(chan[c])})
  /\ UNCHANGED <<log, dbVars, metaVars, seg, cur, idx, meta, workVars, bounds>>

ReceiveFlush(c) ==
  /\ wpc[c] = "batching" /\ chan[c] # <<>>
  /\ Head(chan[c]) = FLUSH_BATCH_EVENT
  /\ chan' = [chan EXCEPT ![c] = Tail(@)]
  /\ wpc' = [wpc EXCEPT ![c] = AfterBatching(c, FALSE)]
  /\ UNCHANGED <<log, dbVars, metaVars, mainVars, cache, batch, endOfProcessing, attempt, bounds>>

ReceiveEndOfSegment(c) ==
  /\ wpc[c] = "batching" /\ chan[c] # <<>>
  /\ Head(chan[c]) = END_OF_QUEUE_SEGMENT_EVENT
  /\ chan' = [chan EXCEPT ![c] = Tail(@)]
  /\ endOfProcessing' = [endOfProcessing EXCEPT ![c] = TRUE]
  /\ wpc' = [wpc EXCEPT ![c] = AfterBatching(c, TRUE)]
  /\ UNCHANGED <<log, dbVars, metaVars, mainVars, cache, batch, attempt, bounds>>

\* MAX_INTERVAL_BETWEEN_BATCHES; with an empty batch the timer just restarts.
Timeout(c) ==
  /\ wpc[c] = "batching" /\ batch[c] # <<>>
  /\ wpc' = [wpc EXCEPT ![c] = "exec"]
  /\ UNCHANGED <<log, dbVars, metaVars, mainVars, cache, chan, batch, endOfProcessing, attempt, bounds>>

\* What the transaction of batch b on channel c leaves in the target database.
Commit(c, b) ==
  /\ rows' = RowsThrough(rows, b)[Len(b)]
  /\ lastVsn' = [lastVsn EXCEPT ![c] = GetLastVsn(b)]
  /\ numEvents' = [numEvents EXCEPT ![c] = @ + Len(b)]
  /\ applied' = applied \cup VsnsIn(b)

\* ExecuteBatch returned no error.  A transaction in doubt still holds the
\* lock on the channel's metadata row, which every batch of c updates.
ExecuteBatch(c) ==
  /\ wpc[c] = "exec" /\ pending[c] = <<>>
  /\ Commit(c, batch[c])
  /\ wpc' = [wpc EXCEPT ![c] = "applied"]
  /\ UNCHANGED <<log, pending, metaVars, mainVars, cache, chan, batch, endOfProcessing, attempt, bounds>>

\* ExecuteBatch returned a retriable error: rolled back, or commit in doubt.
ExecuteBatchError(c) ==
  /\ wpc[c] = "exec" /\ pending[c] = <<>>
  /\ errors < MaxErrors
  /\ errors' = errors + 1
  /\ \/ UNCHANGED pending
     \/ pending' = [pending EXCEPT ![c] = batch[c]]
  /\ wpc' = [wpc EXCEPT ![c] = "retry"]
  /\ UNCHANGED <<log, rows, lastVsn, numEvents, applied, metaVars, mainVars, cache, chan,
                 batch, endOfProcessing, attempt, crashes>>

\* The database decides a transaction in doubt.
CommitLands(c) ==
  /\ pending[c] # <<>>
  /\ Commit(c, pending[c])
  /\ pending' = [pending EXCEPT ![c] = <<>>]
  /\ UNCHANGED <<log, metaVars, mainVars, cache, chan, workVars, bounds>>

CommitAborts(c) ==
  /\ pending[c] # <<>>
  /\ pending' = [pending EXCEPT ![c] = <<>>]
  /\ UNCHANGED <<log, rows, lastVsn, numEvents, applied, metaVars, mainVars, cache, chan,
                 workVars, bounds>>

\* Mutant: retries without asking.
AlreadyImported_Never(c) == batch[c] = <<>>

\* IsEventBatchAlreadyImported.
AlreadyImported(c) == lastVsn[c] >= GetLastVsn(batch[c])

\* The sleep is over: success after all, or another attempt.
CheckAlreadyImported(c) ==
  /\ wpc[c] = "retry"
  /\ LateLanding \/ pending[c] = <<>>
  /\ \/ /\ AlreadyImported(c)
        /\ wpc' = [wpc EXCEPT ![c] = "applied"]
        /\ UNCHANGED attempt
     \/ /\ ~AlreadyImported(c)
        /\ attempt[c] + 1 < EVENT_BATCH_MAX_RETRY_COUNT
        /\ attempt' = [attempt EXCEPT ![c] = @ + 1]
        /\ wpc' = [wpc EXCEPT ![c] = "exec"]
  /\ UNCHANGED <<log, dbVars, metaVars, mainVars, cache, chan, batch, endOfProcessing, bounds>>

\* conflictDetectionCache.RemoveEvents(eventBatch.Events...), next batch.
FinishBatch(c) ==
  /\ wpc[c] = "applied"
  /\ RemoveEvents(VsnsIn(batch[c]))
  /\ batch' = [batch EXCEPT ![c] = <<>>]
  /\ attempt' = [attempt EXCEPT ![c] = 0]
  /\ wpc' = [wpc EXCEPT ![c] = IF endOfProcessing[c] THEN "done" ELSE "batching"]
  /\ UNCHANGED <<log, dbVars, metaVars, seg, cur, idx, meta, chan, endOfProcessing, bounds>>

-----------------------------------------------------------------------------
(* The process.                                                            *)

ProcessGone ==
  /\ pc' = "down" /\ seg' = 0 /\ cur' = 0 /\ idx' = 0
  /\ meta' = [c \in Channels |-> -1]
  /\ cache' = {}
  /\ chan' = [c \in Channels |-> <<>>]
  /\ wpc' = [c \in Channels |-> "off"]
  /\ batch' = [c \in Channels |-> <<>>]
  /\ endOfProcessing' = [c \in Channels |-> FALSE]
  /\ attempt' = [c \in Channels |-> 0]

\* ErrExit after the last attempt.
RetriesExhausted(c) ==
  /\ wpc[c] = "retry"
  /\ LateLanding \/ pending[c] = <<>>
  /\ ~AlreadyImported(c)
  /\ attempt[c] + 1 >= EVENT_BATCH_MAX_RETRY_COUNT
  /\ ProcessGone
  /\ UNCHANGED <<log, dbVars, metaVars, bounds>>

Crash ==
  /\ pc \notin {"down", "done"}
  /\ crashes < MaxCrashes
  /\ crashes' = crashes + 1
  /\ ProcessGone
  /\ UNCHANGED <<log, dbVars, metaVars, errors>>

\* streamChanges has returned.
Finished ==
  /\ pc = "done"
  /\ UNCHANGED vars

Main == StartStreaming \/ NextSegment \/ ReadEvent \/ ReadEndOfSegment \/ WaitUntilNoConflict
          \/ Put \/ SendEvent \/ SendEndOfSegment \/ Drained \/ MarkSegmentProcessed

Batching(c) == ReceiveEvent(c) \/ IgnoreEvent(c) \/ ReceiveFlush(c) \/ ReceiveEndOfSegment(c)
                 \/ Timeout(c)

Executing(c) == ExecuteBatch(c) \/ CheckAlreadyImported(c) \/ RetriesExhausted(c) \/ FinishBatch(c)

Database(c) == CommitLands(c) \/ CommitAborts(c)

Next ==
  \/ Main
  \/ \E c \in Channels : Batching(c) \/ Executing(c) \/ Database(c) \/ ExecuteBatchError(c)
  \/ Crash
  \/ Finished

\* The goroutines run, the database settles what is in doubt, and the command
\* is started again after it stopped.  Errors and crashes are never forced.
Fairness ==
  /\ WF_vars(Main)
  /\ \A c \in Channels : WF_vars(Batching(c)) /\ WF_vars(Executing(c)) /\ WF_vars(Database(c))

Spec == Init /\ [][Next]_vars
FairSpec == Spec /\ Fairness

-----------------------------------------------------------------------------
(* Properties.                                                             *)

Items == Nat \cup {FLUSH_BATCH_EVENT, END_OF_QUEUE_SEGMENT_EVENT}

TypeDatabases ==
  /\ log \in Seq(Event)
  /\ lastVsn \in [Channels -> Int]
  /\ numEvents \in [Channels -> Nat]
  /\ pending \in [Channels -> Seq(Nat)]
  /\ applied \in SUBSET Nat
  /\ processed \in SUBSET Nat
  /\ cutoverDetected \in BOOLEAN

TypeMain ==
  /\ pc \in {"down", "next", "read", "check", "waiting", "put", "send", "end", "drain",
             "mark", "done"}
  /\ seg \in Nat /\ cur \in Nat /\ idx \in Channels
  /\ meta \in [Channels -> Int]
  /\ cache \in SUBSET Nat

TypeChannels ==
  /\ chan \in [Channels -> Seq(Items)]
  /\ \A c \in Channels : Len(chan[c]) <= EVENT_CHANNEL_SIZE

TypeWorkers ==
  /\ wpc \in [Channels -> {"off", "batching", "exec", "retry", "applied", "done"}]
  /\ endOfProcessing \in [Channels -> BOOLEAN]
  /\ attempt \in [Channels -> Nat]
  /\ batch \in [Channels -> Seq(Nat)]
  /\ \A c \in Channels : Len(batch[c]) <= MAX_EVENTS_PER_BATCH

\* Types of the importer's state: processEvents batches hold vsns, channels
\* hold vsns and the two marker events, and neither holds more than its limit.
TypeOK ==
  /\ TypeDatabases /\ TypeMain /\ TypeChannels /\ TypeWorkers
  /\ errors \in Nat /\ crashes \in Nat

\* No batch that ExecuteBatch is about to run can hit a unique-index violation
\* on the target, at any of its statements, whatever the other channels have
\* committed: this is what the conflict detection cache is for.
NoUniqueViolation ==
  \A c \in Channels :
    wpc[c] = "exec" /\ pending[c] = <<>> =>
      \A n \in 0 .. Len(batch[c]) : UniqueIndexesHold(RowsThrough(rows, batch[c])[n])

\* The promise: see OrderedApply.
Ordered == INSTANCE OrderedApply

\* Whenever an event's effects are in the target, so are those of every earlier
\* event of its partition and of every earlier event the cache must order
\* before it (WaitUntilNoConflict), across batches, errors and restarts.
ConflictsInOrder ==
  \A e \in applied : \A f \in DataVsns : Ordered!MustPrecede(f, e) => f \in applied

\* Every step of the importer is a step of OrderedApply or changes nothing
\* OrderedApply can see: goroutines, batches, retries and restarts together
\* still apply conflicting events in commit order, and never unapply one.
ImplementsOrderedApply == Ordered!Spec

\* last_applied_vsn of a channel never covers an event of the channel that has
\* not been applied: processEvents would ignore that event after a restart.
NoEventSkipped ==
  \A v \in DataVsns : v <= lastVsn[ChannelOf(v)] => v \in applied

\* CutoverDetectedBy<role>Importer is set only when every data event queued
\* before the cutover event is applied: the cutover starts from a target that
\* lacks nothing.
CutoverAfterDrain ==
  cutoverDetected =>
    \E x \in Vsns : Ordered!OwnCutover(x) /\ (\A v \in DataVsns : v < x => v \in applied)

\* When streaming ends the target table is the source table: no row lost to
\* ON CONFLICT DO NOTHING, no update of a row that was not there yet.
Converged == pc = "done" => rows = SourceThrough(log)[Len(log)]

\* The counters in the channel metadata count each applied event once.
StatsExact ==
  \A c \in Channels :
    numEvents[c] = Cardinality({v \in applied : ChannelOf(v) = c})

\* An event in flight that an incoming event may have to wait for is in the
\* cache until its batch is known to be applied.
CacheCoversInFlight ==
  \A c \in Channels : \A v \in VsnsIn(chan[c]) \cup VsnsIn(batch[c]) :
    /\ shouldHandleConflicts
    /\ log[v].Op \in {"u", "d"}
    /\ EventBuckets(log[v]) # {}
    => v \in cache

\* Streaming reaches the cutover event: no event waits for ever in
\* WaitUntilNoConflict, in a full channel or in a batch that is never flushed.
StreamingFinishes == <>(pc = "done")

-----------------------------------------------------------------------------
(* The inductive invariant of StreamImport: where every event that the     *)
(* main goroutine has dispatched is, and why the events it must follow are *)
(* already in the target.                                                  *)

\* Events a channel holds: received into its batch, or waiting in the channel.
InFlight(c) == VsnsIn(batch[c]) \cup VsnsIn(chan[c])

\* The process is between two segments, or not running.
Idle == pc \in {"down", "next", "done"}

\* The main goroutine has sent the end marker to channel c.
Ended(c) == (pc = "end" /\ idx > c) \/ pc \in {"drain", "mark"}

Increasing(s) ==
  \A i, j \in DOMAIN s : i < j /\ s[i] \in Nat /\ s[j] \in Nat => s[i] < s[j]

NoEnd(s) == \A i \in DOMAIN s : s[i] # END_OF_QUEUE_SEGMENT_EVENT
EndIsLast(s) == \A i \in DOMAIN s : s[i] = END_OF_QUEUE_SEGMENT_EVENT => i = Len(s)

\* f may block e in WaitUntilNoConflict.
Blocks(f, e) ==
  /\ shouldHandleConflicts
  /\ log[f].Op \in {"u", "d"} /\ log[e].Op \in {"c", "u"}
  /\ Conflicts(log[f], log[e])

\* Committing b on channel c skips no event and overtakes none.
Committable(c, b) ==
  /\ \A e \in VsnsIn(b) : e \in DataVsns /\ ChannelOf(e) = c
  /\ \A e \in VsnsIn(b) : \A f \in DataVsns :
       Ordered!MustPrecede(f, e) => f \in applied \cup VsnsIn(b)
  /\ b # <<>> => \A v \in DataVsns :
       ChannelOf(v) = c /\ v <= GetLastVsn(b) => v \in applied \cup VsnsIn(b)

InvLog == log \in Logs /\ applied \subseteq DataVsns

\* Channels and batches hold their own events, in commit order.
InvQueues ==
  \A c \in Channels :
    /\ Increasing(batch[c]) /\ Increasing(chan[c])
    /\ \A x \in VsnsIn(batch[c]), y \in VsnsIn(chan[c]) : x < y
    /\ \A v \in InFlight(c) : v \in DataVsns /\ ChannelOf(v) = c /\ v < cur

\* Every event read so far is applied or in flight.
InvDispatched ==
  ~Idle => \A v \in DataVsns : v < cur => v \in applied \cup InFlight(ChannelOf(v))

InvIdle ==
  Idle => \A c \in Channels : /\ chan[c] = <<>> /\ batch[c] = <<>>
                              /\ wpc[c] = "off" /\ endOfProcessing[c] = FALSE

\* What the event at hand has gone through.
InvCurrent ==
  /\ pc \in {"check", "waiting", "put", "send"} => cur \in DataVsns
  /\ pc \in {"check", "waiting"} => log[cur].Op \in {"c", "u"} /\ shouldHandleConflicts
  /\ pc = "put" => log[cur].Op \in {"u", "d"} /\ shouldHandleConflicts
  /\ pc \in {"put", "send"} => \A f \in DataVsns : f < cur /\ Blocks(f, cur) => f \in applied
  /\ pc = "send" /\ shouldHandleConflicts /\ log[cur].Op \in {"u", "d"} /\ Cached(cur)
       => cur \in cache

\* What an event in flight may have waited for is applied.
InvSettled ==
  \A c \in Channels : \A e \in InFlight(c) : \A f \in DataVsns :
    f < e /\ Blocks(f, e) => f \in applied

InvWorkers ==
  \A c \in Channels :
    /\ pc = "mark" => wpc[c] = "done"
    /\ wpc[c] = "batching" => Len(batch[c]) < MAX_EVENTS_PER_BATCH
    /\ wpc[c] \in {"exec", "retry", "applied"} => batch[c] # <<>>
    /\ wpc[c] = "applied" => VsnsIn(batch[c]) \subseteq applied
    /\ wpc[c] \in {"off", "done"} => batch[c] = <<>>
    /\ wpc[c] = "done" => endOfProcessing[c]

\* The end marker is the last thing a channel gets.
InvEnd ==
  \A c \in Channels :
    /\ EndIsLast(chan[c])
    /\ ~Ended(c) => NoEnd(chan[c])
    /\ endOfProcessing[c] => Ended(c) /\ chan[c] = <<>>

\* Positions in the queue.
InvSegments ==
  /\ \A s \in processed : s >= 1 /\ (\A v \in DataVsns : v <= LastVsn(s) => v \in applied)
  /\ ~Idle => seg >= 1 /\ cur >= FirstVsn(seg)
  /\ pc = "down" => seg = 0
  /\ pc = "next" /\ seg # 0 => seg \in processed
  /\ pc \in {"end", "drain", "mark"} =>
       \/ cur \in SegmentVsns(seg) /\ log[cur].Op = "cutover.own"
       \/ cur > LastVsn(seg)

\* Nothing at or below a last_applied_vsn is missing, nor below a value read
\* from it, nor will it be when a commit in doubt lands.
InvVsn ==
  /\ NoEventSkipped
  /\ \A v \in DataVsns : v <= meta[ChannelOf(v)] => v \in applied
  /\ \A c \in Channels : Committable(c, pending[c])

IInv ==
  /\ TypeOK
  /\ InvLog /\ InvQueues /\ InvDispatched /\ InvIdle /\ InvCurrent /\ InvSettled
  /\ InvWorkers /\ InvEnd /\ InvSegments /\ InvVsn
  /\ CacheCoversInFlight /\ ConflictsInOrder /\ CutoverAfterDrain
=============================================================================
