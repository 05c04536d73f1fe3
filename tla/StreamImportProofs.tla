------------------------ MODULE StreamImportProofs ------------------------
(***************************************************************************)
(* IInv is an inductive invariant of StreamImport, hence the import's      *)
(* safety properties hold for every value of the constants, and the import *)
(* implements OrderedApply.  First the facts the proofs rest on: queues of *)
(* vsns, the log, which action writes which variable, and that every step  *)
(* keeps the types.                                                        *)
(***************************************************************************)
EXTENDS StreamImport, SequenceTheorems, WellFoundedInduction, FiniteSetTheorems, TLAPS

-----------------------------------------------------------------------------
(* Queues of vsns and markers.                                             *)

\* An empty queue holds no vsn, is increasing and holds no end marker.
LEMMA EmptyQueue ==
  /\ VsnsIn(<<>>) = {}
  /\ Increasing(<<>>) /\ EndIsLast(<<>>) /\ NoEnd(<<>>)
BY DEF VsnsIn, Increasing, EndIsLast, NoEnd

\* Appending an item adds its vsn, if it is one, and keeps a queue increasing
\* when the vsn is larger than all the others.
LEMMA AppendQueue ==
  ASSUME NEW S, NEW s \in Seq(S), NEW x \in S
  PROVE  /\ VsnsIn(Append(s, x)) = VsnsIn(s) \cup ({x} \cap Nat)
         /\ Increasing(s) /\ (x \in Nat => \A y \in VsnsIn(s) : y < x)
              => Increasing(Append(s, x))
         /\ NoEnd(s) => EndIsLast(Append(s, x))
         /\ NoEnd(s) /\ x # END_OF_QUEUE_SEGMENT_EVENT => NoEnd(Append(s, x))
<1> DEFINE t == Append(s, x)
<1>1. /\ t \in Seq(S) /\ Len(t) = Len(s) + 1 /\ Len(s) \in Nat
      /\ \A i \in 1 .. Len(s) : t[i] = s[i]
      /\ t[Len(s) + 1] = x
      /\ DOMAIN s = 1 .. Len(s) /\ DOMAIN t = 1 .. Len(s) + 1
  BY AppendProperties
<1> HIDE DEF t
<1>2. VsnsIn(t) = VsnsIn(s) \cup ({x} \cap Nat)
  BY <1>1 DEF VsnsIn
<1>3. ASSUME Increasing(s), x \in Nat => \A y \in VsnsIn(s) : y < x
      PROVE  Increasing(t)
  BY <1>1, <1>3 DEF Increasing, VsnsIn
<1>4. ASSUME NoEnd(s)
      PROVE  /\ EndIsLast(t)
             /\ x # END_OF_QUEUE_SEGMENT_EVENT => NoEnd(t)
  BY <1>1, <1>4 DEF NoEnd, EndIsLast
<1> QED
  BY <1>2, <1>3, <1>4 DEF t

\* Receiving the head of a queue removes its vsn and keeps the queue's order.
LEMMA TailQueue ==
  ASSUME NEW S, NEW s \in Seq(S), s # <<>>
  PROVE  /\ Head(s) \in S /\ Tail(s) \in Seq(S) /\ Len(Tail(s)) = Len(s) - 1
         /\ VsnsIn(s) = VsnsIn(Tail(s)) \cup ({Head(s)} \cap Nat)
         /\ Increasing(s) => Increasing(Tail(s))
         /\ Increasing(s) /\ Head(s) \in Nat => \A y \in VsnsIn(Tail(s)) : Head(s) < y
         /\ EndIsLast(s) => EndIsLast(Tail(s))
         /\ NoEnd(s) => NoEnd(Tail(s)) /\ Head(s) # END_OF_QUEUE_SEGMENT_EVENT
         /\ EndIsLast(s) /\ Head(s) = END_OF_QUEUE_SEGMENT_EVENT => Tail(s) = <<>>
<1> DEFINE t == Tail(s)  h == Head(s)
<1>1. /\ h \in S /\ t \in Seq(S) /\ Len(t) = Len(s) - 1 /\ Len(s) \in Nat /\ Len(s) > 0
      /\ h = s[1]
      /\ \A i \in 1 .. Len(t) : t[i] = s[i + 1]
      /\ DOMAIN s = 1 .. Len(s) /\ DOMAIN t = 1 .. Len(s) - 1
  BY HeadTailProperties, EmptySeq, LenProperties
<1> HIDE DEF t, h
<1>2. VsnsIn(s) = VsnsIn(t) \cup ({h} \cap Nat)
  <2>1. \A i \in DOMAIN s : s[i] = h \/ (i - 1 \in DOMAIN t /\ t[i - 1] = s[i])
    BY <1>1
  <2>2. \A i \in DOMAIN t : i + 1 \in DOMAIN s /\ t[i] = s[i + 1]
    BY <1>1
  <2>3. ASSUME NEW v \in VsnsIn(s)
        PROVE  v \in VsnsIn(t) \cup ({h} \cap Nat)
    <3>1. PICK i \in DOMAIN s : v = s[i] /\ v \in Nat
      BY <2>3 DEF VsnsIn
    <3> QED
      BY <2>1, <3>1 DEF VsnsIn
  <2>4. VsnsIn(t) \subseteq VsnsIn(s)
    BY <2>2 DEF VsnsIn
  <2>5. {h} \cap Nat \subseteq VsnsIn(s)
    BY <1>1 DEF VsnsIn
  <2> QED
    BY <2>3, <2>4, <2>5
<1>3. ASSUME Increasing(s)
      PROVE  Increasing(t) /\ (h \in Nat => \A y \in VsnsIn(t) : h < y)
  <2>1. Increasing(t)
    <3> SUFFICES ASSUME NEW i \in DOMAIN t, NEW j \in DOMAIN t, i < j, t[i] \in Nat, t[j] \in Nat
                 PROVE  t[i] < t[j]
      BY DEF Increasing
    <3>1. /\ i + 1 \in DOMAIN s /\ j + 1 \in DOMAIN s /\ i + 1 < j + 1
          /\ t[i] = s[i + 1] /\ t[j] = s[j + 1]
      BY <1>1
    <3> QED
      BY <1>3, <3>1 DEF Increasing
  <2>2. ASSUME h \in Nat, NEW y \in VsnsIn(t)
        PROVE  h < y
    <3>1. PICK i \in DOMAIN t : y = t[i] /\ y \in Nat
      BY <2>2 DEF VsnsIn
    <3>2. 1 \in DOMAIN s /\ i + 1 \in DOMAIN s /\ 1 < i + 1 /\ h = s[1] /\ y = s[i + 1]
      BY <1>1, <3>1
    <3> QED
      BY <1>3, <2>2, <3>1, <3>2 DEF Increasing
  <2> QED
    BY <2>1, <2>2
<1>4. ASSUME EndIsLast(s)
      PROVE  EndIsLast(t) /\ (h = END_OF_QUEUE_SEGMENT_EVENT => t = <<>>)
  <2>1. EndIsLast(t)
    BY <1>1, <1>4 DEF EndIsLast
  <2>2. h = END_OF_QUEUE_SEGMENT_EVENT => Len(t) = 0
    <3>1. 1 \in DOMAIN s /\ s[1] = h
      BY <1>1
    <3>2. h = END_OF_QUEUE_SEGMENT_EVENT => Len(s) = 1
      BY <1>4, <3>1 DEF EndIsLast
    <3> QED
      BY <1>1, <3>2
  <2> QED
    BY <1>1, <2>1, <2>2, EmptySeq
<1>5. NoEnd(s) => NoEnd(t) /\ h # END_OF_QUEUE_SEGMENT_EVENT
  BY <1>1 DEF NoEnd
<1> QED
  BY <1>1, <1>2, <1>3, <1>4, <1>5 DEF t, h

\* The last vsn of a batch is its largest.
LEMMA LastOfBatch ==
  ASSUME NEW b \in Seq(Nat), b # <<>>
  PROVE  /\ GetLastVsn(b) \in VsnsIn(b)
         /\ Increasing(b) => \A v \in VsnsIn(b) : v <= GetLastVsn(b)
<1>1. Len(b) \in Nat /\ Len(b) > 0 /\ DOMAIN b = 1 .. Len(b)
  BY EmptySeq, LenProperties
<1> QED
  BY <1>1 DEF GetLastVsn, VsnsIn, Increasing

-----------------------------------------------------------------------------
(* The log.                                                                *)

\* The partition key of a data event is one that Hash routes.
LEMMA PartitionKeyType ==
  ASSUME NEW e \in DataEvent
  PROVE  GetEventPartitionKey(e) \in PartitionKeys
<1>1. KeyImage(e) \in Row
  BY DEF DataEvent, KeyImage
<1>2. KeyImage(e)[PkColumn] \in Values /\ KeyImage(e)[CustomColumn] \in Values
  BY <1>1, EventsAssumption DEF Row
<1> QED
  BY <1>2, EventsAssumption DEF GetEventPartitionKey, PartitionKeys, Key

\* A data vsn is the position of a data event, which has a channel.
LEMMA DataVsnType ==
  ASSUME log \in Logs, NEW v \in DataVsns
  PROVE  v \in Nat /\ log[v] \in DataEvent /\ log[v].Op \in DataOps /\ ChannelOf(v) \in Channels
<1>1. log \in Seq(Event)
  BY ImportAssumption
<1>2. v \in 1 .. Len(log) /\ Len(log) \in Nat /\ log[v] \in Event
  BY <1>1, ElementOfSeq, LenProperties DEF DataVsns, Vsns
<1>3. log[v] \in DataEvent /\ log[v].Op \in DataOps
  BY <1>2 DEF DataVsns, IsCutoverEvent, Event, DataEvent, DataOps
<1>4. GetEventPartitionKey(log[v]) \in PartitionKeys
  BY <1>3, PartitionKeyType
<1>5. ChannelOf(v) \in Channels
  BY <1>4, ImportAssumption DEF ChannelOf, hashEvent
<1> QED
  BY <1>2, <1>3, <1>5

\* While the log does not change, neither do the vsns, their channels and segments.
LEMMA SameLog ==
  ASSUME log' = log
  PROVE  /\ Vsns' = Vsns /\ DataVsns' = DataVsns
         /\ \A v : ChannelOf(v)' = ChannelOf(v)
         /\ \A f, e : Blocks(f, e)' = Blocks(f, e)
         /\ \A f, e : Ordered!MustPrecede(f, e)' = Ordered!MustPrecede(f, e)
         /\ \A x : Ordered!OwnCutover(x)' = Ordered!OwnCutover(x)
         /\ \A s : SegmentVsns(s)' = SegmentVsns(s)
<1>1. Vsns' = Vsns
  BY DEF Vsns
<1>2. DataVsns' = DataVsns
  BY <1>1 DEF DataVsns
<1>3. \A v : ChannelOf(v)' = ChannelOf(v)
  BY DEF ChannelOf
<1>4. \A f, e : Blocks(f, e)' = Blocks(f, e)
  BY DEF Blocks
<1>5. \A f, e : Ordered!MustPrecede(f, e)' = Ordered!MustPrecede(f, e)
  BY DEF Ordered!MustPrecede
<1>6. \A x : Ordered!OwnCutover(x)' = Ordered!OwnCutover(x)
  BY DEF Ordered!OwnCutover, Ordered!Vsns
<1>7. \A s : SegmentVsns(s)' = SegmentVsns(s)
  BY <1>1 DEF SegmentVsns
<1> QED
  BY <1>1, <1>2, <1>3, <1>4, <1>5, <1>6, <1>7

\* OrderedApply's copies of the definitions of CdcEvents are those definitions.
LEMMA SameDefinitions ==
  /\ Ordered!shouldHandleConflicts = shouldHandleConflicts
  /\ \A e : Ordered!GetEventPartitionKey(e) = GetEventPartitionKey(e)
  /\ \A f, e : Ordered!Conflicts(f, e) = Conflicts(f, e)
  /\ \A e : Ordered!IsCutoverEvent(e) = IsCutoverEvent(e)
<1>1. Ordered!ConflictIndexes = ConflictIndexes
  BY DEF Ordered!ConflictIndexes, ConflictIndexes, Ordered!PkConflictGuard, PkConflictGuard
<1>2. Ordered!shouldHandleConflicts = shouldHandleConflicts
  BY <1>1 DEF Ordered!shouldHandleConflicts, shouldHandleConflicts
<1>3. ASSUME NEW e
      PROVE  Ordered!GetEventPartitionKey(e) = GetEventPartitionKey(e)
  BY DEF Ordered!GetEventPartitionKey, GetEventPartitionKey, Ordered!Key, Key,
         Ordered!KeyImage, KeyImage
<1>4. ASSUME NEW e
      PROVE  Ordered!EventBuckets(e) = EventBuckets(e)
  BY <1>1 DEF Ordered!EventBuckets, EventBuckets, Ordered!computeConflictBucketKey,
     computeConflictBucketKey, Ordered!indexRelevantForUpdate, indexRelevantForUpdate,
     Ordered!Indexable, Indexable, Ordered!anyUniqueIndexColumnChanged, anyUniqueIndexColumnChanged,
     Ordered!anyUniqueIndexColumnValueIsNull, anyUniqueIndexColumnValueIsNull,
     Ordered!ChangedColumns, ChangedColumns
<1>5. ASSUME NEW e
      PROVE  /\ Ordered!checkBeforeAfterConflict(e) = checkBeforeAfterConflict(e)
             /\ Ordered!checkBeforeBeforeConflict(e) = checkBeforeBeforeConflict(e)
  BY <1>1 DEF Ordered!checkBeforeAfterConflict, checkBeforeAfterConflict,
     Ordered!checkBeforeBeforeConflict, checkBeforeBeforeConflict, Ordered!computeConflictBucketKey,
     computeConflictBucketKey, 
     Ordered!Indexable, Indexable, Ordered!anyUniqueIndexColumnChanged, anyUniqueIndexColumnChanged,
     Ordered!anyUniqueIndexColumnValueIsNull, anyUniqueIndexColumnValueIsNull,
     Ordered!ChangedColumns, ChangedColumns
<1>6. ASSUME NEW f, NEW e
      PROVE  Ordered!Conflicts(f, e) = Conflicts(f, e)
  BY <1>3, <1>4, <1>5 DEF Ordered!Conflicts, Conflicts
<1>7. ASSUME NEW e
      PROVE  Ordered!IsCutoverEvent(e) = IsCutoverEvent(e)
  BY DEF Ordered!IsCutoverEvent, IsCutoverEvent, Ordered!CutoverOps, CutoverOps
<1> QED
  BY <1>2, <1>3, <1>6, <1>7

\* What must come first is earlier, and of the same channel or a blocker.
LEMMA PrecedenceCases ==
  ASSUME NEW f, NEW e, Ordered!MustPrecede(f, e)
  PROVE  f < e /\ (ChannelOf(f) = ChannelOf(e) \/ Blocks(f, e))
BY SameDefinitions DEF Ordered!MustPrecede, Blocks, ChannelOf, hashEvent

\* An event that blocks another is filed in the cache.
LEMMA BlockerIsCached ==
  ASSUME NEW f, NEW e, Blocks(f, e)
  PROVE  /\ shouldHandleConflicts /\ EventBuckets(log[f]) # {}
         /\ log[f].Op \in {"u", "d"} /\ log[e].Op \in {"c", "u"}
         /\ Conflicts(log[f], log[e])
BY DEF Blocks, Conflicts

-----------------------------------------------------------------------------
(* Type correctness.                                                       *)

\* The constants as the provers need them: channels, sizes and markers.
LEMMA Constants ==
  /\ 0 \in Channels
  /\ \A c \in Channels : c \in Nat
  /\ EVENT_CHANNEL_SIZE \in Nat /\ EVENT_CHANNEL_SIZE > 0
  /\ MAX_EVENTS_PER_BATCH \in Nat /\ MAX_EVENTS_PER_BATCH > 0
  /\ \A s \in Nat : LastVsn(s) \in Nat
  /\ \A s \in Nat : s >= 1 => FirstVsn(s) \in Nat /\ FirstVsn(s) >= 1
<1>1. \A s \in Nat : LastVsn(s) \in Nat
  BY ImportAssumption DEF LastVsn
<1>2. \A s \in Nat : s >= 1 => FirstVsn(s) \in Nat /\ FirstVsn(s) >= 1
  <2> SUFFICES ASSUME NEW s \in Nat, s >= 1
               PROVE  FirstVsn(s) \in Nat /\ FirstVsn(s) >= 1
    OBVIOUS
  <2>1. s - 1 \in Nat
    OBVIOUS
  <2> QED
    BY <1>1, <2>1 DEF FirstVsn
<1> QED
  BY <1>1, <1>2, ImportAssumption DEF Channels

\* Every log the exporter may write is a sequence of events.
LEMMA LogType == \A l \in Logs : l \in Seq(Event)
BY ImportAssumption

\* The state in which the importer is started first has the types of TypeOK.
LEMMA TypeInit == Init => TypeOK
<1> SUFFICES ASSUME Init
             PROVE  TypeOK
  OBVIOUS
<1>1. TypeDatabases
  <2>1. log \in Seq(Event)
    BY LogType DEF Init
  <2>2. pending \in [Channels -> Seq(Nat)]
    BY EmptySeq DEF Init
  <2>3. lastVsn \in [Channels -> Int] /\ numEvents \in [Channels -> Nat]
    BY DEF Init
  <2> QED
    BY <2>1, <2>2, <2>3 DEF Init, TypeDatabases
<1>2. TypeMain
  BY Constants DEF Init, TypeMain
<1>3. TypeChannels
  BY Constants DEF Init, TypeChannels
<1>4. TypeWorkers
  BY Constants DEF Init, TypeWorkers
<1> QED
  BY <1>1, <1>2, <1>3, <1>4 DEF Init, TypeOK

-----------------------------------------------------------------------------
(* Which actions write which variables.                                    *)

\* The process ends: a crash, or the last attempt of a batch failed.
Gone == Crash \/ \E c \in Channels : RetriesExhausted(c)

\* What is left of the process when it is gone: nothing but the databases.
LEMMA GoneState ==
  ASSUME Gone
  PROVE  /\ ProcessGone
         /\ UNCHANGED <<log, rows, lastVsn, numEvents, pending, applied, processed, cutoverDetected>>
BY DEF Gone, Crash, RetriesExhausted, dbVars, metaVars

Writes ==
    /\ log' = log
    /\ \/ UNCHANGED <<lastVsn, numEvents, applied>>
       \/ \E c \in Channels : ExecuteBatch(c) \/ CommitLands(c)
    /\ \/ UNCHANGED pending
       \/ \E c \in Channels : ExecuteBatchError(c) \/ CommitLands(c) \/ CommitAborts(c)
    /\ UNCHANGED <<processed, cutoverDetected>> \/ MarkSegmentProcessed
    /\ UNCHANGED meta \/ StartStreaming \/ Gone
    /\ UNCHANGED seg \/ NextSegment \/ Gone
    /\ UNCHANGED cur \/ NextSegment \/ ReadEvent \/ SendEvent \/ Gone
    /\ UNCHANGED idx \/ ReadEvent \/ ReadEndOfSegment \/ SendEndOfSegment \/ Gone
    /\ \/ UNCHANGED <<pc, cache>> \/ Main \/ Gone
       \/ \E c \in Channels : IgnoreEvent(c) \/ FinishBatch(c)
    /\ UNCHANGED cache \/ StartStreaming \/ Put \/ Gone
       \/ \E c \in Channels : IgnoreEvent(c) \/ FinishBatch(c)
    /\ \/ UNCHANGED chan \/ WaitUntilNoConflict \/ SendEvent \/ SendEndOfSegment \/ Gone
       \/ \E c \in Channels : \/ ReceiveEvent(c) \/ IgnoreEvent(c) \/ ReceiveFlush(c)
                              \/ ReceiveEndOfSegment(c)
    /\ UNCHANGED batch \/ Gone \/ \E c \in Channels : ReceiveEvent(c) \/ FinishBatch(c)
    /\ UNCHANGED endOfProcessing \/ MarkSegmentProcessed \/ Gone
       \/ \E c \in Channels : ReceiveEndOfSegment(c)
    /\ UNCHANGED attempt \/ Gone
       \/ \E c \in Channels : CheckAlreadyImported(c) \/ FinishBatch(c)
    /\ \/ UNCHANGED wpc \/ NextSegment \/ MarkSegmentProcessed \/ Gone
       \/ \E c \in Channels : \/ ReceiveEvent(c) \/ ReceiveFlush(c) \/ ReceiveEndOfSegment(c)
                              \/ Timeout(c) \/ ExecuteBatch(c) \/ ExecuteBatchError(c)
                              \/ CheckAlreadyImported(c) \/ FinishBatch(c)

\* Which actions may change which variables.
LEMMA Writers ==
  ASSUME [Next]_vars
  PROVE  Writes
<1> USE DEF dbVars, metaVars, mainVars, workVars, bounds
<1>1. CASE Main
  <2>1. CASE StartStreaming BY <2>1 DEF StartStreaming, Main, Writes
  <2>2. CASE NextSegment BY <2>2 DEF NextSegment, Main, Writes
  <2>3. CASE ReadEvent BY <2>3 DEF ReadEvent, Main, Writes
  <2>4. CASE ReadEndOfSegment BY <2>4 DEF ReadEndOfSegment, Main, Writes
  <2>5. CASE WaitUntilNoConflict BY <2>5 DEF WaitUntilNoConflict, Main, Writes
  <2>6. CASE Put BY <2>6 DEF Put, Main, Writes
  <2>7. CASE SendEvent BY <2>7 DEF SendEvent, Main, Writes
  <2>8. CASE SendEndOfSegment BY <2>8 DEF SendEndOfSegment, Main, Writes
  <2>9. CASE Drained BY <2>9 DEF Drained, Main, Writes
  <2>10. CASE MarkSegmentProcessed BY <2>10 DEF MarkSegmentProcessed, Main, Writes
  <2> QED
    BY <1>1, <2>1, <2>2, <2>3, <2>4, <2>5, <2>6, <2>7, <2>8, <2>9, <2>10 DEF Main
<1>2. ASSUME NEW c \in Channels, Batching(c) PROVE Writes
  <2>1. CASE ReceiveEvent(c) BY <2>1 DEF ReceiveEvent, Writes
  <2>2. CASE IgnoreEvent(c) BY <2>2 DEF IgnoreEvent, Writes
  <2>3. CASE ReceiveFlush(c) BY <2>3 DEF ReceiveFlush, Writes
  <2>4. CASE ReceiveEndOfSegment(c) BY <2>4 DEF ReceiveEndOfSegment, Writes
  <2>5. CASE Timeout(c) BY <2>5 DEF Timeout, Writes
  <2> QED
    BY <1>2, <2>1, <2>2, <2>3, <2>4, <2>5 DEF Batching
<1>3. ASSUME NEW c \in Channels, Executing(c) PROVE Writes
  <2>1. CASE ExecuteBatch(c) BY <2>1 DEF ExecuteBatch, Writes
  <2>2. CASE CheckAlreadyImported(c) BY <2>2 DEF CheckAlreadyImported, Writes
  <2>3. CASE RetriesExhausted(c) BY <2>3 DEF RetriesExhausted, Gone, Writes
  <2>4. CASE FinishBatch(c) BY <2>4 DEF FinishBatch, Writes
  <2> QED
    BY <1>3, <2>1, <2>2, <2>3, <2>4 DEF Executing
<1>4. ASSUME NEW c \in Channels, Database(c) \/ ExecuteBatchError(c) PROVE Writes
  <2>1. CASE CommitLands(c) BY <2>1 DEF CommitLands, Writes
  <2>2. CASE CommitAborts(c) BY <2>2 DEF CommitAborts, Writes
  <2>3. CASE ExecuteBatchError(c) BY <2>3 DEF ExecuteBatchError, Writes
  <2> QED
    BY <1>4, <2>1, <2>2, <2>3 DEF Database
<1>5. CASE Crash
  BY <1>5 DEF Crash, Gone, Writes
<1>6. CASE Finished \/ UNCHANGED vars
  BY <1>6 DEF Finished, vars, Writes
<1> QED
  BY <1>1, <1>2, <1>3, <1>4, <1>5, <1>6 DEF Next

-----------------------------------------------------------------------------
(* Every step keeps the types.                                             *)

\* A batch about to be committed, or in doubt, names a last vsn.
LEMMA CommitTypes ==
  ASSUME TypeOK, NEW c \in Channels, NEW b \in Seq(Nat), b # <<>>, Commit(c, b)
  PROVE  lastVsn' \in [Channels -> Int] /\ numEvents' \in [Channels -> Nat] /\ applied' \in SUBSET Nat
<1>1. GetLastVsn(b) \in Nat /\ Len(b) \in Nat
  BY LastOfBatch, LenProperties DEF VsnsIn
<1>2. VsnsIn(b) \in SUBSET Nat
  BY DEF VsnsIn
<1>3. lastVsn' \in [Channels -> Int]
  BY <1>1 DEF TypeOK, TypeDatabases, Commit
<1>4. numEvents' \in [Channels -> Nat]
  BY <1>1 DEF TypeOK, TypeDatabases, Commit
<1>5. applied' \in SUBSET Nat
  BY <1>2 DEF TypeOK, TypeDatabases, Commit
<1> QED
  BY <1>3, <1>4, <1>5

\* A step keeps the types of the target and meta databases.
LEMMA DatabasesStep ==
  ASSUME TypeOK, InvWorkers, [Next]_vars
  PROVE  TypeDatabases'
<1>1. log' \in Seq(Event)
  BY Writers DEF Writes, TypeOK, TypeDatabases
<1>2. /\ lastVsn' \in [Channels -> Int] /\ numEvents' \in [Channels -> Nat]
      /\ applied' \in SUBSET Nat
  <2>1. CASE \E c \in Channels : ExecuteBatch(c)
    BY <2>1, CommitTypes DEF ExecuteBatch, InvWorkers, TypeOK, TypeWorkers
  <2>2. CASE \E c \in Channels : CommitLands(c)
    BY <2>2, CommitTypes DEF CommitLands, TypeOK, TypeDatabases
  <2>3. CASE UNCHANGED <<lastVsn, numEvents, applied>>
    BY <2>3 DEF TypeOK, TypeDatabases
  <2> QED
    BY <2>1, <2>2, <2>3, Writers DEF Writes
<1>3. pending' \in [Channels -> Seq(Nat)]
  <2>1. CASE \E c \in Channels : ExecuteBatchError(c)
    BY <2>1 DEF ExecuteBatchError, TypeOK, TypeWorkers, TypeDatabases
  <2>2. CASE \E c \in Channels : CommitLands(c) \/ CommitAborts(c)
    BY <2>2, EmptySeq DEF CommitLands, CommitAborts, TypeOK, TypeDatabases
  <2> QED
    BY <2>1, <2>2, Writers DEF Writes, TypeOK, TypeDatabases
<1>4. processed' \in SUBSET Nat /\ cutoverDetected' \in BOOLEAN
  <2>1. CASE MarkSegmentProcessed
    BY <2>1 DEF MarkSegmentProcessed, TypeOK, TypeDatabases, TypeMain
  <2> QED
    BY <2>1, Writers DEF Writes, TypeOK, TypeDatabases
<1> QED
  BY <1>1, <1>2, <1>3, <1>4 DEF TypeDatabases

\* A step keeps the types of the main goroutine's variables.
LEMMA MainStep ==
  ASSUME TypeOK, [Next]_vars
  PROVE  TypeMain'
<1> USE DEF TypeOK, TypeMain
<1>1. ASSUME Gone
      PROVE  /\ pc' = "down" /\ seg' = 0 /\ cur' = 0 /\ idx' = 0 /\ cache' = {}
             /\ meta' = [c \in Channels |-> -1]
  BY <1>1, GoneState DEF ProcessGone
<1>2. seg' \in Nat
  <2>1. CASE NextSegment
    BY <2>1 DEF NextSegment, Vsns
  <2> QED
    BY <1>1, <2>1, Writers DEF Writes
<1>3. cur' \in Nat
  <2>1. CASE NextSegment
    BY <2>1, Constants DEF NextSegment, Vsns
  <2> QED
    BY <1>1, <2>1, Writers DEF Writes, ReadEvent, SendEvent
<1>4. idx' \in Channels
  BY <1>1, Writers, Constants DEF Writes, ReadEvent, ReadEndOfSegment, SendEndOfSegment
<1>5. meta' \in [Channels -> Int]
  <2>1. CASE StartStreaming
    BY <2>1 DEF StartStreaming, GetEventChannelsMetaInfo, TypeDatabases
  <2>2. [c \in Channels |-> -1] \in [Channels -> Int]
    OBVIOUS
  <2> QED
    BY <1>1, <2>1, <2>2, Writers DEF Writes
<1>6. cache' \in SUBSET Nat
  BY <1>1, Writers DEF Writes, StartStreaming, Put, IgnoreEvent, FinishBatch, RemoveEvents
<1>7. pc' \in {"down", "next", "read", "check", "waiting", "put", "send", "end", "drain",
               "mark", "done"}
  <2>1. CASE Main
    BY <2>1 DEF Main, StartStreaming, NextSegment, ReadEvent, ReadEndOfSegment,
                WaitUntilNoConflict, Put, SendEvent, SendEndOfSegment, Drained, MarkSegmentProcessed
  <2>2. CASE \E c \in Channels : IgnoreEvent(c) \/ FinishBatch(c)
    BY <2>2 DEF IgnoreEvent, FinishBatch, RemoveEvents
  <2> QED
    BY <1>1, <2>1, <2>2, Writers DEF Writes
<1> QED
  BY <1>2, <1>3, <1>4, <1>5, <1>6, <1>7

\* A step keeps the types of the event channels, and their size.
LEMMA ChannelsStep ==
  ASSUME TypeOK, [Next]_vars
  PROVE  TypeChannels'
<1>1. \A c \in Channels : chan[c] \in Seq(Items) /\ Len(chan[c]) \in Nat
  BY LenProperties DEF TypeOK, TypeChannels
<1>2. ASSUME NEW x \in Items
      PROVE  \A c \in Channels : /\ Append(chan[c], x) \in Seq(Items)
                                 /\ Len(Append(chan[c], x)) = Len(chan[c]) + 1
  BY <1>1, AppendProperties
<1>3. ASSUME NEW h, NEW x \in Items, HasRoom(h), chan' = [chan EXCEPT ![h] = Append(@, x)]
      PROVE  TypeChannels'
  <2>1. chan' \in [Channels -> Seq(Items)]
    BY <1>2, <1>3 DEF TypeOK, TypeChannels
  <2>2. \A c \in Channels : Len(chan'[c]) <= EVENT_CHANNEL_SIZE
    BY <1>1, <1>2, <1>3, Constants DEF HasRoom, TypeOK, TypeChannels
  <2> QED
    BY <2>1, <2>2 DEF TypeChannels
<1>4. CASE WaitUntilNoConflict
  <2>1. FLUSH_BATCH_EVENT \in Items
    BY DEF Items
  <2> QED
    <3>1. CASE UNCHANGED chan
      BY <3>1 DEF TypeOK, TypeChannels
    <3>2. CASE chan' = [c \in Channels |-> IF HasRoom(c) THEN Append(chan[c], FLUSH_BATCH_EVENT)
                                           ELSE chan[c]]
      <4>1. chan' \in [Channels -> Seq(Items)]
        BY <1>1, <1>2, <2>1, <3>2
      <4>2. \A c \in Channels : Len(chan'[c]) <= EVENT_CHANNEL_SIZE
        BY <1>1, <1>2, <2>1, <3>2, Constants DEF HasRoom, TypeOK, TypeChannels
      <4> QED
        BY <4>1, <4>2 DEF TypeChannels
    <3> QED
      BY <1>4, <3>1, <3>2 DEF WaitUntilNoConflict
<1>5. CASE SendEvent
  <2>1. cur \in Items
    BY DEF Items, TypeOK, TypeMain
  <2> QED
    BY <1>5, <1>3, <2>1 DEF SendEvent
<1>6. CASE SendEndOfSegment
  <2>1. END_OF_QUEUE_SEGMENT_EVENT \in Items
    BY DEF Items
  <2> QED
    BY <1>6, <1>3, <2>1 DEF SendEndOfSegment
<1>7. ASSUME NEW c \in Channels,
             ReceiveEvent(c) \/ IgnoreEvent(c) \/ ReceiveFlush(c) \/ ReceiveEndOfSegment(c)
      PROVE  TypeChannels'
  <2>1. chan[c] # <<>> /\ chan' = [chan EXCEPT ![c] = Tail(@)]
    BY <1>7 DEF ReceiveEvent, IgnoreEvent, ReceiveFlush, ReceiveEndOfSegment
  <2>2. Tail(chan[c]) \in Seq(Items) /\ Len(Tail(chan[c])) = Len(chan[c]) - 1
    BY <1>1, <2>1, TailQueue
  <2> QED
    <3>1. chan' \in [Channels -> Seq(Items)]
      BY <2>1, <2>2 DEF TypeOK, TypeChannels
    <3>2. \A d \in Channels : Len(chan'[d]) <= EVENT_CHANNEL_SIZE
      BY <1>1, <2>1, <2>2, Constants DEF TypeOK, TypeChannels
    <3> QED
      BY <3>1, <3>2 DEF TypeChannels
<1>8. CASE Gone
  <2>1. chan' = [c \in Channels |-> <<>>]
    BY <1>8, GoneState DEF ProcessGone
  <2>2. chan' \in [Channels -> Seq(Items)]
    BY <2>1, EmptySeq
  <2>3. \A c \in Channels : Len(chan'[c]) <= EVENT_CHANNEL_SIZE
    BY <2>1, Constants
  <2> QED
    BY <2>2, <2>3 DEF TypeChannels
<1> QED
  BY <1>4, <1>5, <1>6, <1>7, <1>8, Writers DEF Writes, TypeOK, TypeChannels

\* A step keeps the types of the processEvents goroutines, and the batch size.
LEMMA WorkersStep ==
  ASSUME TypeOK, InvWorkers, [Next]_vars
  PROVE  TypeWorkers'
<1>1. CASE Gone
  <2>1. /\ wpc' = [c \in Channels |-> "off"] /\ batch' = [c \in Channels |-> <<>>]
        /\ endOfProcessing' = [c \in Channels |-> FALSE] /\ attempt' = [c \in Channels |-> 0]
    BY <1>1, GoneState DEF ProcessGone
  <2>2. batch' \in [Channels -> Seq(Nat)] /\ \A c \in Channels : Len(batch'[c]) <= MAX_EVENTS_PER_BATCH
    BY <2>1, EmptySeq, Constants
  <2> QED
    BY <2>1, <2>2 DEF TypeWorkers
<1>2. CASE ~Gone
  <2>1. wpc' \in [Channels -> {"off", "batching", "exec", "retry", "applied", "done"}]
    <3>1. CASE NextSegment \/ MarkSegmentProcessed
      BY <3>1 DEF NextSegment, MarkSegmentProcessed
    <3>2. ASSUME NEW c \in Channels,
                 \/ ReceiveEvent(c) \/ ReceiveFlush(c) \/ ReceiveEndOfSegment(c)
                 \/ Timeout(c) \/ ExecuteBatch(c) \/ ExecuteBatchError(c)
                 \/ CheckAlreadyImported(c) \/ FinishBatch(c)
          PROVE  \E p \in {"off", "batching", "exec", "retry", "applied", "done"} :
                   wpc' = [wpc EXCEPT ![c] = p]
      BY <3>2 DEF ReceiveEvent, ReceiveFlush, ReceiveEndOfSegment, Timeout, ExecuteBatch,
                  ExecuteBatchError, CheckAlreadyImported, FinishBatch, AfterBatching
    <3>3. wpc \in [Channels -> {"off", "batching", "exec", "retry", "applied", "done"}]
      BY DEF TypeOK, TypeWorkers
    <3> QED
      BY <1>2, <3>1, <3>2, <3>3, Writers DEF Writes
  <2>2. endOfProcessing' \in [Channels -> BOOLEAN]
    BY <1>2, Writers DEF Writes, TypeOK, TypeWorkers, MarkSegmentProcessed, ReceiveEndOfSegment
  <2>3. attempt' \in [Channels -> Nat]
    BY <1>2, Writers DEF Writes, TypeOK, TypeWorkers, CheckAlreadyImported, FinishBatch
  <2>4. batch' \in [Channels -> Seq(Nat)] /\ \A c \in Channels : Len(batch'[c]) <= MAX_EVENTS_PER_BATCH
    <3>1. ASSUME NEW c \in Channels, ReceiveEvent(c)
          PROVE  /\ Append(batch[c], Head(chan[c])) \in Seq(Nat)
                 /\ Len(Append(batch[c], Head(chan[c]))) <= MAX_EVENTS_PER_BATCH
                 /\ batch' = [batch EXCEPT ![c] = Append(@, Head(chan[c]))]
      <4>1. batch[c] \in Seq(Nat) /\ Head(chan[c]) \in Nat /\ Len(batch[c]) < MAX_EVENTS_PER_BATCH
        BY <3>1 DEF ReceiveEvent, InvWorkers, TypeOK, TypeWorkers
      <4>2. Len(batch[c]) \in Nat /\ Len(Append(batch[c], Head(chan[c]))) = Len(batch[c]) + 1
            /\ Append(batch[c], Head(chan[c])) \in Seq(Nat)
        BY <4>1, AppendProperties, LenProperties
      <4>3. Len(Append(batch[c], Head(chan[c]))) <= MAX_EVENTS_PER_BATCH
        <5>1. \A m, n \in Nat : n < m => n + 1 <= m
          OBVIOUS
        <5>2. MAX_EVENTS_PER_BATCH \in Nat
          BY Constants
        <5>3. Len(batch[c]) + 1 <= MAX_EVENTS_PER_BATCH
          BY <4>1, <4>2, <5>1, <5>2
        <5> QED
          BY <4>2, <5>3
      <4>4. batch' = [batch EXCEPT ![c] = Append(@, Head(chan[c]))]
        BY <3>1 DEF ReceiveEvent
      <4> QED
        BY <4>2, <4>3, <4>4
    <3>2. ASSUME NEW c \in Channels, FinishBatch(c)
          PROVE  batch' = [batch EXCEPT ![c] = <<>>]
      BY <3>2 DEF FinishBatch
    <3>3. <<>> \in Seq(Nat) /\ Len(<<>>) <= MAX_EVENTS_PER_BATCH
      BY EmptySeq, Constants
    <3>4. batch \in [Channels -> Seq(Nat)] /\ \A c \in Channels : Len(batch[c]) <= MAX_EVENTS_PER_BATCH
      BY DEF TypeOK, TypeWorkers
    <3>5. ASSUME NEW c \in Channels, NEW b \in Seq(Nat), Len(b) <= MAX_EVENTS_PER_BATCH,
                 batch' = [batch EXCEPT ![c] = b]
          PROVE  /\ batch' \in [Channels -> Seq(Nat)]
                 /\ \A d \in Channels : Len(batch'[d]) <= MAX_EVENTS_PER_BATCH
      BY <3>4, <3>5
    <3> QED
      BY <1>2, <3>1, <3>2, <3>3, <3>4, <3>5, Writers DEF Writes
  <2> QED
    BY <2>1, <2>2, <2>3, <2>4 DEF TypeWorkers
<1> QED
  BY <1>1, <1>2

\* A step keeps the type invariant.
LEMMA TypeStep ==
  ASSUME TypeOK, InvWorkers, [Next]_vars
  PROVE  TypeOK'
<1>1. errors' \in Nat /\ crashes' \in Nat
  <2>1. UNCHANGED <<errors, crashes>> \/ Crash \/ \E c \in Channels : ExecuteBatchError(c)
    BY DEF Next, Main, Batching, Executing, Database, StartStreaming, NextSegment, ReadEvent,
       ReadEndOfSegment, WaitUntilNoConflict, Put, SendEvent, SendEndOfSegment, Drained,
       MarkSegmentProcessed, ReceiveEvent, IgnoreEvent, ReceiveFlush, ReceiveEndOfSegment, Timeout,
       ExecuteBatch, CheckAlreadyImported, RetriesExhausted, FinishBatch, CommitLands,
       CommitAborts, Finished, vars, bounds
  <2> QED
    BY <2>1 DEF TypeOK, Crash, ExecuteBatchError
<1> QED
  BY <1>1, DatabasesStep, MainStep, ChannelsStep, WorkersStep DEF TypeOK

-----------------------------------------------------------------------------
(* Committing a batch.                                                     *)

\* The batch of a channel skips no event and overtakes none.
LEMMA BatchCommittable ==
  ASSUME IInv, NEW c \in Channels, batch[c] # <<>>
  PROVE  Committable(c, batch[c])
<1> DEFINE b == batch[c]
<1>1. b \in Seq(Nat) /\ cur \in Nat
  BY DEF IInv, TypeOK, TypeWorkers, TypeMain
<1>2. GetLastVsn(b) \in VsnsIn(b) /\ \A v \in VsnsIn(b) : v <= GetLastVsn(b)
  BY <1>1, LastOfBatch DEF IInv, InvQueues
<1>3. /\ \A v \in VsnsIn(b) : v \in DataVsns /\ ChannelOf(v) = c /\ v < cur
      /\ \A x \in VsnsIn(b), y \in VsnsIn(chan[c]) : x < y
  BY DEF IInv, InvQueues, InFlight
<1>4. \A v \in DataVsns : v \in Nat
  BY DataVsnType DEF IInv, InvLog
<1>5. ASSUME NEW v \in DataVsns, ChannelOf(v) = c, NEW e \in VsnsIn(b), v <= e
      PROVE  v \in applied \cup VsnsIn(b)
  <2>1. ~Idle
    BY DEF IInv, InvIdle
  <2>2. v < cur
    BY <1>1, <1>3, <1>4, <1>5
  <2>3. v \in applied \cup VsnsIn(b) \cup VsnsIn(chan[c])
    BY <1>5, <2>1, <2>2 DEF IInv, InvDispatched, InFlight
  <2>4. v \notin VsnsIn(chan[c])
    BY <1>3, <1>4, <1>5
  <2> QED
    BY <2>3, <2>4
<1>6. ASSUME NEW e \in VsnsIn(b), NEW f \in DataVsns, Ordered!MustPrecede(f, e)
      PROVE  f \in applied \cup VsnsIn(b)
  <2>1. f < e /\ (ChannelOf(f) = ChannelOf(e) \/ Blocks(f, e))
    BY <1>6, PrecedenceCases
  <2>2. CASE Blocks(f, e)
    BY <2>1, <2>2 DEF IInv, InvSettled, InFlight
  <2>3. CASE ChannelOf(f) = ChannelOf(e)
    BY <1>3, <1>4, <1>5, <2>1, <2>3
  <2> QED
    BY <2>1, <2>2, <2>3
<1> QED
  BY <1>2, <1>3, <1>5, <1>6 DEF Committable

\* Every step leaves the applied events alone or commits a committable batch.
LEMMA CommitStep ==
  ASSUME IInv, [Next]_vars
  PROVE  \/ UNCHANGED <<lastVsn, applied>>
         \/ \E c \in Channels : \E b \in Seq(Nat) :
              /\ b # <<>> /\ Committable(c, b)
              /\ applied' = applied \cup VsnsIn(b)
              /\ lastVsn' = [lastVsn EXCEPT ![c] = GetLastVsn(b)]
<1>1. ASSUME NEW c \in Channels, ExecuteBatch(c)
      PROVE  /\ batch[c] \in Seq(Nat) /\ batch[c] # <<>> /\ Committable(c, batch[c])
             /\ applied' = applied \cup VsnsIn(batch[c])
             /\ lastVsn' = [lastVsn EXCEPT ![c] = GetLastVsn(batch[c])]
  <2>1. batch[c] \in Seq(Nat) /\ batch[c] # <<>>
    BY <1>1 DEF ExecuteBatch, IInv, InvWorkers, TypeOK, TypeWorkers
  <2> QED
    BY <1>1, <2>1, BatchCommittable DEF ExecuteBatch, Commit
<1>2. ASSUME NEW c \in Channels, CommitLands(c)
      PROVE  /\ pending[c] \in Seq(Nat) /\ pending[c] # <<>> /\ Committable(c, pending[c])
             /\ applied' = applied \cup VsnsIn(pending[c])
             /\ lastVsn' = [lastVsn EXCEPT ![c] = GetLastVsn(pending[c])]
  BY <1>2 DEF CommitLands, Commit, IInv, InvVsn, TypeOK, TypeDatabases
<1> QED
  BY <1>1, <1>2, Writers DEF Writes

\* A step applies only data events, and in an order ConflictsInOrder allows.
LEMMA AppliedStep ==
  ASSUME IInv, [Next]_vars
  PROVE  /\ applied \subseteq applied'
         /\ InvLog' /\ ConflictsInOrder' /\ NoEventSkipped'
<1>1. /\ log' = log /\ DataVsns' = DataVsns
      /\ \A v : ChannelOf(v)' = ChannelOf(v)
      /\ \A f, e : Ordered!MustPrecede(f, e)' = Ordered!MustPrecede(f, e)
  BY Writers, SameLog DEF Writes
<1>2. CASE UNCHANGED <<lastVsn, applied>>
  BY <1>1, <1>2 DEF IInv, InvLog, ConflictsInOrder, InvVsn, NoEventSkipped
<1>3. ASSUME NEW c \in Channels, NEW b \in Seq(Nat), b # <<>>, Committable(c, b),
             applied' = applied \cup VsnsIn(b), lastVsn' = [lastVsn EXCEPT ![c] = GetLastVsn(b)]
      PROVE  /\ applied \subseteq applied'
             /\ InvLog' /\ ConflictsInOrder' /\ NoEventSkipped'
  <2>1. InvLog'
    BY <1>1, <1>3 DEF IInv, InvLog, Committable
  <2>2. ConflictsInOrder'
    BY <1>1, <1>3 DEF IInv, ConflictsInOrder, Committable
  <2>3. ASSUME NEW v \in DataVsns, v <= lastVsn'[ChannelOf(v)]
        PROVE  v \in applied'
    <3>1. ChannelOf(v) \in Channels
      BY DataVsnType DEF IInv, InvLog
    <3>2. CASE ChannelOf(v) = c
      BY <1>3, <2>3, <3>2 DEF Committable, IInv, TypeOK, TypeDatabases
    <3>3. CASE ChannelOf(v) # c
      BY <1>3, <2>3, <3>1, <3>3 DEF IInv, InvVsn, NoEventSkipped, TypeOK, TypeDatabases
    <3> QED
      BY <3>2, <3>3
  <2>4. NoEventSkipped'
    BY <1>1, <2>3 DEF NoEventSkipped
  <2> QED
    BY <1>3, <2>1, <2>2, <2>4
<1> QED
  BY <1>2, <1>3, CommitStep

\* The commits in doubt stay committable, and so does what was read as applied.
LEMMA VsnStep ==
  ASSUME IInv, [Next]_vars
  PROVE  InvVsn'
<1>1. /\ log' = log /\ DataVsns' = DataVsns
      /\ \A v : ChannelOf(v)' = ChannelOf(v)
      /\ \A f, e : Ordered!MustPrecede(f, e)' = Ordered!MustPrecede(f, e)
      /\ applied \subseteq applied' /\ NoEventSkipped'
  BY Writers, SameLog, AppliedStep DEF Writes
<1>2. ASSUME NEW v \in DataVsns, v <= meta'[ChannelOf(v)]
      PROVE  v \in applied'
  <2>1. v \in Nat /\ ChannelOf(v) \in Channels
    BY DataVsnType DEF IInv, InvLog
  <2>2. CASE UNCHANGED meta
    BY <1>1, <1>2, <2>2 DEF IInv, InvVsn
  <2>3. CASE StartStreaming
    <3>1. meta' = lastVsn
      BY <2>3 DEF StartStreaming, GetEventChannelsMetaInfo
    <3> QED
      BY <1>1, <1>2, <3>1 DEF IInv, InvVsn, NoEventSkipped
  <2>4. CASE Gone
    <3>1. meta'[ChannelOf(v)] = -1
      BY <2>1, <2>4, GoneState DEF ProcessGone
    <3> QED
      BY <1>2, <2>1, <3>1
  <2> QED
    BY <2>2, <2>3, <2>4, Writers DEF Writes
<1>3. ASSUME NEW c \in Channels
      PROVE  Committable(c, pending[c])'
  <2>1. Committable(c, <<>>)
    BY EmptyQueue DEF Committable
  <2>2. Committable(c, pending'[c])
    <3>1. CASE UNCHANGED pending
      BY <3>1 DEF IInv, InvVsn
    <3>2. ASSUME NEW d \in Channels, ExecuteBatchError(d)
          PROVE  Committable(c, pending'[c])
      <4>1. Committable(d, batch[d])
        BY <3>2, BatchCommittable DEF ExecuteBatchError, IInv, InvWorkers
      <4>2. pending'[c] = pending[c] \/ (c = d /\ pending'[c] = batch[d])
        BY <3>2 DEF ExecuteBatchError, IInv, TypeOK, TypeDatabases
      <4> QED
        BY <4>1, <4>2 DEF IInv, InvVsn
    <3>3. ASSUME NEW d \in Channels, CommitLands(d) \/ CommitAborts(d)
          PROVE  Committable(c, pending'[c])
      <4>1. pending'[c] = pending[c] \/ pending'[c] = <<>>
        BY <3>3 DEF CommitLands, CommitAborts, IInv, TypeOK, TypeDatabases
      <4> QED
        BY <2>1, <4>1 DEF IInv, InvVsn
    <3> QED
      BY <3>1, <3>2, <3>3, Writers DEF Writes
  <2> QED
    BY <1>1, <2>2 DEF Committable
<1> QED
  BY <1>1, <1>2, <1>3 DEF InvVsn

-----------------------------------------------------------------------------
(* Events moving through the channels.                                     *)

\* What a step may do to channel c and its batch.
Moves(c) ==
  \/ chan'[c] = chan[c] /\ batch'[c] = batch[c]
  \/ /\ SendEvent /\ c = ChannelOf(cur)
     /\ chan'[c] = Append(chan[c], cur) /\ batch'[c] = batch[c]
  \/ /\ chan'[c] = Append(chan[c], FLUSH_BATCH_EVENT) /\ batch'[c] = batch[c]
     /\ WaitUntilNoConflict
  \/ /\ chan'[c] = Append(chan[c], END_OF_QUEUE_SEGMENT_EVENT) /\ batch'[c] = batch[c]
     /\ SendEndOfSegment /\ c = idx
  \/ /\ ReceiveFlush(c) \/ ReceiveEndOfSegment(c)
     /\ chan[c] # <<>> /\ Head(chan[c]) \notin Nat
     /\ chan'[c] = Tail(chan[c]) /\ batch'[c] = batch[c]
  \/ /\ IgnoreEvent(c)
     /\ chan[c] # <<>> /\ Head(chan[c]) \in Nat
     /\ chan'[c] = Tail(chan[c]) /\ batch'[c] = batch[c]
  \/ /\ ReceiveEvent(c)
     /\ chan[c] # <<>> /\ Head(chan[c]) \in Nat
     /\ chan'[c] = Tail(chan[c]) /\ batch'[c] = Append(batch[c], Head(chan[c]))
  \/ /\ FinishBatch(c)
     /\ chan'[c] = chan[c] /\ batch'[c] = <<>>
  \/ Gone /\ chan'[c] = <<>> /\ batch'[c] = <<>>

\* What a step may do to one channel and its batch.
LEMMA ChannelMoves ==
  ASSUME IInv, [Next]_vars, NEW c \in Channels
  PROVE  Moves(c)
<1> USE DEF metaVars, mainVars, workVars, bounds
<1>1. /\ chan \in [Channels -> Seq(Items)]
      /\ batch \in [Channels -> Seq(Nat)]
      /\ FLUSH_BATCH_EVENT \notin Nat /\ END_OF_QUEUE_SEGMENT_EVENT \notin Nat
  BY ImportAssumption DEF IInv, TypeOK, TypeChannels, TypeWorkers
<1>2. CASE Gone
  BY <1>2, GoneState DEF ProcessGone, Moves
<1>3. CASE SendEvent
  BY <1>1, <1>3 DEF SendEvent, Moves
<1>4. CASE WaitUntilNoConflict
  BY <1>1, <1>4 DEF WaitUntilNoConflict, Moves
<1>5. CASE SendEndOfSegment
  BY <1>1, <1>5 DEF SendEndOfSegment, Moves
<1>6. ASSUME NEW d \in Channels, ReceiveFlush(d) \/ ReceiveEndOfSegment(d)
      PROVE  Moves(c)
  BY <1>1, <1>6 DEF ReceiveFlush, ReceiveEndOfSegment, Moves
<1>7. ASSUME NEW d \in Channels, IgnoreEvent(d)
      PROVE  Moves(c)
  BY <1>1, <1>7 DEF IgnoreEvent, Moves
<1>8. ASSUME NEW d \in Channels, ReceiveEvent(d)
      PROVE  Moves(c)
  BY <1>1, <1>8 DEF ReceiveEvent, Moves
<1>9. ASSUME NEW d \in Channels, FinishBatch(d)
      PROVE  Moves(c)
  BY <1>1, <1>9 DEF FinishBatch, Moves
<1>10. CASE UNCHANGED <<chan, batch>>
  BY <1>10 DEF Moves
<1> QED
  BY <1>2, <1>3, <1>4, <1>5, <1>6, <1>7, <1>8, <1>9, <1>10, Writers DEF Writes

\* What Moves(c) does to the order and the set of the events of channel c.
Flows(c) ==
  /\ Increasing(batch'[c]) /\ Increasing(chan'[c])
  /\ \A x \in VsnsIn(batch'[c]), y \in VsnsIn(chan'[c]) : x < y
  /\ \/ InFlight(c)' \subseteq InFlight(c)
     \/ SendEvent /\ c = ChannelOf(cur) /\ InFlight(c)' = InFlight(c) \cup {cur}
  /\ Gone => InFlight(c)' = {}
  /\ \/ Gone
     \/ InFlight(c) \subseteq InFlight(c)'
     \/ IgnoreEvent(c) /\ InFlight(c) = InFlight(c)' \cup {Head(chan[c])}
     \/ FinishBatch(c) /\ InFlight(c) = InFlight(c)' \cup VsnsIn(batch[c])

LEMMA Flow ==
  ASSUME IInv, [Next]_vars, NEW c \in Channels
  PROVE  Flows(c)
<1>1. /\ batch[c] \in Seq(Nat) /\ chan[c] \in Seq(Items)
      /\ Increasing(batch[c]) /\ Increasing(chan[c])
      /\ \A x \in VsnsIn(batch[c]), y \in VsnsIn(chan[c]) : x < y
      /\ \A v \in VsnsIn(batch[c]) \cup VsnsIn(chan[c]) : v \in Nat /\ v < cur
      /\ cur \in Nat
  BY DEF IInv, TypeOK, TypeWorkers, TypeChannels, TypeMain, InvQueues, InFlight, VsnsIn
<1>2. /\ InFlight(c) = VsnsIn(batch[c]) \cup VsnsIn(chan[c])
      /\ InFlight(c)' = VsnsIn(batch'[c]) \cup VsnsIn(chan'[c])
  BY DEF InFlight
<1>3. CASE chan'[c] = chan[c] /\ batch'[c] = batch[c] /\ ~Gone
  BY <1>1, <1>2, <1>3 DEF Flows
<1>4. CASE SendEvent /\ c = ChannelOf(cur) /\ chan'[c] = Append(chan[c], cur)
             /\ batch'[c] = batch[c] /\ ~Gone
  <2>1. cur \in Items
    BY <1>1 DEF Items
  <2>2. VsnsIn(chan'[c]) = VsnsIn(chan[c]) \cup {cur} /\ Increasing(chan'[c])
    BY <1>1, <1>4, <2>1, AppendQueue
  <2> QED
    BY <1>1, <1>2, <1>4, <2>2 DEF Flows
<1>5. ASSUME NEW x \in {FLUSH_BATCH_EVENT, END_OF_QUEUE_SEGMENT_EVENT},
             chan'[c] = Append(chan[c], x), batch'[c] = batch[c], ~Gone
      PROVE  Flows(c)
  <2>1. x \in Items /\ x \notin Nat
    BY ImportAssumption DEF Items
  <2>2. VsnsIn(chan'[c]) = VsnsIn(chan[c]) /\ Increasing(chan'[c])
    <3>1. VsnsIn(chan'[c]) = VsnsIn(chan[c]) \cup ({x} \cap Nat) /\ Increasing(chan'[c])
      BY <1>1, <1>5, <2>1, AppendQueue
    <3> QED
      BY <2>1, <3>1
  <2> QED
    BY <1>1, <1>2, <1>5, <2>2 DEF Flows
<1>6. ASSUME chan[c] # <<>>, chan'[c] = Tail(chan[c])
      PROVE  /\ VsnsIn(chan[c]) = VsnsIn(chan'[c]) \cup ({Head(chan[c])} \cap Nat)
             /\ Increasing(chan'[c])
             /\ Head(chan[c]) \in Nat => \A y \in VsnsIn(chan'[c]) : Head(chan[c]) < y
  BY <1>1, <1>6, TailQueue
<1>7. CASE /\ chan[c] # <<>> /\ Head(chan[c]) \notin Nat
           /\ chan'[c] = Tail(chan[c]) /\ batch'[c] = batch[c] /\ ~Gone
  <2>1. VsnsIn(chan'[c]) = VsnsIn(chan[c])
    BY <1>6, <1>7
  <2> QED
    BY <1>1, <1>2, <1>6, <1>7, <2>1 DEF Flows
<1>8. CASE /\ IgnoreEvent(c) /\ chan[c] # <<>> /\ Head(chan[c]) \in Nat
           /\ chan'[c] = Tail(chan[c]) /\ batch'[c] = batch[c] /\ ~Gone
  <2>1. VsnsIn(chan[c]) = VsnsIn(chan'[c]) \cup {Head(chan[c])}
    BY <1>6, <1>8
  <2> QED
    BY <1>1, <1>2, <1>6, <1>8, <2>1 DEF Flows
<1>9. CASE /\ chan[c] # <<>> /\ Head(chan[c]) \in Nat
           /\ chan'[c] = Tail(chan[c]) /\ batch'[c] = Append(batch[c], Head(chan[c])) /\ ~Gone
  <2>1. VsnsIn(chan[c]) = VsnsIn(chan'[c]) \cup {Head(chan[c])}
    BY <1>6, <1>9
  <2>2. VsnsIn(batch'[c]) = VsnsIn(batch[c]) \cup {Head(chan[c])} /\ Increasing(batch'[c])
    BY <1>1, <1>9, <2>1, AppendQueue
  <2>3. \A x \in VsnsIn(batch'[c]), y \in VsnsIn(chan'[c]) : x < y
    BY <1>1, <1>6, <1>9, <2>1, <2>2
  <2>4. InFlight(c)' = InFlight(c)
    BY <1>2, <2>1, <2>2
  <2> QED
    BY <1>6, <1>9, <2>2, <2>3, <2>4 DEF Flows
<1>10. CASE FinishBatch(c) /\ chan'[c] = chan[c] /\ batch'[c] = <<>> /\ ~Gone
  BY <1>1, <1>2, <1>10, EmptyQueue DEF Flows
<1>11. CASE Gone
  <2>1. chan'[c] = <<>> /\ batch'[c] = <<>>
    BY <1>11, GoneState DEF ProcessGone
  <2> QED
    BY <1>2, <1>11, <2>1, EmptyQueue DEF Flows
<1> QED
  BY <1>3, <1>4, <1>5, <1>7, <1>8, <1>9, <1>10, <1>11, ChannelMoves DEF Moves

\* The event at hand only moves forward while the process runs.
LEMMA CursorStep ==
  ASSUME IInv, [Next]_vars
  PROVE  (NextSegment /\ Idle) \/ Gone \/ cur' = cur \/ (SendEvent /\ cur' = cur + 1)
           \/ (ReadEvent /\ cur' = cur + 1 /\ cur \notin DataVsns)
<1>1. CASE ReadEvent
  <2>1. cur' = cur \/ (cur' = cur + 1 /\ log[cur].Op = "cutover.other")
    BY <1>1 DEF ReadEvent
  <2>2. log[cur].Op = "cutover.other" => cur \notin DataVsns
    BY DEF DataVsns, IsCutoverEvent, CutoverOps
  <2> QED
    BY <1>1, <2>1, <2>2
<1>2. CASE NextSegment
  BY <1>2 DEF NextSegment, Idle
<1>3. CASE SendEvent
  BY <1>3 DEF SendEvent
<1> QED
  BY <1>1, <1>2, <1>3, Writers DEF Writes

\* The event that SendEvent sends is a data event.
LEMMA SentEvent ==
  ASSUME IInv, SendEvent
  PROVE  cur \in DataVsns /\ ChannelOf(cur) \in Channels /\ cur \in Nat /\ cur' = cur + 1
BY DataVsnType DEF IInv, InvCurrent, InvLog, SendEvent

\* A step keeps channels and batches in commit order.
LEMMA QueuesStep ==
  ASSUME IInv, [Next]_vars
  PROVE  InvQueues'
<1> SUFFICES ASSUME NEW c \in Channels
             PROVE  /\ Increasing(batch'[c]) /\ Increasing(chan'[c])
                    /\ \A x \in VsnsIn(batch'[c]), y \in VsnsIn(chan'[c]) : x < y
                    /\ \A v \in InFlight(c)' : v \in DataVsns' /\ ChannelOf(v)' = c /\ v < cur'
  BY DEF InvQueues
<1>1. DataVsns' = DataVsns /\ \A v : ChannelOf(v)' = ChannelOf(v)
  BY Writers, SameLog DEF Writes
<1>2. cur \in Nat /\ \A v \in InFlight(c) : v \in DataVsns /\ ChannelOf(v) = c /\ v < cur /\ v \in Nat
  BY DEF IInv, TypeOK, TypeMain, InvQueues, InFlight, VsnsIn
<1>3. ASSUME NEW v \in InFlight(c)'
      PROVE  v \in DataVsns /\ ChannelOf(v) = c /\ v < cur'
  <2>1. CASE SendEvent /\ c = ChannelOf(cur) /\ InFlight(c)' = InFlight(c) \cup {cur}
    BY <1>2, <1>3, <2>1, SentEvent
  <2>2. CASE InFlight(c)' \subseteq InFlight(c)
    <3>1. ~Idle
      BY <1>3, <2>2, EmptyQueue DEF IInv, InvIdle, InFlight
    <3>2. ~Gone
      BY <1>3, Flow DEF Flows
    <3> QED
      BY <1>2, <1>3, <2>2, <3>1, <3>2, CursorStep
  <2> QED
    BY <2>1, <2>2, Flow DEF Flows
<1> QED
  BY <1>1, <1>3, Flow DEF Flows

\* An event leaves its channel only when it is applied, or with the process.
LEMMA LeavesApplied ==
  ASSUME IInv, [Next]_vars, ~Gone, NEW c \in Channels, NEW v \in InFlight(c)
  PROVE  v \in applied' \cup InFlight(c)'
<1>1. v \in DataVsns /\ ChannelOf(v) = c /\ applied \subseteq applied'
  BY AppliedStep DEF IInv, InvQueues
<1>2. CASE IgnoreEvent(c) /\ v = Head(chan[c])
  BY <1>1, <1>2 DEF IgnoreEvent, IInv, InvVsn
<1>3. CASE FinishBatch(c) /\ v \in VsnsIn(batch[c])
  BY <1>1, <1>3 DEF FinishBatch, IInv, InvWorkers
<1> QED
  BY <1>2, <1>3, Flow DEF Flows

\* A step that leaves the process idle leaves its channels and workers empty.
LEMMA IdleStep ==
  ASSUME IInv, [Next]_vars
  PROVE  InvIdle'
<1> USE DEF Idle
<1>1. CASE Gone
  BY <1>1, GoneState DEF ProcessGone, InvIdle
<1>2. CASE MarkSegmentProcessed
  <2>1. \A c \in Channels : chan[c] = <<>> /\ batch[c] = <<>>
    BY <1>2 DEF MarkSegmentProcessed, IInv, InvWorkers, InvEnd
  <2> QED
    BY <1>2, <2>1 DEF MarkSegmentProcessed, InvIdle
<1>3. CASE StartStreaming
  BY <1>3 DEF StartStreaming, workVars, IInv, InvIdle
<1>4. CASE Idle /\ ~Gone /\ ~NextSegment /\ ~MarkSegmentProcessed
  <2>1. \A c \in Channels : /\ chan[c] = <<>> /\ batch[c] = <<>>
                            /\ wpc[c] = "off" /\ endOfProcessing[c] = FALSE
    BY <1>4 DEF IInv, InvIdle
  <2>2. ~WaitUntilNoConflict /\ ~SendEvent /\ ~SendEndOfSegment
    BY <1>4 DEF WaitUntilNoConflict, SendEvent, SendEndOfSegment
  <2>3. \A c \in Channels :
          /\ ~ReceiveEvent(c) /\ ~IgnoreEvent(c) /\ ~ReceiveFlush(c) /\ ~ReceiveEndOfSegment(c)
          /\ ~Timeout(c) /\ ~ExecuteBatch(c) /\ ~ExecuteBatchError(c)
          /\ ~CheckAlreadyImported(c) /\ ~FinishBatch(c)
    BY <2>1 DEF ReceiveEvent, IgnoreEvent, ReceiveFlush, ReceiveEndOfSegment, Timeout,
                ExecuteBatch, ExecuteBatchError, CheckAlreadyImported, FinishBatch
  <2>4. UNCHANGED <<chan, batch, wpc, endOfProcessing>>
    BY <1>4, <2>2, <2>3, Writers DEF Writes
  <2> QED
    BY <2>1, <2>4 DEF InvIdle
<1>5. CASE ~Idle /\ ~Gone /\ ~MarkSegmentProcessed
  <2>1. ~Idle'
    <3>1. CASE Main
      BY <1>5, <3>1 DEF Main, StartStreaming, NextSegment, ReadEvent, ReadEndOfSegment,
                   WaitUntilNoConflict, Put, SendEvent, SendEndOfSegment, Drained
    <3>2. ASSUME NEW c \in Channels, IgnoreEvent(c) \/ FinishBatch(c)
          PROVE  ~Idle'
      BY <1>5, <3>2 DEF IgnoreEvent, FinishBatch, RemoveEvents
    <3> QED
      BY <1>5, <3>1, <3>2, Writers DEF Writes
  <2> QED
    BY <2>1 DEF InvIdle
<1>6. CASE NextSegment
  BY <1>6 DEF NextSegment, InvIdle
<1> QED
  BY <1>1, <1>2, <1>3, <1>4, <1>5, <1>6

-----------------------------------------------------------------------------
(* Every event read is applied or in flight, and waited for its conflicts. *)

\* The process leaves its idle states only to stream the next segment.
LEMMA LeaveIdle ==
  ASSUME IInv, [Next]_vars, Idle, ~NextSegment
  PROVE  Idle'
<1> USE DEF Idle
<1>1. CASE Main
  BY <1>1 DEF Main, StartStreaming, NextSegment, ReadEvent, ReadEndOfSegment,
              WaitUntilNoConflict, Put, SendEvent, SendEndOfSegment, Drained, MarkSegmentProcessed
<1>2. \A c \in Channels : ~IgnoreEvent(c) /\ ~FinishBatch(c)
  BY DEF IInv, InvIdle, IgnoreEvent, FinishBatch
<1>3. CASE Gone
  BY <1>3, GoneState DEF ProcessGone
<1> QED
  BY <1>1, <1>2, <1>3, Writers DEF Writes

\* When a segment is opened, all events of earlier segments are applied.
LEMMA SegmentStart ==
  ASSUME IInv, NextSegment, NEW v \in DataVsns, v < cur'
  PROVE  v \in applied
<1>1. PICK s \in Vsns : /\ SegmentNumToStream(s) /\ seg' = s /\ cur' = FirstVsn(s)
  BY DEF NextSegment
<1>2. s \in Nat /\ s >= 1 /\ s - 1 \in Nat /\ v \in Nat /\ v >= 1 /\ seg \in Nat
  BY DataVsnType DEF IInv, InvLog, TypeOK, TypeMain, Vsns, DataVsns
<1>3. v <= LastVsn(s - 1)
  BY <1>1, <1>2, Constants DEF FirstVsn
<1>4. CASE s - 1 \in processed
  BY <1>3, <1>4 DEF IInv, InvSegments
<1>5. CASE s - 1 \notin processed
  <2>1. seg = 0 /\ s = 1
    <3>1. CASE seg # 0
      <4>1. s - 1 = seg /\ seg \in processed
        BY <1>1, <1>2, <3>1 DEF SegmentNumToStream, NextSegment, IInv, InvSegments
      <4> QED
        BY <1>5, <4>1
    <3>2. CASE seg = 0
      <4>1. 1 .. s - 1 \subseteq processed
        BY <1>1, <3>2 DEF SegmentNumToStream, FirstUnprocessed
      <4>2. s - 1 \notin 1 .. s - 1
        BY <1>5, <4>1
      <4> QED
        BY <1>2, <3>2, <4>2
    <3> QED
      BY <3>1, <3>2
  <2>2. LastVsn(0) = 0
    BY ImportAssumption DEF LastVsn
  <2> QED
    BY <1>2, <1>3, <2>1, <2>2
<1> QED
  BY <1>4, <1>5

\* A step loses no event that was read: it stays in flight or is applied.
LEMMA DispatchedStep ==
  ASSUME IInv, [Next]_vars
  PROVE  InvDispatched'
<1>1. DataVsns' = DataVsns /\ (\A v : ChannelOf(v)' = ChannelOf(v)) /\ applied \subseteq applied'
  BY Writers, SameLog, AppliedStep DEF Writes
<1> SUFFICES ASSUME ~Idle', NEW v \in DataVsns, v < cur'
             PROVE  v \in applied' \cup InFlight(ChannelOf(v))'
  BY <1>1 DEF InvDispatched
<1>2. v \in Nat /\ ChannelOf(v) \in Channels /\ cur \in Nat
  BY DataVsnType DEF IInv, InvLog, TypeOK, TypeMain
<1>3. ~Gone
  BY GoneState DEF ProcessGone, Idle
<1>4. CASE NextSegment
  BY <1>1, <1>4, SegmentStart
<1>5. CASE ~NextSegment /\ v < cur
  <2>1. v \in applied \cup InFlight(ChannelOf(v))
    BY <1>5, LeaveIdle DEF IInv, InvDispatched
  <2> QED
    BY <1>1, <1>2, <1>3, <2>1, LeavesApplied
<1>6. CASE SendEvent /\ v = cur
  <2>1. chan[ChannelOf(v)] \in Seq(Items) /\ chan'[ChannelOf(v)] = Append(chan[ChannelOf(v)], v)
    BY <1>2, <1>6 DEF SendEvent, IInv, TypeOK, TypeChannels
  <2>2. v \in Items
    BY <1>2 DEF Items
  <2>3. v \in VsnsIn(chan'[ChannelOf(v)])
    BY <1>2, <2>1, <2>2, AppendQueue
  <2> QED
    BY <1>1, <2>3 DEF InFlight
<1> QED
  BY <1>2, <1>3, <1>4, <1>5, <1>6, CursorStep

\* A step lets no event into flight before what may block it is applied.
LEMMA SettledStep ==
  ASSUME IInv, [Next]_vars
  PROVE  InvSettled'
<1>1. /\ DataVsns' = DataVsns /\ (\A f, e : Blocks(f, e)' = Blocks(f, e))
      /\ applied \subseteq applied'
  BY Writers, SameLog, AppliedStep DEF Writes
<1> SUFFICES ASSUME NEW c \in Channels, NEW e \in InFlight(c)', NEW f \in DataVsns,
                    f < e, Blocks(f, e)
             PROVE  f \in applied
  BY <1>1 DEF InvSettled
<1>2. CASE e \in InFlight(c)
  BY <1>2 DEF IInv, InvSettled
<1>3. CASE SendEvent /\ e = cur
  BY <1>3 DEF SendEvent, IInv, InvCurrent
<1> QED
  BY <1>2, <1>3, Flow DEF Flows

\* When WaitUntilNoConflict lets an event pass, what blocks it is applied.
LEMMA NothingBlocks ==
  ASSUME IInv, ~Idle, ConflictingEvents(cur) = {}, NEW f \in DataVsns, f < cur, Blocks(f, cur)
  PROVE  f \in applied
<1>1. ChannelOf(f) \in Channels
  BY DataVsnType DEF IInv, InvLog
<1>2. f \in InFlight(ChannelOf(f)) => f \in cache
  BY <1>1, BlockerIsCached DEF IInv, CacheCoversInFlight, InFlight
<1>3. f \notin cache
  BY BlockerIsCached DEF ConflictingEvents
<1> QED
  BY <1>2, <1>3 DEF IInv, InvDispatched

\* A step of WaitUntilNoConflict, Put or SendEvent keeps what is known of the
\* event at hand.
LEMMA CurrentStep ==
  ASSUME IInv, [Next]_vars
  PROVE  InvCurrent'
<1>1. /\ log' = log /\ DataVsns' = DataVsns /\ (\A f, e : Blocks(f, e)' = Blocks(f, e))
      /\ applied \subseteq applied'
      /\ \A v : Cached(v)' = Cached(v)
  BY Writers, SameLog, AppliedStep DEF Writes, Cached
<1>2. CASE ReadEvent
  <2>1. CASE log[cur].Op \in CutoverOps
    BY <1>2, <2>1 DEF ReadEvent, CutoverOps, DataOps, InvCurrent
  <2>2. CASE log[cur].Op \in DataOps
    <3>1. cur \in DataVsns /\ cur' = cur
      BY <1>2, <2>2 DEF ReadEvent, SegmentVsns, DataVsns, IsCutoverEvent, CutoverOps, DataOps
    <3>2. \/ pc' = "send" /\ ~shouldHandleConflicts
          \/ pc' = "put" /\ log[cur].Op = "d" /\ shouldHandleConflicts
          \/ pc' = "check" /\ log[cur].Op \in {"c", "u"} /\ shouldHandleConflicts
      BY <1>2, <2>2 DEF ReadEvent, CutoverOps, DataOps
    <3>3. pc' \in {"put", "send"} => \A f : ~Blocks(f, cur)
      BY <3>2 DEF Blocks
    <3> QED
      BY <1>1, <3>1, <3>2, <3>3 DEF InvCurrent
  <2> QED
    BY <1>2, <2>1, <2>2 DEF ReadEvent, CutoverOps
<1>3. CASE WaitUntilNoConflict
  <2>1. cur' = cur /\ cur \in DataVsns /\ log[cur].Op \in {"c", "u"} /\ shouldHandleConflicts /\ ~Idle
    BY <1>3 DEF WaitUntilNoConflict, IInv, InvCurrent, Idle
  <2>2. CASE ConflictingEvents(cur) = {} /\ pc' = IF log[cur].Op = "u" THEN "put" ELSE "send"
    <3>1. \A f \in DataVsns : f < cur /\ Blocks(f, cur) => f \in applied
      BY <2>1, <2>2, NothingBlocks
    <3> QED
      BY <1>1, <2>1, <2>2, <3>1 DEF InvCurrent
  <2>3. CASE pc' = "waiting"
    BY <1>1, <2>1, <2>3 DEF InvCurrent
  <2> QED
    BY <1>3, <2>2, <2>3 DEF WaitUntilNoConflict
<1>4. CASE Put
  <2>1. /\ pc' = "send" /\ cur' = cur /\ cur \in DataVsns
        /\ \A f \in DataVsns : f < cur /\ Blocks(f, cur) => f \in applied
        /\ Cached(cur) => cur \in cache'
    BY <1>4 DEF Put, IInv, InvCurrent
  <2> QED
    BY <1>1, <2>1 DEF InvCurrent
<1>5. CASE StartStreaming \/ NextSegment \/ ReadEndOfSegment \/ SendEvent \/ SendEndOfSegment
             \/ Drained \/ MarkSegmentProcessed
  <2>1. pc' \notin {"check", "waiting", "put", "send"}
    BY <1>5 DEF StartStreaming, NextSegment, ReadEndOfSegment, SendEvent, SendEndOfSegment,
                Drained, MarkSegmentProcessed
  <2> QED
    BY <2>1 DEF InvCurrent
<1>6. CASE Gone
  BY <1>6, GoneState DEF ProcessGone, InvCurrent
<1>7. ASSUME NEW d \in Channels, IgnoreEvent(d) \/ FinishBatch(d)
      PROVE  InvCurrent'
  <2>1. cur \notin InFlight(d) /\ cur' = cur /\ cur \in Nat
    BY <1>7 DEF IgnoreEvent, FinishBatch, IInv, InvQueues, TypeOK, TypeMain
  <2>2. PICK vs \in {{Head(chan[d])}, VsnsIn(batch[d])} : RemoveEvents(vs) /\ vs \subseteq InFlight(d)
    <3>1. CASE FinishBatch(d)
      BY <3>1 DEF FinishBatch, InFlight
    <3>2. CASE IgnoreEvent(d)
      <4>1. chan[d] \in Seq(Items) /\ chan[d] # <<>> /\ Head(chan[d]) \in Nat
        BY <3>2 DEF IgnoreEvent, IInv, TypeOK, TypeChannels
      <4>2. Head(chan[d]) \in VsnsIn(chan[d])
        BY <4>1, TailQueue
      <4> QED
        BY <3>2, <4>2 DEF IgnoreEvent, InFlight
    <3> QED
      BY <1>7, <3>1, <3>2
  <2>3. cur \in cache => cur \in cache'
    BY <2>1, <2>2 DEF RemoveEvents
  <2>4. pc' = pc \/ (pc = "waiting" /\ pc' = "check")
    BY <2>2 DEF RemoveEvents
  <2> QED
    BY <1>1, <2>1, <2>3, <2>4 DEF IInv, InvCurrent
<1>8. CASE UNCHANGED <<pc, cache, cur>>
  BY <1>1, <1>8 DEF IInv, InvCurrent
<1> QED
  BY <1>2, <1>3, <1>4, <1>5, <1>6, <1>7, <1>8, Writers DEF Writes, Main

\* A step removes from the cache only events that are no longer in flight.
LEMMA CacheStep ==
  ASSUME IInv, [Next]_vars
  PROVE  CacheCoversInFlight'
<1>1. log' = log
  BY Writers DEF Writes
<1> SUFFICES ASSUME NEW c \in Channels, NEW v \in InFlight(c)', shouldHandleConflicts,
                    log[v].Op \in {"u", "d"}, EventBuckets(log[v]) # {}
             PROVE  v \in cache'
  BY <1>1 DEF CacheCoversInFlight, InFlight
<1>2. CASE SendEvent /\ v = cur
  BY <1>2 DEF SendEvent, IInv, InvCurrent, Cached
<1>3. CASE v \in InFlight(c) /\ ~Gone
  <2>1. v \in cache /\ v \in DataVsns /\ ChannelOf(v) = c /\ v \in Nat
    BY <1>3 DEF IInv, CacheCoversInFlight, InvQueues, InFlight, VsnsIn
  <2>2. CASE UNCHANGED cache \/ Put
    BY <2>1, <2>2 DEF Put
  <2>3. CASE StartStreaming
    BY <1>3, <2>3, EmptyQueue DEF StartStreaming, IInv, InvIdle, Idle, InFlight
  <2>4. ASSUME NEW d \in Channels, IgnoreEvent(d)
        PROVE  v \in cache'
    <3>1. /\ chan[d] \in Seq(Items) /\ chan[d] # <<>> /\ Head(chan[d]) \in Nat
          /\ chan' = [chan EXCEPT ![d] = Tail(@)] /\ batch' = batch
          /\ cache' = cache \ {Head(chan[d])}
      BY <2>4 DEF IgnoreEvent, RemoveEvents, IInv, TypeOK, TypeChannels, workVars
    <3>2. Head(chan[d]) \in VsnsIn(chan[d])
      BY <3>1, TailQueue
    <3>3. CASE d # c
      BY <2>1, <3>1, <3>2, <3>3 DEF IInv, InvQueues, InFlight
    <3>4. CASE d = c
      <4>1. chan'[c] = Tail(chan[c]) /\ batch'[c] = batch[c]
        BY <3>1, <3>4 DEF IInv, TypeOK, TypeChannels
      <4>2. \A y \in VsnsIn(chan'[c]) : Head(chan[c]) < y
        BY <3>1, <3>4, <4>1, TailQueue DEF IInv, InvQueues
      <4>3. \A x \in VsnsIn(batch[c]) : x < Head(chan[c])
        BY <3>2, <3>4 DEF IInv, InvQueues
      <4>4. v \in VsnsIn(batch[c]) \cup VsnsIn(chan'[c])
        BY <4>1 DEF InFlight
      <4>5. v # Head(chan[c])
        BY <2>1, <4>2, <4>3, <4>4
      <4> QED
        BY <2>1, <3>1, <3>4, <4>5
    <3> QED
      BY <3>3, <3>4
  <2>5. ASSUME NEW d \in Channels, FinishBatch(d)
        PROVE  v \in cache'
    <3>1. /\ chan' = chan /\ batch' = [batch EXCEPT ![d] = <<>>]
          /\ cache' = cache \ VsnsIn(batch[d])
      BY <2>5 DEF FinishBatch, RemoveEvents
    <3>2. CASE d # c
      BY <2>1, <3>1, <3>2 DEF IInv, InvQueues, InFlight
    <3>3. CASE d = c
      <4>1. v \in VsnsIn(chan[c])
        BY <3>1, <3>3, EmptyQueue DEF InFlight, IInv, TypeOK, TypeWorkers
      <4>2. v \notin VsnsIn(batch[c])
        BY <2>1, <4>1 DEF IInv, InvQueues
      <4> QED
        BY <2>1, <3>1, <3>3, <4>2
    <3> QED
      BY <3>2, <3>3
  <2> QED
    BY <1>3, <2>2, <2>3, <2>4, <2>5, Writers DEF Writes
<1> QED
  BY <1>2, <1>3, Flow DEF Flows

-----------------------------------------------------------------------------
(* Workers, end markers and segments.                                      *)

\* A step keeps each worker's phase consistent with its batch.
LEMMA WorkerStep ==
  ASSUME IInv, [Next]_vars
  PROVE  InvWorkers'
<1>1. applied \subseteq applied'
  BY AppliedStep
<1>2. CASE Gone
  BY <1>2, GoneState DEF ProcessGone, InvWorkers
<1>3. CASE NextSegment
  <2>1. /\ pc' = "read" /\ UNCHANGED batch /\ wpc' = [c \in Channels |-> "batching"]
        /\ \A c \in Channels : batch[c] = <<>>
    BY <1>3 DEF NextSegment, IInv, InvIdle, Idle
  <2>2. Len(<<>>) < MAX_EVENTS_PER_BATCH
    BY Constants
  <2> QED
    BY <2>1, <2>2 DEF InvWorkers
<1>4. CASE MarkSegmentProcessed
  <2>1. \A c \in Channels : batch[c] = <<>>
    BY <1>4 DEF MarkSegmentProcessed, IInv, InvWorkers
  <2> QED
    BY <1>4, <2>1 DEF MarkSegmentProcessed, InvWorkers
<1>5. CASE Drained
  <2>1. /\ UNCHANGED <<wpc, batch, endOfProcessing>>
        /\ \A c \in Channels : wpc[c] = "done"
    BY <1>5 DEF Drained, ProcessingDone, workVars
  <2> QED
    BY <1>1, <2>1 DEF IInv, InvWorkers
<1>6. CASE Main /\ ~NextSegment /\ ~MarkSegmentProcessed /\ ~Drained
  <2>1. UNCHANGED <<wpc, batch, endOfProcessing>> /\ pc' # "mark"
    BY <1>6 DEF Main, StartStreaming, ReadEvent, ReadEndOfSegment, WaitUntilNoConflict, Put,
                SendEvent, SendEndOfSegment, workVars
  <2> QED
    BY <1>1, <2>1 DEF IInv, InvWorkers
<1>7. ASSUME NEW d \in Channels,
             \/ ReceiveEvent(d) \/ ReceiveFlush(d) \/ ReceiveEndOfSegment(d)
             \/ Timeout(d) \/ ExecuteBatch(d) \/ ExecuteBatchError(d)
             \/ CheckAlreadyImported(d) \/ FinishBatch(d)
      PROVE  InvWorkers'
  <2>1. pc' # "mark"
    <3>1. pc # "mark"
      BY <1>7 DEF IInv, InvWorkers, ReceiveEvent, ReceiveFlush, ReceiveEndOfSegment, Timeout,
                  ExecuteBatch, ExecuteBatchError, CheckAlreadyImported, FinishBatch
    <3>2. pc' = pc \/ pc' = "check"
      BY <1>7 DEF ReceiveEvent, ReceiveFlush, ReceiveEndOfSegment, Timeout, ExecuteBatch,
                  ExecuteBatchError, CheckAlreadyImported, FinishBatch, RemoveEvents, mainVars
    <3> QED
      BY <3>1, <3>2
  <2>2. ASSUME NEW c \in Channels, c # d
        PROVE  wpc'[c] = wpc[c] /\ batch'[c] = batch[c] /\ endOfProcessing'[c] = endOfProcessing[c]
    BY <1>7, <2>2 DEF ReceiveEvent, ReceiveFlush, ReceiveEndOfSegment, Timeout, ExecuteBatch,
         ExecuteBatchError, CheckAlreadyImported, FinishBatch, workVars, IInv, TypeOK, TypeWorkers
  <2>3. /\ wpc'[d] = "batching" => Len(batch'[d]) < MAX_EVENTS_PER_BATCH
        /\ wpc'[d] \in {"exec", "retry", "applied"} => batch'[d] # <<>>
        /\ wpc'[d] = "applied" => VsnsIn(batch'[d]) \subseteq applied'
        /\ wpc'[d] \in {"off", "done"} => batch'[d] = <<>>
        /\ wpc'[d] = "done" => endOfProcessing'[d]
    <3> USE DEF IInv, TypeOK, TypeWorkers
    <3>1. CASE ReceiveEvent(d)
      <4>1. batch[d] \in Seq(Nat) /\ Head(chan[d]) \in Nat
        BY <3>1 DEF ReceiveEvent
      <4>2. /\ Append(batch[d], Head(chan[d])) # <<>>
            /\ Len(Append(batch[d], Head(chan[d]))) = Len(batch[d]) + 1
            /\ Len(batch[d]) \in Nat
        <5> HIDE DEF IInv, TypeOK, TypeWorkers
        <5> QED
          BY <4>1, AppendProperties, LenProperties
      <4>3. /\ batch'[d] = Append(batch[d], Head(chan[d]))
            /\ wpc'[d] = IF Len(batch[d]) + 1 >= MAX_EVENTS_PER_BATCH THEN "exec" ELSE "batching"
        BY <3>1 DEF ReceiveEvent
      <4>4. Len(batch[d]) + 1 >= MAX_EVENTS_PER_BATCH \/ Len(batch[d]) + 1 < MAX_EVENTS_PER_BATCH
        <5>1. \A m, n \in Nat : n + 1 >= m \/ n + 1 < m
          OBVIOUS
        <5>2. MAX_EVENTS_PER_BATCH \in Nat
          BY Constants
        <5> QED
          BY <4>2, <5>1, <5>2
      <4> QED
        BY <4>2, <4>3, <4>4
    <3>2. CASE ReceiveFlush(d) \/ ReceiveEndOfSegment(d)
      <4>1. /\ batch'[d] = batch[d]
            /\ \/ wpc'[d] = "exec" /\ batch[d] # <<>>
               \/ wpc'[d] = "batching" /\ batch[d] = <<>>
               \/ wpc'[d] = "done" /\ batch[d] = <<>> /\ endOfProcessing'[d]
        BY <3>2 DEF ReceiveFlush, ReceiveEndOfSegment, AfterBatching
      <4>2. Len(<<>>) < MAX_EVENTS_PER_BATCH
        BY Constants
      <4> QED
        BY <4>1, <4>2
    <3>3. CASE Timeout(d) \/ ExecuteBatchError(d)
      BY <3>3 DEF Timeout, ExecuteBatchError, InvWorkers
    <3>4. CASE ExecuteBatch(d)
      BY <3>4 DEF ExecuteBatch, Commit, InvWorkers
    <3>5. CASE CheckAlreadyImported(d)
      <4>1. batch'[d] = batch[d] /\ batch[d] # <<>> /\ batch[d] \in Seq(Nat)
        BY <3>5 DEF CheckAlreadyImported, InvWorkers
      <4>2. CASE wpc'[d] = "exec"
        BY <4>1, <4>2
      <4>3. CASE wpc'[d] = "applied" /\ AlreadyImported(d)
        <5>1. \A v \in VsnsIn(batch[d]) : /\ v <= GetLastVsn(batch[d]) /\ v \in DataVsns
                                          /\ ChannelOf(v) = d /\ v \in Nat
          BY <4>1, LastOfBatch DEF InvQueues, InFlight, VsnsIn
        <5>2. lastVsn[d] \in Int /\ GetLastVsn(batch[d]) \in Nat
          BY <4>1, LastOfBatch DEF TypeDatabases, VsnsIn
        <5>3. \A v \in VsnsIn(batch[d]) : v \in applied
          BY <4>3, <5>1, <5>2 DEF AlreadyImported, InvVsn, NoEventSkipped
        <5> QED
          BY <1>1, <4>1, <4>3, <5>3
      <4> QED
        BY <3>5, <4>2, <4>3 DEF CheckAlreadyImported
    <3>6. CASE FinishBatch(d)
      <4>1. batch'[d] = <<>> /\ wpc'[d] = IF endOfProcessing[d] THEN "done" ELSE "batching"
        BY <3>6 DEF FinishBatch
      <4>2. Len(<<>>) < MAX_EVENTS_PER_BATCH /\ endOfProcessing'[d] = endOfProcessing[d]
        BY <3>6, Constants DEF FinishBatch
      <4> QED
        BY <4>1, <4>2
    <3> QED
      BY <1>7, <3>1, <3>2, <3>3, <3>4, <3>5, <3>6
  <2> QED
    BY <1>1, <2>1, <2>2, <2>3 DEF IInv, InvWorkers
<1>8. CASE UNCHANGED <<wpc, batch, endOfProcessing, pc>>
  BY <1>1, <1>8 DEF IInv, InvWorkers
<1>9. ASSUME NEW d \in Channels, IgnoreEvent(d)
      PROVE  InvWorkers'
  <2>1. UNCHANGED <<wpc, batch, endOfProcessing>> /\ (pc' = pc \/ pc' = "check")
    BY <1>9 DEF IgnoreEvent, RemoveEvents, workVars
  <2> QED
    BY <1>1, <2>1 DEF IInv, InvWorkers
<1> QED
  BY <1>2, <1>3, <1>4, <1>5, <1>6, <1>7, <1>8, <1>9, Writers DEF Writes

\* A step keeps the end marker the last item of a channel.
LEMMA EndStep ==
  ASSUME IInv, [Next]_vars
  PROVE  InvEnd'
<1> SUFFICES ASSUME NEW c \in Channels
             PROVE  /\ EndIsLast(chan'[c])
                    /\ ~Ended(c)' => NoEnd(chan'[c])
                    /\ endOfProcessing'[c] => Ended(c)' /\ chan'[c] = <<>>
  BY DEF InvEnd
<1>1. /\ EndIsLast(chan[c]) /\ (~Ended(c) => NoEnd(chan[c]))
      /\ endOfProcessing[c] => Ended(c) /\ chan[c] = <<>>
  BY DEF IInv, InvEnd
<1>2. chan[c] \in Seq(Items) /\ c \in Nat /\ idx \in Channels /\ idx \in Nat
  BY Constants DEF IInv, TypeOK, TypeChannels, TypeMain
<1>3. CASE Idle'
  <2>1. chan'[c] = <<>> /\ endOfProcessing'[c] = FALSE
    BY <1>3, IdleStep DEF InvIdle
  <2> QED
    BY <2>1, EmptyQueue
<1>4. CASE NextSegment
  <2>1. chan'[c] = <<>> /\ endOfProcessing'[c] = FALSE
    BY <1>4 DEF NextSegment, IInv, InvIdle, Idle
  <2> QED
    BY <2>1, EmptyQueue
<1>5. CASE SendEndOfSegment
  <2>1. endOfProcessing' = endOfProcessing /\ pc = "end"
    BY <1>5 DEF SendEndOfSegment, workVars
  <2>2. (c <= idx => Ended(c)') /\ (Ended(c) <=> c < idx)
    BY <1>2, <1>5 DEF SendEndOfSegment, Ended
  <2>3. CASE c = idx
    <3>1. ~Ended(c)
      BY <1>2, <2>2, <2>3
    <3>2. chan'[c] = Append(chan[c], END_OF_QUEUE_SEGMENT_EVENT)
      BY <1>5, <2>3 DEF SendEndOfSegment, IInv, TypeOK, TypeChannels
    <3>3. EndIsLast(chan'[c])
      BY <1>1, <1>2, <3>1, <3>2, AppendQueue DEF Items
    <3>4. Ended(c)'
      BY <1>2, <2>2, <2>3
    <3> QED
      BY <1>1, <2>1, <3>1, <3>3, <3>4
  <2>4. CASE c # idx
    <3>1. chan'[c] = chan[c]
      BY <1>5, <2>4 DEF SendEndOfSegment, IInv, TypeOK, TypeChannels
    <3>2. Ended(c) => Ended(c)'
      BY <1>2, <2>2
    <3> QED
      BY <1>1, <2>1, <3>1, <3>2
  <2> QED
    BY <2>3, <2>4
<1>6. CASE ~Idle' /\ ~NextSegment /\ ~SendEndOfSegment
  <2>1. ~Gone /\ ~MarkSegmentProcessed
    BY <1>6, GoneState DEF ProcessGone, MarkSegmentProcessed, Idle
  <2>2. Ended(c)' <=> Ended(c)
    <3>1. CASE ReadEvent \/ ReadEndOfSegment \/ WaitUntilNoConflict \/ Put \/ SendEvent
      <4>1. ~Ended(c)
        BY <3>1 DEF ReadEvent, ReadEndOfSegment, WaitUntilNoConflict, Put, SendEvent, Ended
      <4>2. pc' \in {"read", "check", "waiting", "put", "send"} \/ (pc' = "end" /\ idx' = 0)
        BY <3>1 DEF ReadEvent, ReadEndOfSegment, WaitUntilNoConflict, Put, SendEvent
      <4>3. ~Ended(c)'
        BY <1>2, <4>2 DEF Ended
      <4> QED
        BY <4>1, <4>3
    <3>2. CASE Drained
      BY <3>2 DEF Drained, Ended
    <3>3. CASE StartStreaming
      BY <1>6, <3>3 DEF StartStreaming, Idle
    <3>4. ASSUME NEW d \in Channels, IgnoreEvent(d) \/ FinishBatch(d)
          PROVE  Ended(c)' <=> Ended(c)
      <4>1. idx' = idx /\ (pc' = pc \/ (pc = "waiting" /\ pc' = "check"))
        BY <3>4 DEF IgnoreEvent, FinishBatch, RemoveEvents
      <4> QED
        BY <4>1 DEF Ended
    <3>5. CASE UNCHANGED <<pc, idx>>
      BY <3>5 DEF Ended
    <3> QED
      BY <1>6, <2>1, <3>1, <3>2, <3>3, <3>4, <3>5, Writers DEF Writes, Main
  <2>3. CASE ReceiveEndOfSegment(c)
    <3>1. chan[c] # <<>> /\ Head(chan[c]) = END_OF_QUEUE_SEGMENT_EVENT /\ chan'[c] = Tail(chan[c])
      BY <2>3 DEF ReceiveEndOfSegment, IInv, TypeOK, TypeChannels
    <3>2. chan'[c] = <<>> /\ Ended(c)
      BY <1>1, <1>2, <3>1, TailQueue
    <3> QED
      BY <2>2, <3>2, EmptyQueue
  <2>4. CASE ~ReceiveEndOfSegment(c)
    <3>1. endOfProcessing'[c] = endOfProcessing[c]
      <4>1. ASSUME NEW d \in Channels, ReceiveEndOfSegment(d), d # c
            PROVE  endOfProcessing'[c] = endOfProcessing[c]
        BY <4>1 DEF ReceiveEndOfSegment, IInv, TypeOK, TypeWorkers
      <4> QED
        BY <2>1, <2>4, <4>1, Writers DEF Writes
    <3>2. CASE chan'[c] = chan[c]
      BY <1>1, <2>2, <3>1, <3>2
    <3>3. ASSUME NEW x \in Items, x # END_OF_QUEUE_SEGMENT_EVENT, chan'[c] = Append(chan[c], x),
                 ~Ended(c)
          PROVE  EndIsLast(chan'[c]) /\ NoEnd(chan'[c])
      BY <1>1, <1>2, <3>3, AppendQueue
    <3>4. CASE SendEvent /\ chan'[c] = Append(chan[c], cur)
      <4>1. cur \in Items /\ cur # END_OF_QUEUE_SEGMENT_EVENT /\ ~Ended(c)
        BY <3>4, ImportAssumption DEF Items, IInv, TypeOK, TypeMain, SendEvent, Ended
      <4> QED
        BY <1>1, <2>2, <3>1, <3>3, <3>4, <4>1
    <3>5. CASE WaitUntilNoConflict /\ chan'[c] = Append(chan[c], FLUSH_BATCH_EVENT)
      <4>1. /\ FLUSH_BATCH_EVENT \in Items /\ FLUSH_BATCH_EVENT # END_OF_QUEUE_SEGMENT_EVENT
            /\ ~Ended(c)
        BY <3>5, ImportAssumption DEF Items, WaitUntilNoConflict, Ended
      <4> QED
        BY <1>1, <2>2, <3>1, <3>3, <3>5, <4>1
    <3>6. CASE chan[c] # <<>> /\ chan'[c] = Tail(chan[c])
      BY <1>1, <1>2, <2>2, <3>1, <3>6, TailQueue
    <3> QED
      BY <1>6, <2>1, <2>4, <3>2, <3>4, <3>5, <3>6, ChannelMoves DEF Moves
  <2> QED
    BY <2>3, <2>4
<1> QED
  BY <1>3, <1>4, <1>5, <1>6

\* When a segment is marked, everything before the event at hand is applied.
LEMMA DrainedApplied ==
  ASSUME IInv, MarkSegmentProcessed
  PROVE  /\ \A v \in DataVsns : v < cur => v \in applied
         /\ seg \in Nat /\ seg >= 1
         /\ \A v \in DataVsns : v <= LastVsn(seg) => v \in applied
<1>1. \A c \in Channels : InFlight(c) = {}
  BY EmptyQueue DEF MarkSegmentProcessed, IInv, InvWorkers, InvEnd, InFlight
<1>2. ~Idle /\ pc = "mark"
  BY DEF MarkSegmentProcessed, Idle
<1>3. \A v \in DataVsns : v \in Nat /\ ChannelOf(v) \in Channels
  BY DataVsnType DEF IInv, InvLog
<1>4. \A v \in DataVsns : v < cur => v \in applied
  BY <1>1, <1>2, <1>3 DEF IInv, InvDispatched
<1>5. seg \in Nat /\ seg >= 1 /\ cur \in Nat /\ LastVsn(seg) \in Nat
  BY <1>2, Constants DEF IInv, InvSegments, TypeOK, TypeMain
<1>6. ASSUME NEW v \in DataVsns, v <= LastVsn(seg)
      PROVE  v < cur
  <2>1. CASE cur > LastVsn(seg)
    BY <1>3, <1>5, <1>6, <2>1
  <2>2. CASE cur \in SegmentVsns(seg) /\ log[cur].Op = "cutover.own"
    <3>1. cur = Len(log) /\ Len(log) \in Nat
      <4>1. log \in Logs /\ cur \in 1 .. Len(log)
        BY <2>2 DEF SegmentVsns, Vsns, IInv, InvLog
      <4>2. Len(log) \in Nat
        BY <4>1, LogType, LenProperties
      <4> QED
        BY <2>2, <4>1, <4>2, ImportAssumption
    <3>2. v # cur
      BY <1>6, <2>2 DEF DataVsns, IsCutoverEvent, CutoverOps
    <3> QED
      BY <1>3, <1>6, <3>1, <3>2 DEF DataVsns, Vsns
  <2> QED
    BY <1>2, <2>1, <2>2 DEF IInv, InvSegments
<1> QED
  BY <1>4, <1>5, <1>6

\* A step marks a segment only when all its events are applied.
LEMMA SegmentsStep ==
  ASSUME IInv, [Next]_vars
  PROVE  InvSegments'
<1>1. /\ log' = log /\ DataVsns' = DataVsns /\ (\A s : SegmentVsns(s)' = SegmentVsns(s))
      /\ applied \subseteq applied'
  BY Writers, SameLog, AppliedStep DEF Writes
<1>2. \A s \in processed' : s >= 1 /\ (\A v \in DataVsns : v <= LastVsn(s) => v \in applied')
  <2>1. CASE MarkSegmentProcessed
    <3>1. processed' = processed \cup {seg}
      BY <2>1 DEF MarkSegmentProcessed
    <3> QED
      BY <1>1, <2>1, <3>1, DrainedApplied DEF IInv, InvSegments
  <2>2. CASE UNCHANGED processed
    BY <1>1, <2>2 DEF IInv, InvSegments
  <2> QED
    BY <2>1, <2>2, Writers DEF Writes
<1>3. ~Idle' => seg' >= 1 /\ cur' >= FirstVsn(seg')
  <2> SUFFICES ASSUME ~Idle'
               PROVE  seg' >= 1 /\ cur' >= FirstVsn(seg')
    OBVIOUS
  <2>1. CASE NextSegment
    <3>1. PICK s \in Vsns : seg' = s /\ cur' = FirstVsn(s)
      BY <2>1 DEF NextSegment
    <3>2. s \in Nat /\ s >= 1 /\ FirstVsn(s) \in Nat
      BY Constants DEF Vsns
    <3> QED
      BY <3>1, <3>2
  <2>2. CASE ~NextSegment
    <3>1. ~Idle /\ ~Gone
      BY <2>2, LeaveIdle, GoneState DEF ProcessGone, Idle
    <3>2. seg' = seg /\ seg \in Nat /\ cur \in Nat /\ seg >= 1 /\ cur >= FirstVsn(seg)
      BY <2>2, <3>1, Writers DEF Writes, IInv, InvSegments, TypeOK, TypeMain
    <3>3. FirstVsn(seg) \in Nat
      BY <3>2, Constants
    <3>4. cur' = cur \/ cur' = cur + 1
      BY <2>2, <3>1, CursorStep
    <3> QED
      BY <3>2, <3>3, <3>4
  <2> QED
    BY <2>1, <2>2
<1>4. pc' = "down" => seg' = 0
  <2>1. CASE Gone
    BY <2>1, GoneState DEF ProcessGone
  <2>2. CASE pc' = "down" /\ ~Gone
    <3>1. ~Main
      BY <2>2 DEF Main, StartStreaming, NextSegment, ReadEvent, ReadEndOfSegment,
                  WaitUntilNoConflict, Put, SendEvent, SendEndOfSegment, Drained, MarkSegmentProcessed
    <3>2. pc = "down"
      <4>1. ASSUME NEW d \in Channels, IgnoreEvent(d) \/ FinishBatch(d)
            PROVE  pc = "down"
        BY <2>2, <4>1 DEF IgnoreEvent, FinishBatch, RemoveEvents
      <4> QED
        BY <2>2, <3>1, <4>1, Writers DEF Writes
    <3>3. seg' = seg
      BY <2>2, <3>1, Writers DEF Writes, Main
    <3> QED
      BY <3>2, <3>3 DEF IInv, InvSegments
  <2> QED
    BY <2>1, <2>2
<1>5. pc' = "next" /\ seg' # 0 => seg' \in processed'
  <2> SUFFICES ASSUME pc' = "next", seg' # 0
               PROVE  seg' \in processed'
    OBVIOUS
  <2>1. ~Gone /\ ~NextSegment
    BY GoneState DEF ProcessGone, NextSegment
  <2>2. seg' = seg
    BY <2>1, Writers DEF Writes
  <2>3. CASE MarkSegmentProcessed
    BY <2>2, <2>3 DEF MarkSegmentProcessed
  <2>4. CASE StartStreaming
    BY <2>2, <2>4 DEF StartStreaming, IInv, InvSegments
  <2>5. CASE ~MarkSegmentProcessed /\ ~StartStreaming
    <3>1. ~Main
      BY <2>1, <2>5 DEF Main, NextSegment, ReadEvent, ReadEndOfSegment,
                  WaitUntilNoConflict, Put, SendEvent, SendEndOfSegment, Drained
    <3>2. pc = "next"
      <4>1. ASSUME NEW d \in Channels, IgnoreEvent(d) \/ FinishBatch(d)
            PROVE  pc = "next"
        BY <4>1 DEF IgnoreEvent, FinishBatch, RemoveEvents
      <4> QED
        BY <2>1, <3>1, <4>1, Writers DEF Writes
    <3> QED
      BY <2>2, <2>5, <3>2, Writers DEF Writes, IInv, InvSegments
  <2> QED
    BY <2>3, <2>4, <2>5
<1>6. ASSUME pc' \in {"end", "drain", "mark"}
      PROVE  \/ cur' \in SegmentVsns(seg') /\ log[cur'].Op = "cutover.own"
             \/ cur' > LastVsn(seg')
  <2>1. ~Gone /\ ~NextSegment /\ ~SendEvent
    BY <1>6, GoneState DEF ProcessGone, NextSegment, SendEvent
  <2>2. CASE ReadEvent
    BY <1>6, <2>2 DEF ReadEvent, DataOps
  <2>3. CASE ReadEndOfSegment
    BY <2>3 DEF ReadEndOfSegment
  <2>4. CASE ~ReadEvent /\ ~ReadEndOfSegment
    <3>1. pc \in {"end", "drain", "mark"}
      <4>1. CASE Main
        BY <1>6, <2>1, <2>4, <4>1 DEF Main, StartStreaming, WaitUntilNoConflict, Put,
             SendEndOfSegment, Drained, MarkSegmentProcessed
      <4>2. ASSUME NEW d \in Channels, IgnoreEvent(d) \/ FinishBatch(d)
            PROVE  pc \in {"end", "drain", "mark"}
        BY <1>6, <4>2 DEF IgnoreEvent, FinishBatch, RemoveEvents
      <4> QED
        BY <1>6, <2>1, <4>1, <4>2, Writers DEF Writes
    <3>2. seg' = seg /\ cur' = cur
      BY <2>1, <2>4, Writers DEF Writes
    <3> QED
      BY <3>1, <3>2 DEF IInv, InvSegments
  <2> QED
    BY <2>2, <2>3, <2>4
<1> QED
  BY <1>1, <1>2, <1>3, <1>4, <1>5, <1>6 DEF InvSegments, LastVsn, FirstVsn

\* A step announces the cutover only when all events before it are applied.
LEMMA CutoverStep ==
  ASSUME IInv, [Next]_vars
  PROVE  CutoverAfterDrain'
<1>1. /\ log' = log /\ DataVsns' = DataVsns /\ Vsns' = Vsns
      /\ (\A x : Ordered!OwnCutover(x)' = Ordered!OwnCutover(x))
      /\ applied \subseteq applied'
  BY Writers, SameLog, AppliedStep DEF Writes
<1> SUFFICES ASSUME cutoverDetected'
             PROVE  \E x \in Vsns : Ordered!OwnCutover(x) /\ (\A v \in DataVsns : v < x => v \in applied)
  BY <1>1 DEF CutoverAfterDrain
<1>2. CASE cutoverDetected
  BY <1>2 DEF IInv, CutoverAfterDrain
<1>3. CASE ~cutoverDetected
  <2>1. MarkSegmentProcessed /\ cur \in SegmentVsns(seg) /\ log[cur].Op = "cutover.own"
    BY <1>3, Writers DEF Writes, MarkSegmentProcessed
  <2>2. cur \in Vsns /\ Ordered!OwnCutover(cur)
    BY <2>1 DEF SegmentVsns, Ordered!OwnCutover, Ordered!Vsns, Vsns
  <2> QED
    BY <2>1, <2>2, DrainedApplied
<1> QED
  BY <1>2, <1>3

-----------------------------------------------------------------------------
(* The theorems.                                                           *)

\* The inductive invariant holds initially.
LEMMA InitIInv == Init => IInv
<1> SUFFICES ASSUME Init
             PROVE  IInv
  OBVIOUS
<1>1. TypeOK
  BY TypeInit
<1>2. \A c \in Channels : /\ chan[c] = <<>> /\ batch[c] = <<>> /\ pending[c] = <<>>
                          /\ wpc[c] = "off" /\ endOfProcessing[c] = FALSE
                          /\ lastVsn[c] = -1 /\ meta[c] = -1 /\ InFlight(c) = {}
  BY EmptyQueue DEF Init, InFlight
<1>3. InvLog /\ Idle /\ pc = "down" /\ seg = 0
  BY DEF Init, InvLog, Idle
<1>4. InvQueues /\ InvSettled /\ InvEnd
  BY <1>2, EmptyQueue DEF InvQueues, InvSettled, InvEnd
<1>5. InvDispatched /\ InvIdle /\ InvCurrent
  BY <1>2, <1>3 DEF InvDispatched, InvIdle, InvCurrent
<1>6. InvWorkers
  BY <1>2, <1>3 DEF InvWorkers
<1>7. InvSegments
  BY <1>3 DEF Init, InvSegments
<1>8. InvVsn
  <2>1. \A v \in DataVsns : v \in Nat /\ ChannelOf(v) \in Channels
    BY <1>3, DataVsnType DEF InvLog
  <2>2. \A c \in Channels : Committable(c, pending[c])
    BY <1>2, EmptyQueue DEF Committable
  <2> QED
    BY <1>2, <2>1, <2>2 DEF InvVsn, NoEventSkipped
<1>9. CacheCoversInFlight /\ ConflictsInOrder /\ CutoverAfterDrain
  BY <1>2 DEF Init, InFlight, CacheCoversInFlight, ConflictsInOrder, CutoverAfterDrain
<1> QED
  BY <1>1, <1>3, <1>4, <1>5, <1>6, <1>7, <1>8, <1>9 DEF IInv

\* Every step keeps the inductive invariant.
LEMMA StepIInv == IInv /\ [Next]_vars => IInv'
<1> SUFFICES ASSUME IInv, [Next]_vars
             PROVE  IInv'
  OBVIOUS
<1>1. TypeOK'
  BY TypeStep DEF IInv
<1>2. InvLog' /\ ConflictsInOrder'
  BY AppliedStep
<1> QED
  BY <1>1, <1>2, VsnStep, QueuesStep, DispatchedStep, IdleStep, CurrentStep, SettledStep,
     WorkerStep, EndStep, SegmentsStep, CacheStep, CutoverStep DEF IInv

\* IInv holds in every reachable state of the streaming import, for every
\* number and size of event channels, batch size, history, error and crash.
THEOREM Invariance == Spec => []IInv
BY InitIInv, StepIInv, PTL DEF Spec

\* Channels, batches, cursors and metadata keep their types and limits.
THEOREM TypeCorrect == Spec => []TypeOK
<1>1. IInv => TypeOK
  BY DEF IInv
<1> QED
  BY <1>1, Invariance, PTL

\* An event is in the target only when every earlier event of its partition
\* and every earlier event that releases a unique value it takes is there too,
\* whatever WaitUntilNoConflict, the workers, retries and restarts interleave.
THEOREM OrderIsKept == Spec => []ConflictsInOrder
<1>1. IInv => ConflictsInOrder
  BY DEF IInv
<1> QED
  BY <1>1, Invariance, PTL

\* last_applied_vsn, which makes a restarted importer ignore events, never
\* covers an event that is not applied.
THEOREM NothingSkipped == Spec => []NoEventSkipped
<1>1. IInv => NoEventSkipped
  BY DEF IInv, InvVsn
<1> QED
  BY <1>1, Invariance, PTL

\* The cache holds every event in flight that an incoming event may wait for.
THEOREM CacheCovers == Spec => []CacheCoversInFlight
<1>1. IInv => CacheCoversInFlight
  BY DEF IInv
<1> QED
  BY <1>1, Invariance, PTL

\* The cutover is announced only when all events before it are applied.
THEOREM CutoverIsLast == Spec => []CutoverAfterDrain
<1>1. IInv => CutoverAfterDrain
  BY DEF IInv
<1> QED
  BY <1>1, Invariance, PTL

\* Every step of the import is a step of OrderedApply, or invisible to it.
LEMMA RefinementStep == IInv /\ [Next]_vars => [Ordered!Next]_(Ordered!vars)
<1> SUFFICES ASSUME IInv, [Next]_vars
             PROVE  [Ordered!Next]_(Ordered!vars)
  OBVIOUS
<1> USE DEF Ordered!vars
<1>1. log' = log /\ Ordered!DataVsns = DataVsns /\ Ordered!Vsns = Vsns
  BY Writers, SameDefinitions DEF Writes, Ordered!DataVsns, DataVsns, Ordered!Vsns, Vsns
<1>2. CASE UNCHANGED <<applied, cutoverDetected>>
  BY <1>1, <1>2
<1>3. CASE ~UNCHANGED cutoverDetected
  <2>1. MarkSegmentProcessed /\ cutoverDetected' \in BOOLEAN /\ cutoverDetected \in BOOLEAN
    BY <1>3, Writers, TypeStep DEF Writes, IInv, TypeOK, TypeDatabases
  <2>2. /\ cur \in SegmentVsns(seg) /\ log[cur].Op = "cutover.own" /\ cutoverDetected' = TRUE
        /\ applied' = applied
    BY <1>3, <2>1 DEF MarkSegmentProcessed, dbVars
  <2>3. cur \in Vsns /\ Ordered!OwnCutover(cur)
    BY <2>2 DEF SegmentVsns, Ordered!OwnCutover, Ordered!Vsns, Vsns
  <2>4. Ordered!DetectCutover
    BY <1>1, <2>1, <2>2, <2>3, DrainedApplied DEF Ordered!DetectCutover
  <2> QED
    BY <2>4 DEF Ordered!Next
<1>4. CASE UNCHANGED cutoverDetected /\ ~UNCHANGED applied
  <2>1. PICK c \in Channels, b \in Seq(Nat) :
          Committable(c, b) /\ applied' = applied \cup VsnsIn(b)
    BY <1>4, CommitStep
  <2>2. VsnsIn(b) \in SUBSET DataVsns
    BY <2>1 DEF Committable
  <2>3. Ordered!ApplyGroup(VsnsIn(b))
    BY <1>1, <1>4, <2>1, <2>2 DEF Committable, Ordered!ApplyGroup
  <2> QED
    BY <1>1, <2>2, <2>3 DEF Ordered!Next
<1> QED
  BY <1>2, <1>3, <1>4

\* The streaming import implements OrderedApply: channels, batches, retries and
\* restarts together apply the log as the abstract specification allows.
THEOREM Refinement == Spec => ImplementsOrderedApply
<1>1. Init => Ordered!Init
  BY DEF Init, Ordered!Init
<1> QED
  BY <1>1, RefinementStep, Invariance, PTL DEF Spec, ImplementsOrderedApply, Ordered!Spec

-----------------------------------------------------------------------------
(* The rows of the target: whatever the channels interleave, every batch   *)
(* can be executed without a unique-index violation, the counters count    *)
(* each event once, and the table ends up as the source's.                 *)
(*                                                                         *)
(* The argument.  ConflictsInOrder makes the set of applied events closed  *)
(* under Ordered!MustPrecede.  Two events that follow each other on a key  *)
(* are ordered by it, so of every key a prefix of the events is applied    *)
(* and the row is the version of the source after the last of them         *)
(* (Reflects).  If two rows met in a unique index, one of them would be    *)
(* older than the event that released the value at the source, an event    *)
(* that must precede the one that took it.                                 *)

-----------------------------------------------------------------------------
(* Every event is applied once.                                            *)

\* The events of a queue are beyond vsn v.
Beyond(s, v) == \A x \in VsnsIn(s) : x > v

\* What channel c has applied is not beyond its last_applied_vsn.
FreshApplied(c) == \A v \in applied : ChannelOf(v) = c => v <= lastVsn[c]

\* The batch it is about to execute is, until it is known to be imported.
FreshBatch(c) ==
  /\ wpc[c] \in {"batching", "exec"} => Beyond(batch[c], lastVsn[c])
  /\ wpc[c] = "retry" => Beyond(batch[c], lastVsn[c]) \/ (pending[c] = <<>> /\ AlreadyImported(c))

\* So is the batch of a commit in doubt, which its goroutine waits for unless
\* the process is gone.
FreshPending(c) ==
  pending[c] # <<>> =>
    /\ Beyond(pending[c], lastVsn[c]) /\ Increasing(pending[c])
    /\ pc = "down" \/ (wpc[c] = "retry" /\ pending[c] = batch[c])

\* What waits in the channel is, or will be ignored.
FreshChan(c) == \A v \in VsnsIn(chan[c]) : v <= meta[c] \/ v > lastVsn[c]

InvFresh == \A c \in Channels : FreshApplied(c) /\ FreshBatch(c) /\ FreshPending(c) /\ FreshChan(c)

\* How far the main goroutine is in its segment.
InvCursor ==
  /\ ~Idle => cur <= LastVsn(seg) + 1
  /\ pc \in {"check", "waiting", "put", "send"} => cur <= LastVsn(seg)
  /\ pc # "down" => \A c \in Channels :
       lastVsn[c] = meta[c] \/ (seg # 0 /\ lastVsn[c] < cur /\ lastVsn[c] <= LastVsn(seg))
  /\ pc = "done" => cutoverDetected

-----------------------------------------------------------------------------
(* Numbers and recursive functions.                                        *)

\* A nonempty set of natural numbers has a smallest element.
LEMMA Smallest ==
  ASSUME NEW S \in SUBSET Nat, S # {}
  PROVE  \E x \in S : \A y \in S : x <= y
<1>1. \E x \in S : \A y \in S : ~(<<y, x>> \in OpToRel(<, Nat))
  BY WFMin, NatLessThanWellFounded, Zenon
<1>2. PICK x \in S : \A y \in S : ~(<<y, x>> \in OpToRel(<, Nat))
  BY <1>1, Zenon
<1>3. \A y \in S : ~(y < x)
  BY <1>2, Zenon DEF OpToRel
<1> QED
  BY <1>3

\* The values of f start from r and follow the steps of g.
Follows(f, N, r, g) == f[0] = r /\ \A n \in 1 .. N : f[n] = g[n][f[n - 1]]

\* A step function for each position defines a sequence of values.
LEMMA Recursion ==
  ASSUME NEW N \in Nat, NEW S, NEW r \in S, NEW g \in [1 .. N -> [S -> S]]
  PROVE  \E f \in [0 .. N -> S] : Follows(f, N, r, g)
<1> DEFINE Good(f, m) == f[0] = r /\ \A n \in 1 .. m : f[n] = g[n][f[n - 1]]
           Bad == {m \in 0 .. N : ~\E f \in [0 .. m -> S] : Good(f, m)}
<1>1. SUFFICES Bad = {}
  <2>1. N \in 0 .. N /\ N \notin Bad
    BY <1>1
  <2>2. \E f \in [0 .. N -> S] : Good(f, N)
    BY <2>1
  <2> QED
    BY <2>2 DEF Follows
<1>2. SUFFICES ASSUME Bad # {} PROVE FALSE
  OBVIOUS
<1>3. PICK m \in Bad : \A y \in Bad : m <= y
  <2>1. Bad \in SUBSET Nat
    OBVIOUS
  <2> HIDE DEF Bad
  <2> QED
    BY <1>2, <2>1, Smallest
<1>4. m \in 0 .. N /\ ~\E f \in [0 .. m -> S] : Good(f, m)
  OBVIOUS
<1>5. m # 0
  <2> SUFFICES ASSUME m = 0 PROVE FALSE
    OBVIOUS
  <2>1. [n \in 0 .. 0 |-> r] \in [0 .. 0 -> S] /\ Good([n \in 0 .. 0 |-> r], 0)
    OBVIOUS
  <2> QED
    BY <1>4, <2>1
<1>6. m - 1 \in 0 .. N /\ m - 1 \notin Bad /\ m \in 1 .. N
  <2>1. m \in Int /\ m - 1 \in 0 .. N /\ m \in 1 .. N /\ ~(m <= m - 1)
    BY <1>4, <1>5
  <2> HIDE DEF Bad
  <2> QED
    BY <1>3, <2>1
<1>7. PICK f \in [0 .. m - 1 -> S] : Good(f, m - 1)
  BY <1>6
<1>8. PICK h : h = [n \in 0 .. m |-> IF n = m THEN g[m][f[m - 1]] ELSE f[n]]
  OBVIOUS
<1>9. /\ h[m] = g[m][f[m - 1]] /\ h[0] = f[0]
      /\ \A n \in 0 .. m - 1 : h[n] = f[n]
  BY <1>6, <1>8
<1>10. g[m][f[m - 1]] \in S
  <2>1. f[m - 1] \in S /\ g[m] \in [S -> S]
    BY <1>6
  <2> QED
    BY <2>1
<1>11. h \in [0 .. m -> S]
  BY <1>6, <1>8, <1>10
<1>12. ASSUME NEW n \in 1 .. m
       PROVE  h[n] = g[n][h[n - 1]]
  <2>1. n - 1 \in 0 .. m - 1 /\ h[n - 1] = f[n - 1]
    BY <1>6, <1>9
  <2>2. CASE n = m
    BY <1>9, <2>1, <2>2
  <2>3. CASE n # m
    <3>1. n \in 1 .. m - 1 /\ n \in 0 .. m - 1
      BY <1>6, <2>3
    <3> QED
      BY <1>7, <1>9, <2>1, <3>1
  <2> QED
    BY <2>2, <2>3
<1>13. Good(h, m)
  BY <1>7, <1>9, <1>12
<1> QED
  BY <1>4, <1>11, <1>13

\* Two sequences of values that start and go on alike.
Alike(f, h, N) ==
  /\ f = [n \in 0 .. N |-> f[n]] /\ h = [n \in 0 .. N |-> h[n]]
  /\ f[0] = h[0]
  /\ \A n \in 1 .. N : f[n - 1] = h[n - 1] => f[n] = h[n]

\* They are the same.
LEMMA Determined ==
  ASSUME NEW N \in Nat, NEW f, NEW h, Alike(f, h, N)
  PROVE  f = h
<1> USE DEF Alike
<1> DEFINE Bad == {n \in 0 .. N : f[n] # h[n]}
<1>1. SUFFICES ASSUME Bad # {} PROVE FALSE
  <2>1. \A n \in 0 .. N : f[n] = h[n]
    BY <1>1
  <2> QED
    BY <2>1
<1>2. PICK m \in Bad : \A y \in Bad : m <= y
  <2>1. Bad \in SUBSET Nat
    OBVIOUS
  <2> HIDE DEF Bad
  <2> QED
    BY <1>1, <2>1, Smallest
<1>3. m \in 1 .. N /\ m - 1 \in 0 .. N /\ ~(m <= m - 1)
  OBVIOUS
<1>4. f[m - 1] = h[m - 1]
  BY <1>2, <1>3
<1> QED
  BY <1>3, <1>4

-----------------------------------------------------------------------------
(* What an event does to a table.                                          *)

\* The three kinds of data events, their images and their key.
LEMMA EventKinds ==
  ASSUME NEW e \in DataEvent
  PROVE  /\ e.Op \in {"c", "u", "d"}
         /\ e.Op = "c" => e.BeforeFields = NoRow /\ e.AfterFields \in Row /\ Key(e) = e.AfterFields[PkColumn]
         /\ e.Op = "u" => e.BeforeFields \in Row /\ e.AfterFields \in Row /\ Key(e) = e.BeforeFields[PkColumn]
         /\ e.Op = "d" => e.BeforeFields \in Row /\ e.AfterFields = NoRow /\ Key(e) = e.BeforeFields[PkColumn]
         /\ Key(e) \in KeyValues
<1>1. /\ e.Op \in {"c", "u", "d"}
      /\ e.Op = "c" => e.BeforeFields = NoRow /\ e.AfterFields \in Row
      /\ e.Op = "u" => e.BeforeFields \in Row /\ e.AfterFields \in Row
      /\ e.Op = "d" => e.BeforeFields \in Row /\ e.AfterFields = NoRow
  BY DEF DataEvent
<1>2. /\ e.Op = "c" => Key(e) = e.AfterFields[PkColumn]
      /\ e.Op \in {"u", "d"} => Key(e) = e.BeforeFields[PkColumn]
  BY DEF Key, KeyImage
<1>3. Key(e) \in KeyValues
  BY <1>1, <1>2 DEF Row
<1> QED
  BY <1>1, <1>2, <1>3

\* There is no row that is NoRow.
LEMMA RowsAreRows == \A r \in Row : r # NoRow /\ r \in [Columns -> Values] /\ r[PkColumn] \in KeyValues
BY EventsAssumption DEF Row

\* An event changes the row of its key and no other.
LEMMA ApplyType ==
  ASSUME NEW R \in Rows, NEW e \in DataEvent
  PROVE  /\ ApplyEvent(R, e) \in Rows
         /\ \A k \in KeyValues : k # Key(e) => ApplyEvent(R, e)[k] = R[k]
<1>1. Key(e) \in KeyValues /\ e.Op \in {"c", "u", "d"}
  BY EventKinds
<1>2. R \in [KeyValues -> Row \cup {NoRow}]
  BY DEF Rows
<1>3. \E x \in Row \cup {NoRow} : ApplyEvent(R, e) = [R EXCEPT ![Key(e)] = x]
  <2>1. CASE e.Op = "c"
    <3>1. ApplyEvent(R, e) = IF R[Key(e)] = NoRow THEN [R EXCEPT ![Key(e)] = e.AfterFields] ELSE R
      BY <2>1 DEF ApplyEvent
    <3>2. R = [R EXCEPT ![Key(e)] = R[Key(e)]] /\ R[Key(e)] \in Row \cup {NoRow}
      BY <1>1, <1>2
    <3> QED
      BY <2>1, <3>1, <3>2, EventKinds
  <2>2. CASE e.Op = "u"
    <3>1. PICK x : x = [c \in Columns |-> IF c \in ChangedColumns(e) THEN e.AfterFields[c] ELSE R[Key(e)][c]]
      OBVIOUS
    <3>2. ApplyEvent(R, e) = IF R[Key(e)] = NoRow THEN R ELSE [R EXCEPT ![Key(e)] = x]
      BY <2>2, <3>1 DEF ApplyEvent
    <3>3. R = [R EXCEPT ![Key(e)] = R[Key(e)]] /\ R[Key(e)] \in Row \cup {NoRow}
      BY <1>1, <1>2
    <3>4. R[Key(e)] # NoRow => x \in Row
      BY <2>2, <3>1, <3>3, EventKinds, EventsAssumption DEF Row
    <3> QED
      BY <3>2, <3>3, <3>4
  <2>3. CASE e.Op = "d"
    BY <2>3 DEF ApplyEvent
  <2> QED
    BY <1>1, <2>1, <2>2, <2>3
<1>4. PICK x \in Row \cup {NoRow} : ApplyEvent(R, e) = [R EXCEPT ![Key(e)] = x]
  BY <1>3
<1> QED
  BY <1>1, <1>2, <1>4 DEF Rows

\* The tables of the source, one after each event.
LEMMA SourceTables ==
  ASSUME log \in Logs
  PROVE  /\ Len(log) \in Nat
         /\ SourceThrough(log) \in [0 .. Len(log) -> Rows]
         /\ SourceThrough(log)[0] = InitRows
         /\ \A n \in 1 .. Len(log) :
              SourceThrough(log)[n] = IF IsCutoverEvent(log[n]) THEN SourceThrough(log)[n - 1]
                                      ELSE ApplyEvent(SourceThrough(log)[n - 1], log[n])
<1>n. PICK N : N = Len(log)
  OBVIOUS
<1>1. log \in Seq(Event) /\ N \in Nat /\ InitRows \in Rows
  BY <1>n, ImportAssumption, LenProperties
<1>2. \A n \in 1 .. N : ~IsCutoverEvent(log[n]) => log[n] \in DataEvent
  BY <1>n, DataVsnType DEF DataVsns, Vsns
<1>3. PICK g : g = [n \in 1 .. N |-> [x \in Rows |-> IF IsCutoverEvent(log[n]) THEN x ELSE ApplyEvent(x, log[n])]]
  OBVIOUS
<1>4. g \in [1 .. N -> [Rows -> Rows]]
  BY <1>2, <1>3, ApplyType
<1>5. PICK f \in [0 .. N -> Rows] : f[0] = InitRows /\ \A n \in 1 .. N : f[n] = g[n][f[n - 1]]
  <2>1. \E f \in [0 .. N -> Rows] : Follows(f, N, InitRows, g)
    BY <1>1, <1>4, Recursion
  <2> QED
    BY <2>1 DEF Follows
<1>6. \A n \in 1 .. N : n - 1 \in 0 .. N /\ f[n - 1] \in Rows
  BY <1>1
<1>7. \A n \in 1 .. N : f[n] = IF IsCutoverEvent(log[n]) THEN f[n - 1] ELSE ApplyEvent(f[n - 1], log[n])
  BY <1>3, <1>5, <1>6
<1>8. f = [n \in 0 .. N |-> IF n = 0 THEN InitRows
                            ELSE IF IsCutoverEvent(log[n]) THEN f[n - 1] ELSE ApplyEvent(f[n - 1], log[n])]
  BY <1>1, <1>5, <1>7
<1> DEFINE Is(h) == h = [n \in 0 .. N |-> IF n = 0 THEN InitRows
                       ELSE IF IsCutoverEvent(log[n]) THEN h[n - 1] ELSE ApplyEvent(h[n - 1], log[n])]
<1>9. SourceThrough(log) = CHOOSE h : Is(h)
  BY <1>n DEF SourceThrough
<1>10. PICK h : h = SourceThrough(log) /\ Is(h)
  <2>1. Is(f)
    BY <1>8
  <2> HIDE DEF Is
  <2> QED
    BY <1>9, <2>1, Zenon
<1>11. /\ h[0] = InitRows
       /\ \A n \in 1 .. N :
            h[n] = IF IsCutoverEvent(log[n]) THEN h[n - 1] ELSE ApplyEvent(h[n - 1], log[n])
  BY <1>1, <1>10
<1>12. h = f
  <2>1. h = [n \in 0 .. N |-> h[n]] /\ f = [n \in 0 .. N |-> f[n]]
    BY <1>10
  <2>2. \A n \in 1 .. N : h[n - 1] = f[n - 1] => h[n] = f[n]
    BY <1>7, <1>11
  <2>3. h[0] = f[0]
    BY <1>5, <1>11
  <2> QED
    <3>1. Alike(h, f, N)
      BY <2>1, <2>2, <2>3 DEF Alike
    <3> QED
      BY <1>1, <3>1, Determined
<1> QED
  BY <1>n, <1>1, <1>5, <1>7, <1>10, <1>12

\* The tables a batch goes through, one after each of its events.
LEMMA BatchTables ==
  ASSUME log \in Logs, NEW R \in Rows, NEW b \in Seq(Nat), VsnsIn(b) \subseteq DataVsns
  PROVE  /\ Len(b) \in Nat
         /\ RowsThrough(R, b) \in [0 .. Len(b) -> Rows]
         /\ RowsThrough(R, b)[0] = R
         /\ \A n \in 1 .. Len(b) :
              RowsThrough(R, b)[n] = ApplyEvent(RowsThrough(R, b)[n - 1], log[b[n]])
<1>n. PICK N : N = Len(b)
  OBVIOUS
<1>1. N \in Nat
  BY <1>n, LenProperties
<1>2. \A n \in 1 .. N : log[b[n]] \in DataEvent
  <2>1. \A n \in 1 .. N : b[n] \in VsnsIn(b)
    BY <1>n DEF VsnsIn
  <2> QED
    BY <2>1, DataVsnType
<1>3. PICK g : g = [n \in 1 .. N |-> [x \in Rows |-> ApplyEvent(x, log[b[n]])]]
  OBVIOUS
<1>4. g \in [1 .. N -> [Rows -> Rows]]
  BY <1>2, <1>3, ApplyType
<1>5. PICK f \in [0 .. N -> Rows] : f[0] = R /\ \A n \in 1 .. N : f[n] = g[n][f[n - 1]]
  <2>1. \E f \in [0 .. N -> Rows] : Follows(f, N, R, g)
    BY <1>1, <1>4, Recursion
  <2> QED
    BY <2>1 DEF Follows
<1>6. \A n \in 1 .. N : n - 1 \in 0 .. N /\ f[n - 1] \in Rows
  BY <1>1
<1>7. \A n \in 1 .. N : f[n] = ApplyEvent(f[n - 1], log[b[n]])
  BY <1>3, <1>5, <1>6
<1>8. f = [n \in 0 .. N |-> IF n = 0 THEN R ELSE ApplyEvent(f[n - 1], log[b[n]])]
  BY <1>1, <1>5, <1>7
<1> DEFINE Is(h) == h = [n \in 0 .. N |-> IF n = 0 THEN R ELSE ApplyEvent(h[n - 1], log[b[n]])]
<1>9. RowsThrough(R, b) = CHOOSE h : Is(h)
  BY <1>n DEF RowsThrough
<1>10. PICK h : h = RowsThrough(R, b) /\ Is(h)
  <2>1. Is(f)
    BY <1>8
  <2> HIDE DEF Is
  <2> QED
    BY <1>9, <2>1, Zenon
<1>11. h[0] = R /\ \A n \in 1 .. N : h[n] = ApplyEvent(h[n - 1], log[b[n]])
  BY <1>1, <1>10
<1>12. h = f
  <2>1. h = [n \in 0 .. N |-> h[n]] /\ f = [n \in 0 .. N |-> f[n]]
    BY <1>10
  <2>2. \A n \in 1 .. N : h[n - 1] = f[n - 1] => h[n] = f[n]
    BY <1>7, <1>11
  <2>3. h[0] = f[0]
    BY <1>5, <1>11
  <2> QED
    <3>1. Alike(h, f, N)
      BY <2>1, <2>2, <2>3 DEF Alike
    <3> QED
      BY <1>1, <3>1, Determined
<1> QED
  BY <1>n, <1>1, <1>5, <1>7, <1>10, <1>12

\* An event that meets the row it was made on leaves its after image.
LEMMA ApplyChange ==
  ASSUME NEW R \in Rows, NEW e \in DataEvent, R[Key(e)] = e.BeforeFields
  PROVE  ApplyEvent(R, e)[Key(e)] = e.AfterFields
<1>1. Key(e) \in KeyValues /\ e.Op \in {"c", "u", "d"}
  BY EventKinds
<1>2. R \in [KeyValues -> Row \cup {NoRow}]
  BY DEF Rows
<1>3. CASE e.Op = "c"
  <2>1. ApplyEvent(R, e) = [R EXCEPT ![Key(e)] = e.AfterFields]
    BY <1>3, EventKinds DEF ApplyEvent
  <2> QED
    BY <1>1, <1>2, <2>1
<1>4. CASE e.Op = "u"
  <2>1. PICK x : x = [c \in Columns |-> IF c \in ChangedColumns(e) THEN e.AfterFields[c] ELSE R[Key(e)][c]]
    OBVIOUS
  <2>2. e.BeforeFields \in Row /\ e.AfterFields \in Row /\ e.BeforeFields # NoRow
    BY <1>4, EventKinds, RowsAreRows
  <2>3. ApplyEvent(R, e) = [R EXCEPT ![Key(e)] = x]
    BY <1>4, <2>1, <2>2 DEF ApplyEvent
  <2>4. x = e.AfterFields
    <3>1. e.AfterFields = [c \in Columns |-> e.AfterFields[c]]
      BY <2>2, RowsAreRows
    <3>2. \A c \in Columns : c \in ChangedColumns(e) \/ R[Key(e)][c] = e.AfterFields[c]
      BY DEF ChangedColumns
    <3> QED
      BY <2>1, <3>1, <3>2
  <2> QED
    BY <1>1, <1>2, <2>3, <2>4
<1>5. CASE e.Op = "d"
  <2>1. ApplyEvent(R, e) = [R EXCEPT ![Key(e)] = e.AfterFields]
    BY <1>5, EventKinds DEF ApplyEvent
  <2> QED
    BY <1>1, <1>2, <2>1
<1> QED
  BY <1>1, <1>3, <1>4, <1>5

-----------------------------------------------------------------------------
(* The versions of a row at the source.                                    *)

\* The source's row of key k after n events, and the events on that key.
At(n, k) == SourceThrough(log)[n][k]
Events(k) == {v \in DataVsns : Key(log[v]) = k}

\* An event replaces the version before it, and only that of its key.
LEMMA Versions ==
  ASSUME log \in Logs
  PROVE  /\ \A n \in 0 .. Len(log), k \in KeyValues : At(n, k) \in Row \cup {NoRow}
         /\ \A k \in KeyValues : \A v \in Events(k) :
              /\ v \in 1 .. Len(log) /\ log[v] \in DataEvent /\ Key(log[v]) = k
              /\ At(v - 1, k) = log[v].BeforeFields /\ At(v, k) = log[v].AfterFields
         /\ \A k \in KeyValues : \A n \in 1 .. Len(log) :
              n \notin Events(k) => At(n, k) = At(n - 1, k)
<1>n. PICK N : N = Len(log)
  OBVIOUS
<1>t. PICK T : T = SourceThrough(log)
  OBVIOUS
<1>1. N \in Nat /\ T \in [0 .. N -> Rows]
  BY <1>n, <1>t, SourceTables
<1>2. \A n \in 1 .. N :
        T[n] = IF IsCutoverEvent(log[n]) THEN T[n - 1] ELSE ApplyEvent(T[n - 1], log[n])
  BY <1>n, <1>t, SourceTables
<1>3. \A n \in 0 .. N, k \in KeyValues : T[n][k] \in Row \cup {NoRow}
  BY <1>1 DEF Rows
<1>4. ASSUME NEW k \in KeyValues, NEW v \in Events(k)
      PROVE  /\ v \in 1 .. N /\ log[v] \in DataEvent /\ Key(log[v]) = k
             /\ T[v - 1][k] = log[v].BeforeFields /\ T[v][k] = log[v].AfterFields
  <2>1. v \in DataVsns /\ Key(log[v]) = k /\ v \in 1 .. N /\ ~IsCutoverEvent(log[v])
    BY <1>n DEF Events, DataVsns, Vsns
  <2>2. log[v] \in DataEvent
    BY <2>1, DataVsnType
  <2>3. T[v - 1][k] = log[v].BeforeFields
    BY <1>n, <1>t, <2>1, SourceAssumption DEF ChangeOf
  <2>4. T[v - 1] \in Rows
    BY <1>1, <2>1
  <2>5. T[v] = ApplyEvent(T[v - 1], log[v])
    BY <1>2, <2>1
  <2>6. T[v][k] = log[v].AfterFields
    BY <2>1, <2>2, <2>3, <2>4, <2>5, ApplyChange
  <2> QED
    BY <2>1, <2>2, <2>3, <2>6
<1>5. ASSUME NEW k \in KeyValues, NEW n \in 1 .. N, n \notin Events(k)
      PROVE  T[n][k] = T[n - 1][k]
  <2>1. CASE IsCutoverEvent(log[n])
    BY <1>2, <2>1
  <2>2. CASE ~IsCutoverEvent(log[n])
    <3>1. n \in DataVsns /\ Key(log[n]) # k
      BY <1>n, <1>5, <2>2 DEF Events, DataVsns, Vsns
    <3>2. log[n] \in DataEvent /\ T[n - 1] \in Rows
      BY <1>1, <3>1, DataVsnType
    <3> QED
      BY <1>2, <2>2, <3>1, <3>2, ApplyType
  <2> QED
    BY <2>1, <2>2
<1> QED
  BY <1>n, <1>t, <1>3, <1>4, <1>5 DEF At

\* The source's unique indexes accept every one of its tables.
LEMMA SourceUnique ==
  ASSUME log \in Logs, NEW n \in 0 .. Len(log)
  PROVE  UniqueIndexesHold(SourceThrough(log)[n])
<1> DEFINE Bad == {m \in 0 .. Len(log) : ~UniqueIndexesHold(SourceThrough(log)[m])}
<1>1. SUFFICES ASSUME Bad # {} PROVE FALSE
  OBVIOUS
<1>2. Len(log) \in Nat
  BY SourceTables
<1>3. PICK m \in Bad : \A y \in Bad : m <= y
  <2>1. Bad \in SUBSET Nat
    BY <1>2
  <2> HIDE DEF Bad
  <2> QED
    BY <1>1, <2>1, Smallest
<1>4. m # 0
  BY SourceTables, SourceAssumption
<1>5. m \in 1 .. Len(log) /\ m - 1 \in 0 .. Len(log) /\ ~(m <= m - 1)
  BY <1>2, <1>4
<1>6. UniqueIndexesHold(SourceThrough(log)[m - 1])
  BY <1>3, <1>5
<1>7. CASE IsCutoverEvent(log[m])
  BY <1>5, <1>6, <1>7, SourceTables
<1>8. CASE ~IsCutoverEvent(log[m])
  BY <1>5, <1>8, SourceAssumption
<1> QED
  BY <1>7, <1>8

\* Between two events on a key its row does not change.
LEMMA Steady ==
  ASSUME log \in Logs, NEW k \in KeyValues, NEW m \in 0 .. Len(log), NEW n \in 0 .. Len(log), m <= n,
         \A x \in Events(k) : ~(m < x /\ x <= n)
  PROVE  At(n, k) = At(m, k)
<1> DEFINE Bad == {j \in 0 .. n : m <= j /\ At(j, k) # At(m, k)}
<1>1. Len(log) \in Nat /\ m \in Nat /\ n \in Nat
  BY SourceTables
<1>2. SUFFICES ASSUME Bad # {} PROVE FALSE
  BY <1>1
<1>3. PICK j \in Bad : \A y \in Bad : j <= y
  <2>1. Bad \in SUBSET Nat
    BY <1>1
  <2> HIDE DEF Bad
  <2> QED
    BY <1>2, <2>1, Smallest
<1>4. j \in Int /\ j # m /\ m < j /\ j <= n
  BY <1>1
<1>5. j \in 1 .. Len(log) /\ j - 1 \in 0 .. n /\ m <= j - 1 /\ ~(j <= j - 1)
  BY <1>1, <1>4
<1>6. j \notin Events(k)
  BY <1>4
<1>7. At(j - 1, k) = At(m, k)
  BY <1>3, <1>5
<1>8. At(j, k) = At(j - 1, k)
  BY <1>5, <1>6, Versions
<1> QED
  BY <1>7, <1>8

-----------------------------------------------------------------------------
(* The order of the events on a key.                                       *)

\* Events of one partition, or a blocker and what it blocks, are ordered.
LEMMA Precedes ==
  ASSUME NEW f, NEW e, f < e,
         GetEventPartitionKey(log[f]) = GetEventPartitionKey(log[e]) \/ Blocks(f, e)
  PROVE  Ordered!MustPrecede(f, e)
BY SameDefinitions DEF Ordered!MustPrecede, Blocks

\* Under the custom strategy an index on the primary key alone is among those
\* the cache works with.
LEMMA PkIndexThere ==
  ASSUME Strategy = "custom"
  PROVE  \E j \in ConflictIndexes : j.columns = {PkColumn}
<1>1. CASE \A i \in UniqueIndexes : i.columns # {PkColumn}
  <2>1. PkConflictGuard \in ConflictIndexes /\ PkConflictGuard.columns = {PkColumn}
    BY <1>1 DEF ConflictIndexes, PkConflictGuard
  <2> QED
    BY <2>1
<1>2. CASE \E i \in UniqueIndexes : i.columns = {PkColumn}
  BY <1>2 DEF ConflictIndexes
<1> QED
  BY <1>1, <1>2

\* A delete of a key blocks the next insert of the key from another partition.
LEMMA ReinsertWaits ==
  ASSUME log \in Logs, Strategy = "custom",
         NEW k \in KeyValues, NEW f \in Events(k), NEW e \in Events(k),
         log[f].Op = "d", log[e].Op = "c",
         GetEventPartitionKey(log[f]) # GetEventPartitionKey(log[e])
  PROVE  Blocks(f, e)
<1>1. PICK j \in ConflictIndexes : j.columns = {PkColumn}
  BY PkIndexThere
<1>2. /\ log[f].BeforeFields \in Row /\ log[f].BeforeFields[PkColumn] = k
      /\ log[e].AfterFields \in Row /\ log[e].AfterFields[PkColumn] = k
  BY Versions, EventKinds
<1>3. k # NULL
  BY EventsAssumption
<1>4. Indexable(log[f].BeforeFields, j) /\ Indexable(log[e].AfterFields, j)
  BY <1>1, <1>2, <1>3 DEF Indexable, anyUniqueIndexColumnValueIsNull
<1>5. computeConflictBucketKey(log[f].BeforeFields, j) \in EventBuckets(log[f])
  BY <1>1, <1>4 DEF EventBuckets
<1>6. computeConflictBucketKey(log[e].AfterFields, j) \in checkBeforeAfterConflict(log[e])
  BY <1>1, <1>4 DEF checkBeforeAfterConflict
<1>7. computeConflictBucketKey(log[e].AfterFields, j) = computeConflictBucketKey(log[f].BeforeFields, j)
  BY <1>1, <1>2 DEF computeConflictBucketKey
<1>8. Conflicts(log[f], log[e])
  BY <1>5, <1>6, <1>7 DEF Conflicts
<1>9. shouldHandleConflicts
  BY <1>1 DEF shouldHandleConflicts
<1> QED
  BY <1>8, <1>9 DEF Blocks

\* Two events that follow each other on a key are ordered.
LEMMA Adjacent ==
  ASSUME log \in Logs, NEW k \in KeyValues, NEW f \in Events(k), NEW e \in Events(k), f < e,
         \A x \in Events(k) : ~(f < x /\ x < e)
  PROVE  Ordered!MustPrecede(f, e)
<1>1. /\ f \in 1 .. Len(log) /\ e \in 1 .. Len(log) /\ Len(log) \in Nat
      /\ log[f] \in DataEvent /\ log[e] \in DataEvent /\ Key(log[f]) = k /\ Key(log[e]) = k
      /\ At(f, k) = log[f].AfterFields /\ At(e - 1, k) = log[e].BeforeFields
  BY Versions, SourceTables
<1>2. SUFFICES GetEventPartitionKey(log[f]) = GetEventPartitionKey(log[e]) \/ Blocks(f, e)
  BY <1>2, Precedes
<1>3. log[e].BeforeFields = log[f].AfterFields
  <2>1. f \in 0 .. Len(log) /\ e - 1 \in 0 .. Len(log) /\ f <= e - 1
    BY <1>1
  <2>2. ASSUME NEW x \in Events(k)
        PROVE  ~(f < x /\ x <= e - 1)
    <3>1. x \in Int /\ ~(f < x /\ x < e)
      BY Versions
    <3> QED
      BY <1>1, <3>1
  <2>3. At(e - 1, k) = At(f, k)
    BY <2>1, <2>2, Steady
  <2> QED
    BY <1>1, <2>3
<1>4. CASE Strategy \in {"pk", "table"}
  BY <1>1, <1>4 DEF GetEventPartitionKey
<1>5. CASE Strategy = "custom"
  <2>1. \A x : GetEventPartitionKey(x) = <<KeyImage(x)[CustomColumn]>>
    BY <1>5 DEF GetEventPartitionKey
  <2>2. CASE log[f].Op = "d"
    <3>1. log[e].BeforeFields = NoRow
      BY <1>1, <1>3, <2>2, EventKinds
    <3>2. log[e].Op = "c"
      BY <1>1, <3>1, EventKinds, RowsAreRows
    <3> QED
      BY <1>5, <2>2, <3>2, ReinsertWaits
  <2>3. CASE log[f].Op \in {"c", "u"}
    <3>1. log[f].AfterFields \in Row
      BY <1>1, <2>3, EventKinds
    <3>2. log[e].BeforeFields # NoRow
      BY <1>3, <3>1, RowsAreRows
    <3>3. log[e].Op \in {"u", "d"}
      BY <1>1, <3>2, EventKinds
    <3>4. KeyImage(log[e])[CustomColumn] = log[f].AfterFields[CustomColumn]
      BY <1>3, <3>3 DEF KeyImage
    <3>5. KeyImage(log[f])[CustomColumn] = log[f].AfterFields[CustomColumn]
      <4>1. CASE log[f].Op = "c"
        BY <4>1 DEF KeyImage
      <4>2. CASE log[f].Op = "u"
        <5>1. f \in 1 .. Len(log) /\ ~IsCutoverEvent(log[f])
          BY DEF Events, DataVsns, Vsns
        <5>2. log[f].AfterFields[CustomColumn] = log[f].BeforeFields[CustomColumn]
          BY <1>5, <4>2, <5>1, SourceAssumption DEF ChangeOf
        <5> QED
          BY <4>2, <5>2 DEF KeyImage
      <4> QED
        BY <2>3, <4>1, <4>2
    <3> QED
      BY <2>1, <3>4, <3>5
  <2> QED
    BY <1>1, <2>2, <2>3, EventKinds
<1> QED
  BY <1>4, <1>5, EventsAssumption

\* A set of events that leaves out nothing its events must follow.
OrderClosed(A) ==
  /\ A \subseteq DataVsns
  /\ \A e \in A : \A f \in DataVsns : Ordered!MustPrecede(f, e) => f \in A

\* Such a set holds a prefix of the events on every key.
LEMMA KeyPrefix ==
  ASSUME log \in Logs, NEW A, OrderClosed(A), NEW k \in KeyValues,
         NEW e \in A \cap Events(k), NEW f \in Events(k), f < e
  PROVE  f \in A
<1>0. \A x \in Events(k) : x \in Nat /\ x \in DataVsns
  BY Versions, SourceTables DEF Events
<1> DEFINE Bad == {d \in Nat : \E x \in Events(k) : x < e /\ x \notin A /\ d = e - x}
<1>1. SUFFICES ASSUME f \notin A PROVE FALSE
  OBVIOUS
<1>2. Bad # {}
  <2>1. e - f \in Nat
    BY <1>0
  <2>2. e - f \in Bad
    BY <1>1, <2>1
  <2> QED
    BY <2>2
<1>3. PICK d \in Bad : \A y \in Bad : d <= y
  <2>1. Bad \in SUBSET Nat
    OBVIOUS
  <2> HIDE DEF Bad
  <2> QED
    BY <1>2, <2>1, Smallest
<1>4. PICK x \in Events(k) : x < e /\ x \notin A /\ d = e - x
  OBVIOUS
<1> DEFINE Later == {y \in Events(k) : x < y}
<1>5. PICK g \in Later : \A y \in Later : g <= y
  <2>1. Later \in SUBSET Nat /\ e \in Later
    BY <1>0, <1>4
  <2> HIDE DEF Later
  <2> QED
    BY <2>1, Smallest
<1>6. g \in Events(k) /\ x < g /\ g <= e
  BY <1>4, <1>5
<1>7. \A y \in Events(k) : ~(x < y /\ y < g)
  <2> SUFFICES ASSUME NEW y \in Events(k), x < y, y < g PROVE FALSE
    OBVIOUS
  <2>1. g <= y
    BY <1>5
  <2> QED
    BY <1>0, <1>6, <2>1
<1>8. g \in A
  <2> SUFFICES ASSUME g \notin A PROVE FALSE
    OBVIOUS
  <2>1. g # e /\ g < e
    BY <1>0, <1>6
  <2>2. e - g \in Nat /\ ~(d <= e - g)
    BY <1>0, <1>4, <1>6, <2>1
  <2>3. e - g \in Bad
    BY <1>6, <2>1, <2>2
  <2> QED
    BY <1>3, <2>2, <2>3
<1>9. Ordered!MustPrecede(x, g)
  BY <1>4, <1>6, <1>7, Adjacent
<1> QED
  BY <1>0, <1>4, <1>8, <1>9 DEF OrderClosed

-----------------------------------------------------------------------------
(* The target's table, when the applied events are closed under the order. *)

\* Every row of R is the source's after the last event on its key in A.
Reflects(R, A) ==
  \A k \in KeyValues : \E m \in {0} \cup (A \cap Events(k)) :
    (\A x \in A \cap Events(k) : x <= m) /\ R[k] = At(m, k)

\* Row r has an entry in index i with the values of row t.
HasEntry(r, i, t) == InIndex(r, i) /\ \A c \in i.columns : r[c] = t[c]

\* An update or delete that gives up an entry of a unique index must precede an
\* insert or update of another key that takes it.
LEMMA EntryHandedOver ==
  ASSUME log \in Logs, NEW i \in UniqueIndexes, NEW t,
         NEW k1 \in KeyValues, NEW k2 \in KeyValues, NEW g \in Events(k1), NEW s \in Events(k2), g < s,
         HasEntry(At(g - 1, k1), i, t), ~HasEntry(At(g, k1), i, t),
         HasEntry(At(s, k2), i, t), ~HasEntry(At(s - 1, k2), i, t)
  PROVE  Ordered!MustPrecede(g, s)
<1>1. PICK e : e = log[g]
  OBVIOUS
<1>2. PICK h : h = log[s]
  OBVIOUS
<1>3. /\ e \in DataEvent /\ h \in DataEvent
      /\ HasEntry(e.BeforeFields, i, t) /\ ~HasEntry(e.AfterFields, i, t)
      /\ HasEntry(h.AfterFields, i, t) /\ ~HasEntry(h.BeforeFields, i, t)
  BY <1>1, <1>2, Versions
<1>4. SUFFICES ASSUME GetEventPartitionKey(e) # GetEventPartitionKey(h)
               PROVE  Blocks(g, s)
  BY <1>1, <1>2, <1>4, Precedes
<1>5. /\ InIndex(e.BeforeFields, i) /\ \A c \in i.columns : e.BeforeFields[c] = t[c]
      /\ InIndex(h.AfterFields, i) /\ \A c \in i.columns : h.AfterFields[c] = t[c]
  BY <1>3 DEF HasEntry
<1>6. /\ e.BeforeFields # NoRow /\ Indexable(e.BeforeFields, i)
      /\ h.AfterFields # NoRow /\ Indexable(h.AfterFields, i)
      /\ i.IsPartialIndex => h.AfterFields[PredColumn] = PredValue
  BY <1>5 DEF InIndex
<1>7. e.Op \in {"u", "d"} /\ h.Op \in {"c", "u"}
  BY <1>3, <1>6, EventKinds
<1>8. i \in ConflictIndexes /\ i.columns \subseteq Columns
  BY EventsAssumption DEF ConflictIndexes, UniqueIndexType
<1>9. shouldHandleConflicts
  <2>1. Strategy # "table"
    BY <1>4 DEF GetEventPartitionKey
  <2> QED
    BY <1>8, <2>1 DEF shouldHandleConflicts
<1>10. e.Op = "u" => indexRelevantForUpdate(e, i)
  <2> SUFFICES ASSUME e.Op = "u", ~indexRelevantForUpdate(e, i) PROVE FALSE
    OBVIOUS
  <2>1. ~i.IsPartialIndex /\ \A c \in i.columns : e.AfterFields[c] = e.BeforeFields[c]
    BY <1>8 DEF indexRelevantForUpdate, anyUniqueIndexColumnChanged, ChangedColumns
  <2>2. Indexable(e.AfterFields, i)
    BY <1>6, <2>1 DEF Indexable, anyUniqueIndexColumnValueIsNull
  <2>3. e.AfterFields # NoRow
    BY <1>3, EventKinds, RowsAreRows
  <2> QED
    BY <1>3, <1>5, <2>1, <2>2, <2>3 DEF HasEntry, InIndex
<1>11. computeConflictBucketKey(e.BeforeFields, i) \in EventBuckets(e)
  BY <1>6, <1>8, <1>10 DEF EventBuckets
<1>12. computeConflictBucketKey(e.BeforeFields, i)
         \in checkBeforeAfterConflict(h) \cup checkBeforeBeforeConflict(h)
  <2>1. CASE h.Op = "c" \/ anyUniqueIndexColumnChanged(h, i)
    <3>1. computeConflictBucketKey(h.AfterFields, i) \in checkBeforeAfterConflict(h)
      BY <1>6, <1>8, <2>1 DEF checkBeforeAfterConflict
    <3>2. computeConflictBucketKey(h.AfterFields, i) = computeConflictBucketKey(e.BeforeFields, i)
      BY <1>5 DEF computeConflictBucketKey
    <3> QED
      BY <3>1, <3>2
  <2>2. CASE h.Op = "u" /\ ~anyUniqueIndexColumnChanged(h, i)
    <3>1. \A c \in i.columns : h.AfterFields[c] = h.BeforeFields[c]
      BY <1>8, <2>2 DEF anyUniqueIndexColumnChanged, ChangedColumns
    <3>2. Indexable(h.BeforeFields, i)
      BY <1>6, <3>1 DEF Indexable, anyUniqueIndexColumnValueIsNull
    <3>3. h.BeforeFields # NoRow
      BY <1>3, <2>2, EventKinds, RowsAreRows
    <3>4. i.IsPartialIndex
      BY <1>3, <1>5, <3>1, <3>2, <3>3 DEF HasEntry, InIndex
    <3>5. computeConflictBucketKey(h.BeforeFields, i) \in checkBeforeBeforeConflict(h)
      BY <1>8, <2>2, <3>2, <3>4 DEF checkBeforeBeforeConflict
    <3>6. computeConflictBucketKey(h.BeforeFields, i) = computeConflictBucketKey(e.BeforeFields, i)
      BY <1>5, <3>1 DEF computeConflictBucketKey
    <3> QED
      BY <3>5, <3>6
  <2> QED
    BY <1>7, <2>1, <2>2
<1>13. Conflicts(e, h)
  BY <1>4, <1>11, <1>12 DEF Conflicts
<1> QED
  BY <1>1, <1>2, <1>7, <1>9, <1>13 DEF Blocks

\* At no moment do two rows of the source have the same entry.
LEMMA OneEntry ==
  ASSUME log \in Logs, NEW n \in 0 .. Len(log), NEW i \in UniqueIndexes, NEW t,
         NEW k1 \in KeyValues, NEW k2 \in KeyValues, k1 # k2,
         HasEntry(At(n, k1), i, t), HasEntry(At(n, k2), i, t)
  PROVE  FALSE
<1>1. PICK T : T = SourceThrough(log)[n]
  OBVIOUS
<1>2. UniqueIndexesHold(T) /\ HasEntry(T[k1], i, t) /\ HasEntry(T[k2], i, t)
  BY <1>1, SourceUnique DEF At
<1> QED
  BY <1>2 DEF UniqueIndexesHold, HasEntry

\* An entry comes and goes with an event on the key.
LEMMA EntryMoves ==
  ASSUME log \in Logs, NEW i, NEW t, NEW k \in KeyValues, NEW n \in 1 .. Len(log),
         HasEntry(At(n, k), i, t) # HasEntry(At(n - 1, k), i, t)
  PROVE  n \in Events(k)
BY Versions

\* Two rows of the target, the first not younger than the second, do not have
\* the same entry either.
LEMMA NoClash ==
  ASSUME log \in Logs, NEW A, OrderClosed(A), NEW i \in UniqueIndexes, NEW t,
         NEW k1 \in KeyValues, NEW k2 \in KeyValues, k1 # k2,
         NEW m1 \in {0} \cup (A \cap Events(k1)), NEW m2 \in {0} \cup (A \cap Events(k2)), m1 <= m2,
         \A x \in A \cap Events(k1) : x <= m1,
         HasEntry(At(m1, k1), i, t), HasEntry(At(m2, k2), i, t)
  PROVE  FALSE
<1>1. Len(log) \in Nat /\ m1 \in 0 .. Len(log) /\ m2 \in 0 .. Len(log)
  BY Versions, SourceTables
<1>2. m1 # m2
  BY <1>1, OneEntry
<1>3. m1 < m2 /\ m2 \in A /\ m2 \in Events(k2)
  BY <1>1, <1>2
<1> DEFINE Have == {n \in 0 .. m2 : \A j \in n .. m2 : HasEntry(At(j, k2), i, t)}
<1>4. PICK s \in Have : \A y \in Have : s <= y
  <2>1. m2 \in Have /\ Have \in SUBSET Nat
    BY <1>1
  <2> HIDE DEF Have
  <2> QED
    BY <2>1, Smallest
<1>5. s \in 0 .. m2 /\ HasEntry(At(s, k2), i, t)
  BY <1>1
<1>6. m1 < s
  <2> SUFFICES ASSUME s <= m1 PROVE FALSE
    BY <1>1, <1>5
  <2>1. HasEntry(At(m1, k2), i, t)
    BY <1>1, <1>3
  <2> QED
    BY <1>1, <2>1, OneEntry
<1>7. s \in 1 .. Len(log) /\ s - 1 \in 0 .. m2 /\ ~(s <= s - 1)
  BY <1>1, <1>5, <1>6
<1>8. ~HasEntry(At(s - 1, k2), i, t)
  <2> SUFFICES ASSUME HasEntry(At(s - 1, k2), i, t) PROVE FALSE
    OBVIOUS
  <2>1. ASSUME NEW j \in s - 1 .. m2 PROVE HasEntry(At(j, k2), i, t)
    <3>1. j = s - 1 \/ j \in s .. m2
      BY <1>1, <1>5
    <3> QED
      BY <3>1
  <2>2. s - 1 \in Have
    BY <1>7, <2>1
  <2> HIDE DEF Have
  <2> QED
    BY <1>4, <1>7, <2>2
<1>9. s \in Events(k2)
  BY <1>5, <1>7, <1>8, EntryMoves
<1>10. s \in A
  <2>1. s = m2 \/ s < m2
    BY <1>1, <1>5
  <2> QED
    BY <1>3, <1>9, <2>1, KeyPrefix
<1> DEFINE Lost == {n \in 0 .. s : m1 < n /\ ~HasEntry(At(n, k1), i, t)}
<1>11. PICK g \in Lost : \A y \in Lost : g <= y
  <2>1. ~HasEntry(At(s, k1), i, t)
    BY <1>5, <1>7, OneEntry
  <2>2. s \in Lost /\ Lost \in SUBSET Nat
    BY <1>5, <1>6, <2>1
  <2> HIDE DEF Lost
  <2> QED
    BY <2>2, Smallest
<1>12. g \in 0 .. s /\ m1 < g /\ ~HasEntry(At(g, k1), i, t)
  OBVIOUS
<1>13. g \in 1 .. Len(log) /\ g - 1 \in 0 .. s /\ m1 <= g - 1 /\ ~(g <= g - 1)
  BY <1>1, <1>7, <1>12
<1>14. HasEntry(At(g - 1, k1), i, t)
  <2>1. CASE g - 1 = m1
    BY <2>1
  <2>2. CASE g - 1 # m1
    <3>1. g - 1 \notin Lost
      <4> HIDE DEF Lost
      <4> QED
        BY <1>11, <1>13
    <3>2. m1 < g - 1
      BY <1>1, <1>13, <2>2
    <3> QED
      BY <1>13, <3>1, <3>2
  <2> QED
    BY <2>1, <2>2
<1>15. g \in Events(k1)
  BY <1>12, <1>13, <1>14, EntryMoves
<1>16. g < s
  <2>1. g # s
    BY <1>9, <1>15 DEF Events
  <2> QED
    BY <1>7, <1>12, <2>1
<1>17. Ordered!MustPrecede(g, s)
  BY <1>5, <1>8, <1>9, <1>12, <1>14, <1>15, <1>16, EntryHandedOver
<1>18. g \in A
  BY <1>10, <1>15, <1>17 DEF OrderClosed, Events
<1>19. g <= m1
  BY <1>15, <1>18
<1> QED
  BY <1>1, <1>12, <1>13, <1>19

\* A table that reflects a closed set of events violates no unique index.
LEMMA UniqueHolds ==
  ASSUME log \in Logs, NEW A, OrderClosed(A), NEW R, Reflects(R, A)
  PROVE  UniqueIndexesHold(R)
<1>1. SUFFICES ASSUME NEW i \in UniqueIndexes, NEW k1 \in KeyValues, NEW k2 \in KeyValues, k1 # k2,
                      InIndex(R[k1], i), InIndex(R[k2], i), \A c \in i.columns : R[k1][c] = R[k2][c]
               PROVE  FALSE
  BY DEF UniqueIndexesHold
<1>2. PICK t : t = R[k1]
  OBVIOUS
<1>3. HasEntry(R[k1], i, t) /\ HasEntry(R[k2], i, t)
  BY <1>1, <1>2 DEF HasEntry
<1>4. PICK m1 \in {0} \cup (A \cap Events(k1)) :
        (\A x \in A \cap Events(k1) : x <= m1) /\ R[k1] = At(m1, k1)
  BY DEF Reflects
<1>5. PICK m2 \in {0} \cup (A \cap Events(k2)) :
        (\A x \in A \cap Events(k2) : x <= m2) /\ R[k2] = At(m2, k2)
  BY DEF Reflects
<1>6. m1 \in Nat /\ m2 \in Nat
  BY Versions, SourceTables
<1>7. CASE m1 <= m2
  BY <1>1, <1>3, <1>4, <1>5, <1>7, NoClash
<1>8. CASE m2 <= m1
  BY <1>1, <1>3, <1>4, <1>5, <1>8, NoClash
<1> QED
  BY <1>6, <1>7, <1>8

\* Applying one more event keeps the rows versions of the source.
LEMMA ApplyNext ==
  ASSUME log \in Logs, NEW A, NEW B, NEW e \in DataVsns, B = A \cup {e}, e \notin A,
         OrderClosed(A), OrderClosed(B), NEW R \in Rows, Reflects(R, A)
  PROVE  Reflects(ApplyEvent(R, log[e]), B)
<1>1. PICK k0 : k0 = Key(log[e])
  OBVIOUS
<1>2. PICK Q : Q = ApplyEvent(R, log[e])
  OBVIOUS
<1>3. log[e] \in DataEvent /\ e \in Nat
  BY DataVsnType
<1>4. k0 \in KeyValues /\ e \in Events(k0)
  BY <1>1, <1>3, EventKinds DEF Events
<1>5. e \in 1 .. Len(log) /\ Len(log) \in Nat
  BY <1>4, Versions, SourceTables
<1>6. ASSUME NEW k \in KeyValues, k # k0
      PROVE  \E m \in {0} \cup (B \cap Events(k)) : (\A x \in B \cap Events(k) : x <= m) /\ Q[k] = At(m, k)
  <2>1. Q[k] = R[k]
    BY <1>1, <1>2, <1>3, <1>6, ApplyType
  <2>2. B \cap Events(k) = A \cap Events(k)
    BY <1>1, <1>6 DEF Events
  <2> QED
    BY <2>1, <2>2 DEF Reflects
<1>7. PICK m \in {0} \cup (A \cap Events(k0)) : (\A x \in A \cap Events(k0) : x <= m) /\ R[k0] = At(m, k0)
  BY <1>4 DEF Reflects
<1>8. ASSUME NEW x \in A \cap Events(k0)
      PROVE  x < e
  <2>1. x \in Nat /\ x # e
    BY <1>4, Versions, SourceTables
  <2>2. ~(e < x)
    BY <1>4, <1>8, KeyPrefix
  <2> QED
    BY <1>3, <2>1, <2>2
<1>9. m \in 0 .. Len(log) /\ e - 1 \in 0 .. Len(log) /\ m <= e - 1
  <2>1. m \in Nat
    BY <1>4, Versions, SourceTables
  <2>2. m < e
    BY <1>5, <1>8
  <2> QED
    BY <1>5, <2>1, <2>2
<1>10. ASSUME NEW x \in Events(k0)
       PROVE  ~(m < x /\ x <= e - 1)
  <2> SUFFICES ASSUME m < x, x <= e - 1 PROVE FALSE
    OBVIOUS
  <2>1. x \in Nat
    BY <1>4, Versions, SourceTables
  <2>2. x < e
    BY <1>3, <2>1
  <2>3. x \in B
    BY <1>4, <2>2, KeyPrefix
  <2>4. x <= m
    BY <1>3, <1>7, <2>1, <2>2, <2>3
  <2> QED
    BY <1>9, <2>1, <2>4
<1>11. At(e - 1, k0) = R[k0]
  BY <1>4, <1>7, <1>9, <1>10, Steady
<1>12. R[k0] = log[e].BeforeFields /\ At(e, k0) = log[e].AfterFields
  BY <1>4, <1>11, Versions
<1>13. Q[k0] = At(e, k0)
  BY <1>1, <1>2, <1>3, <1>12, ApplyChange
<1>14. ASSUME NEW x \in B \cap Events(k0)
       PROVE  x <= e
  <2>1. x \in Nat
    BY <1>4, Versions, SourceTables
  <2> QED
    BY <1>3, <1>8, <2>1
<1>15. \E n \in {0} \cup (B \cap Events(k0)) : (\A x \in B \cap Events(k0) : x <= n) /\ Q[k0] = At(n, k0)
  BY <1>4, <1>13, <1>14
<1>16. ASSUME NEW k \in KeyValues
       PROVE  \E n \in {0} \cup (B \cap Events(k)) : (\A x \in B \cap Events(k) : x <= n) /\ Q[k] = At(n, k)
  BY <1>6, <1>15
<1> QED
  BY <1>2, <1>16 DEF Reflects

\* The events of A and the first n of batch b.
Through(A, b, n) == A \cup {b[i] : i \in 1 .. n}

\* Batch b can be added to A: nothing in it is in A, and what its events must
\* follow is in A or in b, which is in order.
Addable(A, b) ==
  /\ Increasing(b) /\ VsnsIn(b) \cap A = {} /\ VsnsIn(b) \subseteq DataVsns
  /\ \A e \in VsnsIn(b) : \A f \in DataVsns : Ordered!MustPrecede(f, e) => f \in A \cup VsnsIn(b)

\* After each event of such a batch the applied events are closed.
LEMMA ThroughClosed ==
  ASSUME log \in Logs, NEW A, OrderClosed(A), NEW b \in Seq(Nat), Addable(A, b), NEW n \in 0 .. Len(b)
  PROVE  OrderClosed(Through(A, b, n))
<1>1. Len(b) \in Nat /\ DOMAIN b = 1 .. Len(b) /\ \A j \in 1 .. Len(b) : b[j] \in Nat
  BY LenProperties
<1>2. VsnsIn(b) = {b[j] : j \in 1 .. Len(b)}
  BY <1>1 DEF VsnsIn
<1>3. \A j \in 1 .. n : j \in 1 .. Len(b) /\ b[j] \in VsnsIn(b)
  BY <1>1, <1>2
<1>4. Through(A, b, n) \subseteq DataVsns
  BY <1>3 DEF Through, OrderClosed, Addable
<1>5. ASSUME NEW e \in Through(A, b, n), NEW f \in DataVsns, Ordered!MustPrecede(f, e)
      PROVE  f \in Through(A, b, n)
  <2>1. CASE e \in A
    BY <1>5, <2>1 DEF OrderClosed, Through
  <2>2. CASE e \notin A
    <3>1. PICK j \in 1 .. n : e = b[j]
      BY <2>2 DEF Through
    <3>2. f < e
      BY <1>5, PrecedenceCases
    <3>3. f \in A \cup VsnsIn(b)
      BY <1>3, <1>5, <3>1 DEF Addable
    <3>4. CASE f \in A
      BY <3>4 DEF Through
    <3>5. CASE f \in VsnsIn(b)
      <4>1. PICK h \in 1 .. Len(b) : f = b[h]
        BY <1>2, <3>5
      <4>2. ~(j < h)
        <5> SUFFICES ASSUME j < h PROVE FALSE
          OBVIOUS
        <5>1. b[j] < b[h]
          BY <1>1, <1>3, <3>1 DEF Addable, Increasing
        <5> QED
          BY <1>1, <1>3, <3>1, <3>2, <4>1, <5>1
      <4>3. h \in 1 .. n
        BY <1>1, <4>2
      <4> QED
        BY <4>1, <4>3 DEF Through
    <3> QED
      BY <3>3, <3>4, <3>5
  <2> QED
    BY <2>1, <2>2
<1> QED
  BY <1>4, <1>5 DEF OrderClosed

\* And the table reflects them.
LEMMA BatchReflects ==
  ASSUME log \in Logs, NEW A, OrderClosed(A), NEW b \in Seq(Nat), Addable(A, b),
         NEW R \in Rows, Reflects(R, A), NEW n \in 0 .. Len(b)
  PROVE  Reflects(RowsThrough(R, b)[n], Through(A, b, n))
<1>1. Len(b) \in Nat /\ DOMAIN b = 1 .. Len(b) /\ \A j \in 1 .. Len(b) : b[j] \in Nat
  BY LenProperties
<1>2. PICK T : T = RowsThrough(R, b)
  OBVIOUS
<1>3. /\ T \in [0 .. Len(b) -> Rows] /\ T[0] = R
      /\ \A j \in 1 .. Len(b) : T[j] = ApplyEvent(T[j - 1], log[b[j]])
  BY <1>2, BatchTables DEF Addable
<1> DEFINE Bad == {j \in 0 .. Len(b) : ~Reflects(T[j], Through(A, b, j))}
<1>4. SUFFICES ASSUME Bad # {} PROVE FALSE
  BY <1>2
<1>5. PICK j \in Bad : \A y \in Bad : j <= y
  <2>1. Bad \in SUBSET Nat
    BY <1>1
  <2> HIDE DEF Bad
  <2> QED
    BY <1>4, <2>1, Smallest
<1>6. j # 0
  <2>1. Through(A, b, 0) = A
    BY DEF Through
  <2> QED
    BY <1>3, <2>1
<1>7. j \in 1 .. Len(b) /\ j - 1 \in 0 .. Len(b) /\ ~(j <= j - 1)
  BY <1>1, <1>6
<1>8. Reflects(T[j - 1], Through(A, b, j - 1))
  BY <1>5, <1>7
<1>9. b[j] \in VsnsIn(b) /\ b[j] \in DataVsns /\ b[j] \notin A
  <2>1. b[j] \in VsnsIn(b)
    BY <1>1, <1>7 DEF VsnsIn
  <2> QED
    BY <2>1 DEF Addable
<1>10. Through(A, b, j) = Through(A, b, j - 1) \cup {b[j]}
  <2>1. 1 .. j = (1 .. j - 1) \cup {j}
    BY <1>7
  <2> QED
    BY <2>1 DEF Through
<1>11. b[j] \notin Through(A, b, j - 1)
  <2>1. \A h \in 1 .. j - 1 : b[h] < b[j] /\ b[h] \in Nat /\ b[j] \in Nat
    BY <1>1, <1>7 DEF Addable, Increasing
  <2>2. \A h \in 1 .. j - 1 : b[h] # b[j]
    BY <2>1
  <2> QED
    BY <1>9, <2>2 DEF Through
<1>12. OrderClosed(Through(A, b, j)) /\ OrderClosed(Through(A, b, j - 1))
  BY <1>7, ThroughClosed
<1>13. T[j - 1] \in Rows
  BY <1>3, <1>7
<1>14. Reflects(ApplyEvent(T[j - 1], log[b[j]]), Through(A, b, j))
  BY <1>8, <1>9, <1>10, <1>11, <1>12, <1>13, ApplyNext
<1> QED
  BY <1>3, <1>7, <1>14

-----------------------------------------------------------------------------
(* Every event is applied once.                                            *)

\* Only a commit writes to the target database.
LEMMA TargetWriters ==
  ASSUME [Next]_vars
  PROVE  \/ UNCHANGED <<rows, lastVsn, numEvents, applied>>
         \/ \E c \in Channels : ExecuteBatch(c) \/ CommitLands(c)
<1> USE DEF dbVars
<1>1. CASE Main
  BY <1>1 DEF Main, StartStreaming, NextSegment, ReadEvent, ReadEndOfSegment, WaitUntilNoConflict,
     Put, SendEvent, SendEndOfSegment, Drained, MarkSegmentProcessed
<1>2. ASSUME NEW c \in Channels, Batching(c) \/ Executing(c) \/ Database(c) \/ ExecuteBatchError(c)
      PROVE  \/ UNCHANGED <<rows, lastVsn, numEvents, applied>>
             \/ ExecuteBatch(c) \/ CommitLands(c)
  BY <1>2 DEF Batching, ReceiveEvent, IgnoreEvent, ReceiveFlush, ReceiveEndOfSegment, Timeout,
     Executing, CheckAlreadyImported, RetriesExhausted, FinishBatch, Database, CommitAborts,
     ExecuteBatchError
<1>3. CASE Crash \/ Finished \/ UNCHANGED vars
  BY <1>3 DEF Crash, Finished, vars
<1> QED
  BY <1>1, <1>2, <1>3 DEF Next

\* The transaction of batch b on channel c is committed.
Landing(c, b) ==
  /\ b \in Seq(Nat) /\ b # <<>>
  /\ Commit(c, b) /\ Committable(c, b) /\ Increasing(b) /\ Beyond(b, lastVsn[c])
  /\ \/ ExecuteBatch(c) /\ b = batch[c]
     \/ CommitLands(c) /\ b = pending[c] /\ (pc = "down" \/ (wpc[c] = "retry" /\ b = batch[c]))

\* Whatever commits is beyond the channel's last_applied_vsn.
LEMMA Landings ==
  ASSUME IInv, InvFresh, [Next]_vars
  PROVE  \/ UNCHANGED <<rows, lastVsn, numEvents, applied>>
         \/ \E c \in Channels : \E b : Landing(c, b)
<1>1. ASSUME NEW c \in Channels, ExecuteBatch(c)
      PROVE  Landing(c, batch[c])
  <2>1. batch[c] \in Seq(Nat) /\ batch[c] # <<>> /\ Increasing(batch[c]) /\ wpc[c] = "exec"
    BY <1>1 DEF ExecuteBatch, IInv, InvWorkers, InvQueues, TypeOK, TypeWorkers
  <2>2. Beyond(batch[c], lastVsn[c])
    BY <2>1 DEF InvFresh, FreshBatch
  <2> QED
    BY <1>1, <2>1, <2>2, BatchCommittable DEF ExecuteBatch, Landing
<1>2. ASSUME NEW c \in Channels, CommitLands(c)
      PROVE  Landing(c, pending[c])
  <2>1. pending[c] \in Seq(Nat) /\ pending[c] # <<>> /\ Committable(c, pending[c])
    BY <1>2 DEF CommitLands, IInv, InvVsn, TypeOK, TypeDatabases
  <2>2. FreshPending(c)
    BY DEF InvFresh
  <2> QED
    BY <1>2, <2>1, <2>2 DEF CommitLands, Landing, FreshPending
<1> QED
  BY <1>1, <1>2, TargetWriters

\* What a landing does to the vsns of the channels.
LEMMA LandingVsns ==
  ASSUME IInv, InvFresh, NEW c \in Channels, NEW b, Landing(c, b)
  PROVE  /\ lastVsn'[c] = GetLastVsn(b) /\ GetLastVsn(b) \in VsnsIn(b) /\ GetLastVsn(b) \in Nat
         /\ lastVsn[c] \in Int /\ lastVsn[c] < GetLastVsn(b)
         /\ \A d \in Channels : d # c => lastVsn'[d] = lastVsn[d]
         /\ applied' = applied \cup VsnsIn(b)
         /\ \A v \in VsnsIn(b) : v \in DataVsns /\ ChannelOf(v) = c /\ v <= GetLastVsn(b)
         /\ VsnsIn(b) \cap applied = {}
<1>1. b \in Seq(Nat) /\ b # <<>> /\ Commit(c, b) /\ Committable(c, b) /\ Increasing(b) /\ Beyond(b, lastVsn[c])
  BY DEF Landing
<1>2. GetLastVsn(b) \in VsnsIn(b) /\ \A v \in VsnsIn(b) : v <= GetLastVsn(b)
  BY <1>1, LastOfBatch
<1>3. lastVsn \in [Channels -> Int]
  BY DEF IInv, TypeOK, TypeDatabases
<1>4. /\ lastVsn' = [lastVsn EXCEPT ![c] = GetLastVsn(b)]
      /\ applied' = applied \cup VsnsIn(b)
  BY <1>1 DEF Commit
<1>5. GetLastVsn(b) \in Nat /\ lastVsn[c] < GetLastVsn(b)
  BY <1>1, <1>2, <1>3 DEF Beyond, VsnsIn
<1>6. \A v \in VsnsIn(b) : v \in DataVsns /\ ChannelOf(v) = c
  BY <1>1 DEF Committable
<1>7. ASSUME NEW v \in VsnsIn(b), v \in applied PROVE FALSE
  <2>1. v <= lastVsn[c] /\ v > lastVsn[c] /\ v \in Nat
    BY <1>1, <1>6, <1>7 DEF InvFresh, FreshApplied, Beyond, VsnsIn
  <2> QED
    BY <1>3, <2>1
<1> QED
  BY <1>2, <1>3, <1>4, <1>5, <1>6, <1>7

\* A step keeps what a channel has applied at or below its last_applied_vsn.
LEMMA FreshAppliedStep ==
  ASSUME IInv, InvFresh, [Next]_vars, NEW c \in Channels
  PROVE  FreshApplied(c)'
<1>1. \A v : ChannelOf(v)' = ChannelOf(v)
  BY Writers, SameLog DEF Writes
<1>2. \A v \in applied : ChannelOf(v) = c => v <= lastVsn[c]
  BY DEF InvFresh, FreshApplied
<1>3. applied \in SUBSET Nat /\ lastVsn \in [Channels -> Int]
  BY DEF IInv, TypeOK, TypeDatabases
<1>4. CASE UNCHANGED <<rows, lastVsn, numEvents, applied>>
  BY <1>1, <1>2, <1>4 DEF FreshApplied
<1>5. ASSUME NEW d \in Channels, NEW b, Landing(d, b)
      PROVE  FreshApplied(c)'
  <2>1. SUFFICES ASSUME NEW v \in applied', ChannelOf(v) = c
                 PROVE  v <= lastVsn'[c]
    BY <1>1, <2>1 DEF FreshApplied
  <2>2. CASE d = c
    <3>1. /\ lastVsn'[c] = GetLastVsn(b) /\ lastVsn[c] < GetLastVsn(b) /\ GetLastVsn(b) \in Nat
          /\ v \in applied \/ v <= GetLastVsn(b)
      BY <1>5, <2>1, <2>2, LandingVsns
    <3>2. v \in applied => v \in Nat /\ v <= lastVsn[c]
      BY <1>2, <1>3, <2>1
    <3> QED
      BY <1>3, <3>1, <3>2
  <2>3. CASE d # c
    BY <1>2, <1>5, <2>1, <2>3, LandingVsns
  <2> QED
    BY <2>2, <2>3
<1> QED
  BY <1>4, <1>5, Landings

\* A channel gets events only from SendEvent.
LEMMA ChanGrows ==
  ASSUME IInv, [Next]_vars, NEW c \in Channels, NEW v \in VsnsIn(chan'[c])
  PROVE  v \in VsnsIn(chan[c]) \/ (SendEvent /\ c = ChannelOf(cur) /\ v = cur)
<1>1. chan[c] \in Seq(Items) /\ cur \in Items
  BY DEF IInv, TypeOK, TypeChannels, TypeMain, Items
<1>2. FLUSH_BATCH_EVENT \in Items \ Nat /\ END_OF_QUEUE_SEGMENT_EVENT \in Items \ Nat
  BY ImportAssumption DEF Items
<1>3. ASSUME NEW x \in Items, chan'[c] = Append(chan[c], x)
      PROVE  v \in VsnsIn(chan[c]) \/ (x \in Nat /\ v = x)
  BY <1>1, <1>3, AppendQueue
<1>4. ASSUME chan[c] # <<>>, chan'[c] = Tail(chan[c])
      PROVE  v \in VsnsIn(chan[c])
  BY <1>1, <1>4, TailQueue
<1>5. ASSUME chan'[c] = <<>> PROVE FALSE
  BY <1>5, EmptyQueue
<1>6. Moves(c)
  BY ChannelMoves
<1> QED
  BY <1>1, <1>2, <1>3, <1>4, <1>5, <1>6 DEF Moves

\* Where a landing batch comes from, its channel holds only later events.
LEMMA LandingChan ==
  ASSUME IInv, NEW c \in Channels, NEW b, Landing(c, b)
  PROVE  /\ UNCHANGED <<chan, meta, pc, seg, cur>>
         /\ \A x \in VsnsIn(b), y \in VsnsIn(chan[c]) : x < y
         /\ pc # "down" => ~Idle /\ \A x \in VsnsIn(b) : x < cur
<1>1. UNCHANGED <<chan, meta, pc, seg, cur>>
  BY DEF Landing, ExecuteBatch, CommitLands, mainVars
<1>2. CASE pc = "down"
  <2>1. chan[c] = <<>>
    BY <1>2 DEF IInv, InvIdle, Idle
  <2> QED
    BY <1>1, <1>2, <2>1, EmptyQueue
<1>3. CASE pc # "down"
  <2>1. b = batch[c] /\ wpc[c] \in {"exec", "retry"}
    BY <1>3 DEF Landing, ExecuteBatch
  <2>2. ~Idle
    BY <2>1 DEF IInv, InvIdle
  <2>3. \A x \in VsnsIn(b), y \in VsnsIn(chan[c]) : x < y
    BY <2>1 DEF IInv, InvQueues
  <2>4. \A x \in VsnsIn(b) : x < cur
    BY <2>1 DEF IInv, InvQueues, InFlight
  <2> QED
    BY <1>1, <2>2, <2>3, <2>4
<1> QED
  BY <1>2, <1>3

\* What waits in a channel stays beyond last_applied_vsn, or to be ignored.
LEMMA FreshChanStep ==
  ASSUME IInv, InvFresh, InvCursor, [Next]_vars, NEW c \in Channels
  PROVE  FreshChan(c)'
<1>1. SUFFICES ASSUME NEW v \in VsnsIn(chan'[c])
               PROVE  v <= meta'[c] \/ v > lastVsn'[c]
  BY <1>1 DEF FreshChan, VsnsIn
<1>2. v \in Nat /\ lastVsn \in [Channels -> Int] /\ meta \in [Channels -> Int]
  BY DEF VsnsIn, IInv, TypeOK, TypeDatabases, TypeMain
<1>3. \A y \in VsnsIn(chan[c]) : y <= meta[c] \/ y > lastVsn[c]
  BY DEF InvFresh, FreshChan
<1>4. CASE Gone
  BY <1>4, GoneState, EmptyQueue DEF ProcessGone
<1>5. CASE StartStreaming
  <2>1. chan'[c] = <<>>
    BY <1>5 DEF StartStreaming, IInv, InvIdle, Idle
  <2> QED
    BY <2>1, EmptyQueue
<1>6. ASSUME NEW d \in Channels, NEW b, Landing(d, b)
      PROVE  v <= meta'[c] \/ v > lastVsn'[c]
  <2>1. v \in VsnsIn(chan[c]) /\ meta' = meta
    BY <1>6, LandingChan
  <2>2. CASE d = c
    <3>1. GetLastVsn(b) < v /\ lastVsn'[c] = GetLastVsn(b) /\ GetLastVsn(b) \in Nat
      BY <1>6, <2>1, <2>2, LandingChan, LandingVsns
    <3> QED
      BY <1>2, <3>1
  <2>3. CASE d # c
    <3>1. lastVsn'[c] = lastVsn[c]
      BY <1>6, <2>3, LandingVsns
    <3> QED
      BY <1>3, <2>1, <3>1
  <2> QED
    BY <2>2, <2>3
<1>7. CASE UNCHANGED <<rows, lastVsn, numEvents, applied>> /\ ~Gone /\ ~StartStreaming
  <2>1. lastVsn' = lastVsn /\ meta' = meta
    BY <1>7, Writers DEF Writes
  <2>2. CASE SendEvent /\ v = cur
    <3>1. lastVsn[c] = meta[c] \/ lastVsn[c] < cur
      BY <2>2 DEF SendEvent, InvCursor
    <3> QED
      BY <1>2, <2>1, <2>2, <3>1
  <2> QED
    BY <1>3, <2>1, <2>2, ChanGrows
<1> QED
  BY <1>4, <1>5, <1>6, <1>7, Landings

\* The goroutine of channel c, or the transaction it waits for, takes a step.
OwnStep(c) ==
  \/ ReceiveEvent(c) \/ ReceiveFlush(c) \/ ReceiveEndOfSegment(c) \/ Timeout(c)
  \/ ExecuteBatch(c) \/ ExecuteBatchError(c) \/ CheckAlreadyImported(c) \/ FinishBatch(c)
  \/ CommitLands(c) \/ CommitAborts(c)

\* Other steps leave it and its batch alone, except where all start or stop.
LEMMA WorkerMoves ==
  ASSUME IInv, [Next]_vars, NEW c \in Channels
  PROVE  \/ Gone \/ NextSegment \/ MarkSegmentProcessed \/ OwnStep(c)
         \/ /\ wpc'[c] = wpc[c] /\ batch'[c] = batch[c]
            /\ lastVsn'[c] = lastVsn[c] /\ pending'[c] = pending[c]
<1> DEFINE Same == /\ wpc'[c] = wpc[c] /\ batch'[c] = batch[c]
                   /\ lastVsn'[c] = lastVsn[c] /\ pending'[c] = pending[c]
<1> USE DEF dbVars, workVars
<1>1. CASE Main /\ ~NextSegment /\ ~MarkSegmentProcessed
  <2>1. Same
    BY <1>1 DEF Main, StartStreaming, ReadEvent, ReadEndOfSegment, WaitUntilNoConflict,
       Put, SendEvent, SendEndOfSegment, Drained
  <2> QED
    BY <2>1
<1>2. ASSUME NEW d \in Channels, d # c, OwnStep(d)
      PROVE  Same
  <2>1. /\ wpc \in [Channels -> {"off", "batching", "exec", "retry", "applied", "done"}]
        /\ batch \in [Channels -> Seq(Nat)]
        /\ lastVsn \in [Channels -> Int] /\ pending \in [Channels -> Seq(Nat)]
    BY DEF IInv, TypeOK, TypeWorkers, TypeDatabases
  <2>2. CASE ReceiveEvent(d) \/ ReceiveFlush(d) \/ ReceiveEndOfSegment(d) \/ Timeout(d) \/ FinishBatch(d)
    BY <1>2, <2>1, <2>2 DEF ReceiveEvent, ReceiveFlush, ReceiveEndOfSegment, Timeout, FinishBatch
  <2>3. CASE ExecuteBatch(d) \/ CommitLands(d)
    BY <1>2, <2>1, <2>3 DEF ExecuteBatch, CommitLands, Commit
  <2>4. CASE ExecuteBatchError(d) \/ CheckAlreadyImported(d) \/ CommitAborts(d)
    BY <1>2, <2>1, <2>4 DEF ExecuteBatchError, CheckAlreadyImported, CommitAborts
  <2> QED
    BY <1>2, <2>2, <2>3, <2>4 DEF OwnStep
<1>3. ASSUME NEW d \in Channels, IgnoreEvent(d)
      PROVE  Same
  BY <1>3 DEF IgnoreEvent
<1>4. CASE Finished \/ UNCHANGED vars
  BY <1>4 DEF Finished, vars
<1>5. \/ Main \/ Gone \/ Finished \/ UNCHANGED vars
      \/ \E d \in Channels : OwnStep(d) \/ IgnoreEvent(d)
  BY DEF Next, Batching, Executing, Database, Gone, OwnStep
<1> QED
  BY <1>1, <1>2, <1>3, <1>4, <1>5

\* While channel c has a commit in doubt and the process is there, the commit
\* is that of the batch its goroutine retries.
LEMMA NothingPending ==
  ASSUME IInv, InvFresh, NEW c \in Channels, wpc[c] # "retry", pc # "down"
  PROVE  pending[c] = <<>>
BY DEF InvFresh, FreshPending

\* A step of the goroutine of channel c keeps its batch and its commit in doubt
\* beyond last_applied_vsn.
LEMMA FreshOwnStep ==
  ASSUME ~LateLanding, IInv, InvFresh, NEW c \in Channels, OwnStep(c)
  PROVE  FreshBatch(c)' /\ FreshPending(c)'
<1>1. /\ wpc \in [Channels -> {"off", "batching", "exec", "retry", "applied", "done"}]
      /\ batch \in [Channels -> Seq(Nat)] /\ chan[c] \in Seq(Items)
      /\ lastVsn \in [Channels -> Int] /\ pending \in [Channels -> Seq(Nat)]
      /\ meta \in [Channels -> Int]
  BY DEF IInv, TypeOK, TypeWorkers, TypeDatabases, TypeMain, TypeChannels
<1>2. FreshBatch(c) /\ FreshPending(c) /\ FreshChan(c)
  BY DEF InvFresh
<1>3. wpc[c] # "off" => pc # "down"
  BY DEF IInv, InvIdle, Idle
<1>4. ASSUME wpc[c] \in {"batching", "applied"} PROVE pending[c] = <<>>
  BY <1>3, <1>4, NothingPending
<1> USE DEF dbVars, workVars, mainVars
<1>5. CASE ReceiveEvent(c)
  <2>1. PICK x : x = Head(chan[c])
    OBVIOUS
  <2>2. /\ wpc[c] = "batching" /\ chan[c] # <<>> /\ x \in Nat /\ x > meta[c]
        /\ batch'[c] = Append(batch[c], x) /\ wpc'[c] \in {"batching", "exec"}
        /\ UNCHANGED <<lastVsn, pending>>
    BY <1>1, <1>5, <2>1 DEF ReceiveEvent
  <2>3. x \in VsnsIn(chan[c])
    BY <1>1, <2>1, <2>2, TailQueue
  <2>4. x > lastVsn[c]
    BY <1>1, <1>2, <2>2, <2>3 DEF FreshChan
  <2>5. VsnsIn(Append(batch[c], x)) = VsnsIn(batch[c]) \cup {x}
    <3>1. batch[c] \in Seq(Nat) /\ x \in Nat
      BY <1>1, <2>2
    <3>2. VsnsIn(Append(batch[c], x)) = VsnsIn(batch[c]) \cup ({x} \cap Nat)
      BY <3>1, AppendQueue
    <3>3. {x} \cap Nat = {x}
      BY <3>1
    <3> QED
      BY <3>2, <3>3
  <2>6. Beyond(batch'[c], lastVsn'[c])
    BY <1>2, <2>2, <2>4, <2>5 DEF FreshBatch, Beyond
  <2>7. FreshBatch(c)'
    BY <2>2, <2>6 DEF FreshBatch
  <2>8. FreshPending(c)'
    BY <1>4, <2>2 DEF FreshPending
  <2> QED
    BY <2>7, <2>8
<1>6. CASE ReceiveFlush(c) \/ ReceiveEndOfSegment(c) \/ Timeout(c)
  <2>1. /\ wpc[c] = "batching" /\ wpc'[c] # "retry"
        /\ UNCHANGED <<lastVsn, pending, batch>>
    BY <1>1, <1>6 DEF ReceiveFlush, ReceiveEndOfSegment, Timeout, AfterBatching
  <2>2. pending[c] = <<>>
    BY <1>4, <2>1
  <2> QED
    BY <1>2, <2>1, <2>2 DEF FreshBatch, FreshPending
<1>7. CASE FinishBatch(c)
  <2>1. /\ wpc[c] = "applied" /\ wpc'[c] # "retry" /\ batch'[c] = <<>>
        /\ UNCHANGED <<lastVsn, pending>>
    BY <1>1, <1>7 DEF FinishBatch
  <2>2. Beyond(batch'[c], lastVsn'[c])
    BY <2>1, EmptyQueue DEF Beyond
  <2> QED
    BY <1>4, <2>1, <2>2 DEF FreshBatch, FreshPending
<1>8. CASE ExecuteBatch(c)
  BY <1>1, <1>8 DEF ExecuteBatch, FreshBatch, FreshPending
<1>9. CASE ExecuteBatchError(c)
  <2>1. /\ wpc[c] = "exec" /\ wpc'[c] = "retry" /\ UNCHANGED <<lastVsn, batch>>
        /\ pending[c] = <<>> /\ pending'[c] \in {<<>>, batch[c]}
    BY <1>1, <1>9 DEF ExecuteBatchError
  <2>2. Increasing(batch[c])
    BY DEF IInv, InvQueues
  <2> QED
    BY <1>2, <2>1, <2>2 DEF FreshBatch, FreshPending
<1>10. CASE CheckAlreadyImported(c)
  <2>1. /\ wpc[c] = "retry" /\ pending[c] = <<>> /\ UNCHANGED <<lastVsn, batch, pending>>
        /\ wpc'[c] = "applied" \/ (wpc'[c] = "exec" /\ ~AlreadyImported(c))
    BY <1>1, <1>10 DEF CheckAlreadyImported
  <2> QED
    BY <1>2, <2>1 DEF FreshBatch, FreshPending
<1>11. CASE CommitLands(c)
  <2>1. /\ pending[c] # <<>> /\ pending'[c] = <<>> /\ UNCHANGED <<wpc, batch>>
        /\ lastVsn'[c] = GetLastVsn(pending[c])
    BY <1>1, <1>11 DEF CommitLands, Commit
  <2>2. pc = "down" \/ (wpc[c] = "retry" /\ pending[c] = batch[c])
    BY <1>2, <2>1 DEF FreshPending
  <2>3. GetLastVsn(pending[c]) \in Nat
    BY <1>1, <2>1, LastOfBatch DEF VsnsIn
  <2>4. CASE wpc[c] = "retry" /\ pending[c] = batch[c]
    <3>1. AlreadyImported(c)'
      BY <2>1, <2>3, <2>4 DEF AlreadyImported, GetLastVsn
    <3> QED
      BY <2>1, <2>4, <3>1 DEF FreshBatch, FreshPending
  <2>5. CASE pc = "down"
    <3>1. wpc[c] = "off"
      BY <1>3, <2>5
    <3> QED
      BY <2>1, <3>1 DEF FreshBatch, FreshPending
  <2> QED
    BY <2>2, <2>4, <2>5
<1>12. CASE CommitAborts(c)
  <2>1. pending[c] # <<>> /\ pending'[c] = <<>> /\ UNCHANGED <<wpc, batch, lastVsn>>
    BY <1>1, <1>12 DEF CommitAborts
  <2> QED
    BY <1>2, <2>1 DEF FreshBatch, FreshPending
<1> QED
  BY <1>5, <1>6, <1>7, <1>8, <1>9, <1>10, <1>11, <1>12 DEF OwnStep

\* Only StartStreaming brings the process back.
LEMMA LeaveDown ==
  ASSUME IInv, [Next]_vars, pc = "down", ~StartStreaming
  PROVE  pc' = "down"
<1>1. CASE Main
  BY <1>1 DEF Main, NextSegment, ReadEvent, ReadEndOfSegment, WaitUntilNoConflict, Put,
     SendEvent, SendEndOfSegment, Drained, MarkSegmentProcessed
<1>2. CASE Gone
  BY <1>2, GoneState DEF ProcessGone
<1>3. ASSUME NEW c \in Channels, IgnoreEvent(c) \/ FinishBatch(c)
      PROVE  pc' = "down"
  BY <1>3 DEF IgnoreEvent, FinishBatch, RemoveEvents
<1> QED
  BY <1>1, <1>2, <1>3, Writers DEF Writes

\* Every step keeps batches and commits in doubt beyond last_applied_vsn.
LEMMA FreshWorkStep ==
  ASSUME ~LateLanding, IInv, InvFresh, [Next]_vars, NEW c \in Channels
  PROVE  FreshBatch(c)' /\ FreshPending(c)'
<1>1. FreshBatch(c) /\ FreshPending(c)
  BY DEF InvFresh
<1>2. CASE Gone
  <2>1. pc' = "down" /\ wpc'[c] = "off" /\ UNCHANGED <<lastVsn, pending>>
    BY <1>2, GoneState DEF ProcessGone
  <2> QED
    BY <1>1, <2>1 DEF FreshBatch, FreshPending
<1>3. CASE NextSegment
  <2>1. pc = "next" /\ wpc'[c] = "batching" /\ UNCHANGED <<lastVsn, pending, batch>>
    BY <1>3 DEF NextSegment, dbVars
  <2>2. batch[c] = <<>> /\ wpc[c] = "off"
    BY <2>1 DEF IInv, InvIdle, Idle
  <2>3. pending'[c] = <<>> /\ Beyond(batch'[c], lastVsn'[c])
    BY <2>1, <2>2, NothingPending, EmptyQueue DEF Beyond
  <2> QED
    BY <2>1, <2>3 DEF FreshBatch, FreshPending
<1>4. CASE MarkSegmentProcessed
  <2>1. pc = "mark" /\ wpc'[c] = "off" /\ pending' = pending
    BY <1>4 DEF MarkSegmentProcessed, dbVars
  <2>2. wpc[c] = "done"
    BY <2>1 DEF IInv, InvWorkers
  <2>3. pending'[c] = <<>>
    BY <2>1, <2>2, NothingPending
  <2> QED
    BY <2>1, <2>3 DEF FreshBatch, FreshPending
<1>5. CASE /\ wpc'[c] = wpc[c] /\ batch'[c] = batch[c]
           /\ lastVsn'[c] = lastVsn[c] /\ pending'[c] = pending[c]
  <2>1. AlreadyImported(c)' = AlreadyImported(c)
    BY <1>5 DEF AlreadyImported, GetLastVsn
  <2>2. FreshBatch(c)'
    BY <1>1, <1>5, <2>1 DEF FreshBatch
  <2>3. pending[c] # <<>> /\ pc = "down" => pc' = "down"
    BY LeaveDown DEF StartStreaming
  <2>4. FreshPending(c)'
    BY <1>1, <1>5, <2>3 DEF FreshPending
  <2> QED
    BY <2>2, <2>4
<1> QED
  BY <1>2, <1>3, <1>4, <1>5, FreshOwnStep, WorkerMoves

\* A segment holds at least one vsn.
LEMMA SegmentBounds ==
  ASSUME NEW s \in Nat, s >= 1
  PROVE  LastVsn(s - 1) < LastVsn(s) /\ FirstVsn(s) = LastVsn(s - 1) + 1 /\ LastVsn(s - 1) \in Nat /\ LastVsn(s) \in Nat
<1>1. PICK E : E = EventsPerSegment
  OBVIOUS
<1>2. E \in Nat /\ E >= 1
  BY <1>1, ImportAssumption
<1>3. (s - 1) * E = s * E - E /\ s * E \in Nat /\ (s - 1) * E \in Nat
  BY <1>2
<1> QED
  BY <1>1, <1>2, <1>3 DEF LastVsn, FirstVsn

\* A step that opens no segment leaves the cursor in it, or takes it forward.
LEMMA CursorInSegment ==
  ASSUME IInv, InvCursor, [Next]_vars, ~Gone, ~NextSegment
  PROVE  /\ seg' = seg /\ cur' \in Nat /\ cur <= cur'
         /\ ~Idle' => cur' <= LastVsn(seg) + 1
         /\ pc' \in {"check", "waiting", "put", "send"} => cur' <= LastVsn(seg)
<1>1. seg' = seg /\ seg \in Nat /\ cur \in Nat /\ LastVsn(seg) \in Nat
  BY Writers, Constants DEF Writes, IInv, TypeOK, TypeMain
<1>2. ~Idle' => ~Idle
  BY LeaveIdle
<1>3. CASE ReadEvent
  <2>1. cur \in SegmentVsns(seg) /\ pc = "read" /\ (cur' = cur \/ (cur' = cur + 1 /\ pc' = "read"))
    BY <1>3 DEF ReadEvent
  <2>2. cur <= LastVsn(seg)
    BY <2>1 DEF SegmentVsns
  <2> QED
    BY <1>1, <2>1, <2>2
<1>4. CASE SendEvent
  <2>1. pc = "send" /\ pc' = "read" /\ cur' = cur + 1
    BY <1>4 DEF SendEvent
  <2>2. cur <= LastVsn(seg)
    BY <2>1 DEF InvCursor
  <2> QED
    BY <1>1, <2>1, <2>2
<1>5. CASE cur' = cur /\ ~ReadEvent
  <2>1. pc' \in {"check", "waiting", "put", "send"} => pc \in {"check", "waiting", "put", "send"}
    <3>1. CASE Main
      BY <1>5, <3>1 DEF Main, StartStreaming, NextSegment, ReadEndOfSegment, WaitUntilNoConflict, Put,
         SendEvent, SendEndOfSegment, Drained, MarkSegmentProcessed
    <3>2. ASSUME NEW c \in Channels, IgnoreEvent(c) \/ FinishBatch(c)
          PROVE  pc' = pc \/ pc = "waiting"
      BY <3>2 DEF IgnoreEvent, FinishBatch, RemoveEvents
    <3> QED
      BY <3>1, <3>2, Writers DEF Writes
  <2>2. /\ ~Idle => cur <= LastVsn(seg) + 1
        /\ pc \in {"check", "waiting", "put", "send"} => cur <= LastVsn(seg)
    BY DEF InvCursor
  <2> QED
    BY <1>1, <1>2, <1>5, <2>1, <2>2
<1> QED
  BY <1>1, <1>3, <1>4, <1>5, CursorStep

\* last_applied_vsn of a channel is what StartStreaming read, or in the part of
\* the queue that the main goroutine has read since.
Read(c) == lastVsn[c] = meta[c] \/ (seg # 0 /\ lastVsn[c] < cur /\ lastVsn[c] <= LastVsn(seg))

\* Every step keeps it so while the process is there.
LEMMA ReadStep ==
  ASSUME IInv, InvFresh, InvCursor, [Next]_vars, pc' # "down", NEW c \in Channels
  PROVE  Read(c)'
<1>1. /\ lastVsn \in [Channels -> Int] /\ meta \in [Channels -> Int] /\ seg \in Nat /\ cur \in Nat
      /\ LastVsn(seg) \in Nat
  BY Constants DEF IInv, TypeOK, TypeDatabases, TypeMain
<1>2. ~Gone
  BY GoneState DEF ProcessGone
<1>3. CASE StartStreaming
  BY <1>3 DEF StartStreaming, GetEventChannelsMetaInfo, Read, dbVars
<1>4. pc # "down" => Read(c)
  BY DEF InvCursor, Read
<1>5. CASE NextSegment
  <2>1. pc = "next" /\ UNCHANGED <<lastVsn, meta>>
    BY <1>5 DEF NextSegment, dbVars
  <2>2. PICK s \in Vsns : SegmentNumToStream(s) /\ seg' = s /\ cur' = FirstVsn(s)
    BY <1>5 DEF NextSegment
  <2>3. s \in Nat /\ s >= 1
    BY DEF Vsns
  <2>4. CASE lastVsn[c] = meta[c]
    BY <2>1, <2>4 DEF Read
  <2>5. CASE lastVsn[c] # meta[c]
    <3>1. seg # 0 /\ lastVsn[c] <= LastVsn(seg)
      BY <1>4, <2>1, <2>5 DEF Read
    <3>2. s - 1 = seg
      BY <1>1, <2>2, <2>3, <3>1 DEF SegmentNumToStream
    <3>3. cur' = LastVsn(seg) + 1 /\ LastVsn(seg) < LastVsn(seg') /\ LastVsn(seg') \in Nat
      BY <2>2, <2>3, <3>2, SegmentBounds
    <3>4. lastVsn'[c] < cur' /\ lastVsn'[c] <= LastVsn(seg') /\ seg' # 0
      BY <1>1, <2>1, <2>2, <2>3, <3>1, <3>3
    <3> QED
      BY <3>4 DEF Read
  <2> QED
    BY <2>4, <2>5
<1>6. ASSUME NEW d \in Channels, NEW b, Landing(d, b), ~NextSegment
      PROVE  Read(c)'
  <2>1. UNCHANGED <<meta, pc, seg, cur>>
    BY <1>6, LandingChan
  <2>2. CASE d # c
    <3>1. lastVsn'[c] = lastVsn[c]
      BY <1>6, <2>2, LandingVsns
    <3> QED
      BY <1>4, <2>1, <3>1 DEF Read
  <2>3. CASE d = c
    <3>1. lastVsn'[c] = GetLastVsn(b) /\ GetLastVsn(b) \in VsnsIn(b) /\ GetLastVsn(b) \in Nat
      BY <1>6, <2>3, LandingVsns
    <3>2. ~Idle /\ GetLastVsn(b) < cur
      BY <1>6, <2>1, <3>1, LandingChan
    <3>3. seg # 0 /\ cur <= LastVsn(seg) + 1
      BY <3>2 DEF IInv, InvSegments, InvCursor
    <3>4. GetLastVsn(b) <= LastVsn(seg)
      BY <1>1, <3>1, <3>2, <3>3
    <3> QED
      BY <2>1, <3>1, <3>2, <3>3, <3>4 DEF Read
  <2> QED
    BY <2>2, <2>3
<1>7. CASE UNCHANGED <<rows, lastVsn, numEvents, applied>> /\ ~NextSegment /\ ~StartStreaming
  <2>1. lastVsn' = lastVsn /\ meta' = meta /\ seg' = seg /\ cur' \in Nat /\ cur <= cur'
    BY <1>2, <1>7, Writers, CursorInSegment DEF Writes
  <2>2. Read(c)
    BY <1>4, <1>7, LeaveDown
  <2>3. lastVsn[c] < cur => lastVsn[c] < cur'
    BY <1>1, <2>1
  <2> QED
    BY <2>1, <2>2, <2>3 DEF Read
<1> QED
  BY <1>3, <1>5, <1>6, <1>7, Landings

\* The cursor stays in its segment, and streaming ends with the cutover.
LEMMA InvCursorStep ==
  ASSUME IInv, InvFresh, InvCursor, [Next]_vars
  PROVE  InvCursor'
<1>1. CASE Gone
  BY <1>1, GoneState DEF ProcessGone, InvCursor, Idle
<1>2. CASE NextSegment
  <2>1. PICK s \in Vsns : seg' = s /\ cur' = FirstVsn(s)
    BY <1>2 DEF NextSegment
  <2>2. s \in Nat /\ s >= 1 /\ pc' = "read"
    BY <1>2 DEF Vsns, NextSegment
  <2>3. cur' <= LastVsn(seg') + 1
    BY <2>1, <2>2, SegmentBounds
  <2> QED
    BY <2>2, <2>3, ReadStep DEF InvCursor, Read
<1>3. CASE ~Gone /\ ~NextSegment
  <2>1. /\ ~Idle' => cur' <= LastVsn(seg') + 1
        /\ pc' \in {"check", "waiting", "put", "send"} => cur' <= LastVsn(seg')
    BY <1>3, CursorInSegment
  <2>2. ASSUME pc' = "done" PROVE cutoverDetected'
    <3>1. CASE StartStreaming
      BY <2>2, <3>1 DEF StartStreaming, metaVars
    <3>2. CASE MarkSegmentProcessed
      BY <2>2, <3>2 DEF MarkSegmentProcessed
    <3>3. CASE ~StartStreaming /\ ~MarkSegmentProcessed
      <4>1. cutoverDetected' = cutoverDetected
        BY <3>3, Writers DEF Writes
      <4>2. pc = "done"
        <5>1. CASE Main
          BY <2>2, <3>3, <5>1 DEF Main, NextSegment, ReadEvent, ReadEndOfSegment, WaitUntilNoConflict,
             Put, SendEvent, SendEndOfSegment, Drained
        <5>2. ASSUME NEW c \in Channels, IgnoreEvent(c) \/ FinishBatch(c)
              PROVE  pc = "done"
          BY <2>2, <5>2 DEF IgnoreEvent, FinishBatch, RemoveEvents
        <5> QED
          BY <1>3, <2>2, <5>1, <5>2, Writers DEF Writes
      <4> QED
        BY <4>1, <4>2 DEF InvCursor
    <3> QED
      BY <3>1, <3>2, <3>3
  <2>3. pc' # "down" => \A c \in Channels : Read(c)'
    BY ReadStep
  <2> QED
    BY <2>1, <2>2, <2>3 DEF InvCursor, Read
<1> QED
  BY <1>1, <1>2, <1>3

-----------------------------------------------------------------------------
(* The rows and the counters.                                              *)

\* The target table holds versions of the source's rows.
InvRows == rows \in Rows /\ Reflects(rows, applied)

\* The applied events are closed under the order.
LEMMA AppliedClosed ==
  ASSUME IInv
  PROVE  OrderClosed(applied)
BY DEF IInv, InvLog, ConflictsInOrder, OrderClosed

\* A landing batch can be added to the applied events.
LEMMA LandingAddable ==
  ASSUME IInv, InvFresh, NEW c \in Channels, NEW b, Landing(c, b)
  PROVE  b \in Seq(Nat) /\ Addable(applied, b)
<1>1. b \in Seq(Nat) /\ Increasing(b) /\ Committable(c, b)
  BY DEF Landing
<1>2. VsnsIn(b) \cap applied = {}
  BY LandingVsns
<1> QED
  BY <1>1, <1>2 DEF Committable, Addable

\* The whole of a batch.
LEMMA ThroughAll ==
  ASSUME NEW A, NEW b \in Seq(Nat)
  PROVE  Through(A, b, Len(b)) = A \cup VsnsIn(b)
<1>1. DOMAIN b = 1 .. Len(b) /\ \A i \in 1 .. Len(b) : b[i] \in Nat
  BY LenProperties
<1> QED
  BY <1>1 DEF Through, VsnsIn

\* The target table reflects the applied events after every step.
LEMMA RowsStep ==
  ASSUME IInv, InvFresh, InvRows, [Next]_vars
  PROVE  InvRows'
<1>1. log' = log /\ log \in Logs
  BY Writers DEF Writes, IInv, InvLog
<1>3. CASE UNCHANGED <<rows, lastVsn, numEvents, applied>>
  BY <1>1, <1>3, SameLog DEF InvRows, Reflects, At, Events
<1>4. ASSUME NEW c \in Channels, NEW b, Landing(c, b)
      PROVE  InvRows'
  <2>1. b \in Seq(Nat) /\ Addable(applied, b) /\ Len(b) \in Nat
    BY <1>4, LandingAddable, LenProperties
  <2>2. rows' = RowsThrough(rows, b)[Len(b)] /\ applied' = applied \cup VsnsIn(b)
    BY <1>4 DEF Landing, Commit
  <2>3. PICK A : A = applied
    OBVIOUS
  <2>4. PICK R \in Rows : R = rows
    BY DEF InvRows
  <2>5. OrderClosed(A) /\ Addable(A, b) /\ Reflects(R, A)
    BY <2>1, <2>3, <2>4, AppliedClosed DEF InvRows
  <2>6. Reflects(RowsThrough(R, b)[Len(b)], Through(A, b, Len(b)))
    BY <1>1, <2>1, <2>5, BatchReflects
  <2>7. RowsThrough(R, b)[Len(b)] \in Rows
    BY <1>1, <2>1, <2>5, BatchTables DEF Addable
  <2>8. PICK Q : Q = RowsThrough(R, b)[Len(b)]
    OBVIOUS
  <2>9. PICK B : B = Through(A, b, Len(b))
    OBVIOUS
  <2>10. rows' = Q /\ applied' = B /\ Q \in Rows /\ Reflects(Q, B)
    BY <2>1, <2>2, <2>3, <2>4, <2>6, <2>7, <2>8, <2>9, ThroughAll
  <2> QED
    BY <1>1, <2>10, SameLog DEF InvRows, Reflects, At, Events
<1> QED
  BY <1>3, <1>4, Landings

\* A batch in order has as many events as vsns.
LEMMA BatchSize ==
  ASSUME NEW b \in Seq(Nat), Increasing(b)
  PROVE  IsFiniteSet(VsnsIn(b)) /\ Cardinality(VsnsIn(b)) = Len(b)
<1>1. Len(b) \in Nat /\ DOMAIN b = 1 .. Len(b) /\ b \in [1 .. Len(b) -> Nat]
  BY LenProperties
<1>2. VsnsIn(b) = {b[i] : i \in 1 .. Len(b)}
  BY <1>1 DEF VsnsIn
<1>3. b \in [1 .. Len(b) -> VsnsIn(b)]
  BY <1>1, <1>2
<1>4. ASSUME NEW i \in 1 .. Len(b), NEW j \in 1 .. Len(b), b[i] = b[j]
      PROVE  i = j
  <2>1. ~(i < j) /\ ~(j < i)
    BY <1>1, <1>4 DEF Increasing
  <2> QED
    BY <1>1, <2>1
<1>5. b \in Injection(1 .. Len(b), VsnsIn(b))
  BY <1>1, <1>3, <1>4 DEF Injection, IsInjective
<1>6. b \in Surjection(1 .. Len(b), VsnsIn(b))
  BY <1>2, <1>3 DEF Surjection
<1>7. ExistsBijection(1 .. Len(b), VsnsIn(b))
  BY <1>5, <1>6 DEF Bijection, ExistsBijection
<1>8. IsFiniteSet(1 .. Len(b))
  BY <1>1, FS_Interval
<1> QED
  BY <1>1, <1>7, <1>8, FS_CountingElements, FS_Bijection

\* Every step counts what it applies.
LEMMA StatsStep ==
  ASSUME IInv, InvFresh, StatsExact, [Next]_vars
  PROVE  StatsExact'
<1>1. log' = log /\ \A v : ChannelOf(v)' = ChannelOf(v)
  BY Writers, SameLog DEF Writes
<1>2. CASE UNCHANGED <<rows, lastVsn, numEvents, applied>>
  BY <1>1, <1>2 DEF StatsExact
<1>3. ASSUME NEW d \in Channels, NEW b, Landing(d, b), NEW c \in Channels
      PROVE  numEvents'[c] = Cardinality({v \in applied' : ChannelOf(v) = c})
  <2>1. numEvents[c] = Cardinality({v \in applied : ChannelOf(v) = c})
    BY DEF StatsExact
  <2>2. /\ applied' = applied \cup VsnsIn(b) /\ VsnsIn(b) \cap applied = {}
        /\ \A v \in VsnsIn(b) : ChannelOf(v) = d
    BY <1>3, LandingVsns
  <2>3. b \in Seq(Nat) /\ Increasing(b) /\ numEvents' = [numEvents EXCEPT ![d] = @ + Len(b)]
    BY <1>3 DEF Landing, Commit
  <2>4. numEvents \in [Channels -> Nat]
    BY DEF IInv, TypeOK, TypeDatabases
  <2>5. CASE d # c
    <3>1. {v \in applied' : ChannelOf(v) = c} = {v \in applied : ChannelOf(v) = c}
      BY <2>2, <2>5
    <3> QED
      BY <2>1, <2>3, <2>4, <2>5, <3>1
  <2>6. CASE d = c
    <3>1. PICK S : S = {v \in applied : ChannelOf(v) = c}
      OBVIOUS
    <3>2. PICK V : V = VsnsIn(b)
      OBVIOUS
    <3>3. {v \in applied' : ChannelOf(v) = c} = S \cup V /\ S \cap V = {}
      BY <2>2, <2>6, <3>1, <3>2
    <3>4. IsFiniteSet(V) /\ Cardinality(V) = Len(b) /\ Len(b) \in Nat
      BY <2>3, <3>2, BatchSize, LenProperties
    <3>5. IsFiniteSet(S)
      <4>1. S \subseteq 1 .. Len(log) /\ Len(log) \in Int
        <5>1. log \in Logs /\ applied \subseteq DataVsns
          BY DEF IInv, InvLog
        <5>2. Len(log) \in Int
          BY <5>1, SourceTables
        <5>3. S \subseteq applied
          BY <3>1
        <5>4. DataVsns \subseteq 1 .. Len(log)
          BY DEF DataVsns, Vsns
        <5> QED
          BY <5>1, <5>2, <5>3, <5>4
      <4>2. IsFiniteSet(1 .. Len(log))
        BY <4>1, FS_Interval
      <4> QED
        BY <4>1, <4>2, FS_Subset
    <3>6. Cardinality(S \cup V) = Cardinality(S) + Cardinality(V) - Cardinality({})
      BY <3>3, <3>4, <3>5, FS_Union
    <3>7. Cardinality({}) = 0 /\ Cardinality(S) \in Nat
      BY <3>5, FS_EmptySet, FS_CardinalityType
    <3>8. numEvents'[c] = numEvents[c] + Len(b)
      BY <2>3, <2>4, <2>6
    <3>9. numEvents[c] = Cardinality(S)
      BY <2>1, <3>1, Zenon
    <3>10. numEvents'[c] = Cardinality(S \cup V)
      BY <3>4, <3>6, <3>7, <3>8, <3>9
    <3> QED
      BY <3>3, <3>10, Zenon
  <2> QED
    BY <2>5, <2>6
<1>4. ASSUME NEW d \in Channels, NEW b, Landing(d, b)
      PROVE  StatsExact'
  BY <1>1, <1>3, <1>4 DEF StatsExact
<1> QED
  BY <1>2, <1>4, Landings

-----------------------------------------------------------------------------
(* The theorems.                                                           *)

\* The invariant of the rows.
RInv == IInv /\ InvFresh /\ InvCursor /\ InvRows /\ StatsExact

\* It holds before the first start.
LEMMA InitRInv == Init => RInv
<1> SUFFICES ASSUME Init
             PROVE  RInv
  OBVIOUS
<1>1. IInv /\ log \in Logs
  BY InitIInv DEF Init
<1>2. \A c \in Channels : /\ wpc[c] = "off" /\ pending[c] = <<>> /\ chan[c] = <<>>
                          /\ numEvents[c] = 0 /\ lastVsn[c] = meta[c]
  BY DEF Init
<1>3. applied = {} /\ rows = InitRows /\ pc = "down"
  BY DEF Init
<1>4. InvFresh
  BY <1>2, <1>3, EmptyQueue DEF InvFresh, FreshApplied, FreshBatch, FreshPending, FreshChan
<1>5. InvCursor
  BY <1>2, <1>3 DEF InvCursor, Idle
<1>6. InvRows
  <2>1. InitRows \in Rows /\ SourceThrough(log)[0] = InitRows
    BY <1>1, ImportAssumption, SourceTables
  <2> QED
    BY <1>3, <2>1 DEF InvRows, Reflects, At
<1>7. StatsExact
  <2>1. ASSUME NEW c \in Channels
        PROVE  numEvents[c] = Cardinality({v \in applied : ChannelOf(v) = c})
    <3>1. {v \in applied : ChannelOf(v) = c} = {}
      BY <1>3
    <3> QED
      BY <1>2, <3>1, FS_EmptySet
  <2> QED
    BY <2>1 DEF StatsExact
<1> QED
  BY <1>1, <1>4, <1>5, <1>6, <1>7 DEF RInv

\* Every step keeps it.
LEMMA StepRInv == ~LateLanding => (RInv /\ [Next]_vars => RInv')
<1> SUFFICES ASSUME ~LateLanding, RInv, [Next]_vars
             PROVE  RInv'
  OBVIOUS
<1>1. IInv /\ InvFresh /\ InvCursor /\ InvRows /\ StatsExact
  BY DEF RInv
<1>2. IInv'
  BY <1>1, StepIInv
<1>3. InvFresh'
  BY <1>1, FreshAppliedStep, FreshWorkStep, FreshChanStep DEF InvFresh
<1> QED
  BY <1>1, <1>2, <1>3, InvCursorStep, RowsStep, StatsStep DEF RInv

\* In a state of the invariant every batch about to be executed meets no
\* unique-index violation.
LEMMA BatchIsSafe == RInv => NoUniqueViolation
<1> SUFFICES ASSUME RInv, NEW c \in Channels, wpc[c] = "exec", pending[c] = <<>>,
                    NEW n \in 0 .. Len(batch[c])
             PROVE  UniqueIndexesHold(RowsThrough(rows, batch[c])[n])
  BY DEF NoUniqueViolation
<1>1. IInv /\ InvFresh /\ InvRows /\ log \in Logs
  BY DEF RInv, IInv, InvLog
<1>2. PICK b : b = batch[c]
  OBVIOUS
<1>3. PICK A : A = applied
  OBVIOUS
<1>4. PICK R \in Rows : R = rows
  BY <1>1 DEF InvRows
<1>5. b \in Seq(Nat) /\ b # <<>> /\ Increasing(b)
  BY <1>1, <1>2 DEF IInv, InvWorkers, InvQueues, TypeOK, TypeWorkers
<1>6. Committable(c, b)
  BY <1>1, <1>2, <1>5, BatchCommittable
<1>7. ASSUME NEW v \in VsnsIn(b), v \in applied PROVE FALSE
  <2>1. v > lastVsn[c] /\ v <= lastVsn[c]
    BY <1>1, <1>2, <1>6, <1>7 DEF InvFresh, FreshBatch, FreshApplied, Beyond, Committable
  <2>2. v \in Nat /\ lastVsn[c] \in Int
    BY <1>1 DEF VsnsIn, IInv, TypeOK, TypeDatabases
  <2> QED
    BY <2>1, <2>2
<1>8. Addable(A, b)
  BY <1>3, <1>5, <1>6, <1>7 DEF Addable, Committable
<1>9. OrderClosed(A) /\ Reflects(R, A) /\ n \in 0 .. Len(b)
  BY <1>1, <1>2, <1>3, <1>4, AppliedClosed DEF InvRows
<1>10. Reflects(RowsThrough(R, b)[n], Through(A, b, n)) /\ OrderClosed(Through(A, b, n))
  BY <1>1, <1>5, <1>8, <1>9, BatchReflects, ThroughClosed
<1>11. UniqueIndexesHold(RowsThrough(R, b)[n])
  BY <1>1, <1>10, UniqueHolds
<1> QED
  BY <1>2, <1>4, <1>11

\* When streaming is done, the table is the source's.
LEMMA DoneConverged == RInv => Converged
<1> SUFFICES ASSUME RInv, pc = "done"
             PROVE  rows = SourceThrough(log)[Len(log)]
  BY DEF Converged
<1>1. IInv /\ log \in Logs /\ rows \in Rows /\ Reflects(rows, applied) /\ cutoverDetected
  BY DEF RInv, IInv, InvLog, InvRows, InvCursor
<1>2. PICK x \in Vsns : Ordered!OwnCutover(x) /\ (\A v \in DataVsns : v < x => v \in applied)
  BY <1>1 DEF IInv, CutoverAfterDrain
<1>3. log[x].Op = "cutover.own" /\ x \in 1 .. Len(log)
  BY <1>2 DEF Ordered!OwnCutover, Vsns
<1>4. x = Len(log) /\ Len(log) \in Nat
  BY <1>1, <1>3, ImportAssumption, SourceTables
<1>5. ASSUME NEW v \in DataVsns PROVE v \in applied
  <2>1. v # x
    BY <1>3 DEF DataVsns, IsCutoverEvent, CutoverOps
  <2>2. v \in 1 .. Len(log)
    BY DEF DataVsns, Vsns
  <2> QED
    BY <1>2, <1>4, <2>1, <2>2
<1>6. PICK N : N = Len(log)
  OBVIOUS
<1>7. ASSUME NEW k \in KeyValues
      PROVE  rows[k] = At(N, k)
  <2>1. PICK m \in {0} \cup (applied \cap Events(k)) :
          (\A y \in applied \cap Events(k) : y <= m) /\ rows[k] = At(m, k)
    BY <1>1 DEF Reflects
  <2>2. m \in 0 .. N /\ N \in 0 .. N /\ m <= N
    BY <1>1, <1>4, <1>6, Versions
  <2>3. ASSUME NEW y \in Events(k) PROVE ~(m < y /\ y <= N)
    <3>1. y <= m /\ y \in Nat
      BY <1>1, <1>5, <2>1, Versions, SourceTables DEF Events
    <3> QED
      BY <1>4, <1>6, <2>2, <3>1
  <2>4. At(N, k) = At(m, k)
    BY <1>1, <1>6, <2>2, <2>3, Steady
  <2> QED
    BY <2>1, <2>4
<1>8. SourceThrough(log)[N] \in Rows
  BY <1>1, <1>4, <1>6, SourceTables
<1> QED
  BY <1>1, <1>6, <1>7, <1>8 DEF At, Rows

\* No batch that ExecuteBatch is about to run can hit a unique-index violation
\* at any of its statements, whatever the channels interleave, for every
\* history of a source with the same unique indexes, as long as an in-doubt
\* commit is settled before last_applied_vsn is read again.
THEOREM EveryBatchExecutes ==
  ASSUME ~LateLanding
  PROVE  Spec => []NoUniqueViolation
<1>1. RInv /\ [Next]_vars => RInv'
  BY StepRInv
<1> QED
  BY <1>1, InitRInv, BatchIsSafe, PTL DEF Spec

\* When streamChanges returns at the cutover, the target table is the source's.
THEOREM TargetConverges ==
  ASSUME ~LateLanding
  PROVE  Spec => []Converged
<1>1. RInv /\ [Next]_vars => RInv'
  BY StepRInv
<1> QED
  BY <1>1, InitRInv, DoneConverged, PTL DEF Spec

\* num_inserts, num_updates and num_deletes count every applied event once,
\* across retries, in-doubt commits and restarts.
THEOREM CountersExact ==
  ASSUME ~LateLanding
  PROVE  Spec => []StatsExact
<1>1. RInv /\ [Next]_vars => RInv'
  BY StepRInv
<1>2. RInv => StatsExact
  BY DEF RInv
<1> QED
  BY <1>1, <1>2, InitRInv, PTL DEF Spec
=============================================================================
