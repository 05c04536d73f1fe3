------------------------- MODULE ConnectionPoolProofs -------------------------
(* The accounting of the connection pool, for any number of workers, any      *)
(* capacity and any bounds.                                                   *)
EXTENDS ConnectionPool, FiniteSetTheorems, TLAPS

\* The counting part of the argument needs the workers that hold a slot to be
\* finitely many.
LEMMA HoldingFinite == IsFiniteSet(Holding) /\ Cardinality(Holding) \in Nat
<1>1. Holding \subseteq Workers
  BY DEF Holding
<1>. QED
  BY <1>1, PoolAssumption, FS_Subset, FS_CardinalityType

\* A worker that takes a slot adds one to the holders, one that gives it back or
\* drops it takes one away, and every other step of a worker leaves them alone.
LEMMA HoldingChanges ==
  ASSUME NEW w \in Workers, TypeOK,
         NEW s \in {"idle", "wait", "connect", "run", "return"},
         wpc' = [wpc EXCEPT ![w] = s]
  PROVE  LET n == Cardinality(Holding)
             m == Cardinality(Holding')
             out == {"connect", "run", "return"}
         IN  /\ wpc[w] \notin out /\ s \in out => m = n + 1
             /\ wpc[w] \in out /\ s \notin out => m = n - 1
             /\ (wpc[w] \in out <=> s \in out) => m = n
<1> DEFINE out == {"connect", "run", "return"}
<1>1. /\ wpc \in [Workers -> {"idle", "wait", "connect", "run", "return"}]
      /\ \A v \in Workers : wpc'[v] = IF v = w THEN s ELSE wpc[v]
  BY DEF TypeOK
<1>2. Holding' = {v \in Workers : wpc'[v] \in out}
  BY DEF Holding
<1>3. Holding = {v \in Workers : wpc[v] \in out}
  BY DEF Holding
<1> HIDE DEF out
<1>4. ASSUME wpc[w] \notin out, s \in out
      PROVE  Cardinality(Holding') = Cardinality(Holding) + 1
  <2>1. Holding' = Holding \cup {w} /\ w \notin Holding
    BY <1>1, <1>2, <1>3, <1>4
  <2>. QED
    BY <2>1, HoldingFinite, FS_AddElement
<1>5. ASSUME wpc[w] \in out, s \notin out
      PROVE  Cardinality(Holding') = Cardinality(Holding) - 1
  <2>1. Holding' = Holding \ {w} /\ w \in Holding
    BY <1>1, <1>2, <1>3, <1>5
  <2>. QED
    BY <2>1, HoldingFinite, FS_RemoveElement
<1>6. ASSUME wpc[w] \in out <=> s \in out
      PROVE  Holding' = Holding
  BY <1>1, <1>2, <1>3, <1>6
<1>. QED
  BY <1>4, <1>5, <1>6 DEF out

Accounting == TypeOK /\ SlotsConserved

\* A fresh pool: NumConnections slots in use, the rest idle.
LEMMA AccountingInit == Init => Accounting
<1> SUFFICES ASSUME Init
             PROVE  TypeOK /\ SlotsConserved
  BY DEF Accounting
<1> USE PoolAssumption
<1>1. /\ conns \in Seq(Slots) /\ Len(conns) = NumConnections
      /\ idleConns \in Seq(Slots) /\ Len(idleConns) = NumMaxConnections - NumConnections
  BY DEF Init, Slots
<1>2. TypeOK
  BY <1>1 DEF Init, TypeOK, MIN_PARALLELISM, Slots
<1>3. Holding = {}
  BY DEF Init, Holding
<1>4. Cardinality(Holding) = 0
  BY <1>3, FS_EmptySet
<1>5. SlotsConserved
  BY <1>1, <1>4 DEF Init, SlotsConserved, SlotsOut, SlotsIdle, One,
     MonitorHolds, MonitorHoldsIdle, AdaptiveHolds
<1>. QED
  BY <1>2, <1>5

\* Appending and taking from a channel.
LEMMA ChannelOps ==
  ASSUME NEW S, NEW q \in Seq(S)
  PROVE  /\ \A x \in S : Append(q, x) \in Seq(S) /\ Len(Append(q, x)) = Len(q) + 1
         /\ q # <<>> => Head(q) \in S /\ Tail(q) \in Seq(S) /\ Len(Tail(q)) = Len(q) - 1
         /\ Len(q) \in Nat
OBVIOUS

\* What the sums are made of are numbers.
LEMMA Numbers ==
  ASSUME TypeOK
  PROVE  /\ Len(conns) \in Nat /\ Len(idleConns) \in Nat /\ Cardinality(Holding) \in Nat
         /\ lost \in Nat /\ size \in Nat /\ size >= 1 /\ pendingConnsToClose \in Nat
         /\ MonitorHolds \in 0 .. 1 /\ MonitorHoldsIdle \in 0 .. 1 /\ AdaptiveHolds \in 0 .. 1
BY HoldingFinite, ChannelOps, PoolAssumption
DEF TypeOK, MIN_PARALLELISM, MonitorHolds, MonitorHoldsIdle, AdaptiveHolds, One

\* A sum when one of its terms is one less, and another one more or not.
LEMMA OneLess ==
  \A c, h, m, n \in Nat : /\ c + (h - 1) + m + (n + 1) = c + h + m + n
                          /\ c + (h - 1) + m + n = (c + h + m + n) - 1
                          /\ (c + 1) + h + m = (c + h + m) + 1
OBVIOUS

\* The steps of a worker.
LEMMA WorkerStep ==
  ASSUME Accounting, NEW w \in Workers, WithConn(w)
  PROVE  Accounting'
<1> USE PoolAssumption
<1>0. TypeOK /\ SlotsConserved
  BY DEF Accounting
<1>1. CASE CallWithConn(w)
  <2>2. TypeOK'
    BY <1>0, <1>1 DEF TypeOK, CallWithConn, poolVars, adaptVars, monitorVars, clusterVars
  <2>3. Cardinality(Holding') = Cardinality(Holding)
    BY <1>0, <1>1, HoldingChanges DEF CallWithConn
  <2>4. /\ Len(conns') = Len(conns) /\ Len(idleConns') = Len(idleConns)
        /\ size' = size /\ pendingConnsToClose' = pendingConnsToClose
        /\ lost' = lost
        /\ MonitorHolds' = MonitorHolds /\ MonitorHoldsIdle' = MonitorHoldsIdle
        /\ AdaptiveHolds' = AdaptiveHolds
    BY <1>0, <1>1 DEF CallWithConn, poolVars, adaptVars, monitorVars,
       MonitorHolds, MonitorHoldsIdle, AdaptiveHolds
  <2>. QED
    BY <1>0, <2>2, <2>3, <2>4, Numbers DEF Accounting, SlotsConserved, SlotsOut, SlotsIdle
<1>2. CASE ReceiveConn(w)
  <2>1. /\ conns' \in Seq(Slots) /\ Len(conns') = Len(conns) - 1
        /\ Head(conns) \in Slots /\ Len(conns) \in Nat
    BY <1>0, <1>2, ChannelOps DEF ReceiveConn, TypeOK
  <2>2. TypeOK'
    BY <1>0, <1>2, <2>1 DEF TypeOK, ReceiveConn, poolVars, adaptVars, monitorVars, clusterVars
  <2>3. Cardinality(Holding') = Cardinality(Holding) + 1
    BY <1>0, <1>2, HoldingChanges DEF ReceiveConn
  <2>4. /\ Len(conns') = Len(conns) - 1 /\ Len(idleConns') = Len(idleConns)
        /\ size' = size /\ pendingConnsToClose' = pendingConnsToClose
        /\ lost' = lost
        /\ MonitorHolds' = MonitorHolds /\ MonitorHoldsIdle' = MonitorHoldsIdle
        /\ AdaptiveHolds' = AdaptiveHolds
    BY <1>0, <1>2, <2>1 DEF ReceiveConn, poolVars, adaptVars, monitorVars,
       MonitorHolds, MonitorHoldsIdle, AdaptiveHolds
  <2>. QED
    BY <1>0, <2>2, <2>3, <2>4, Numbers DEF Accounting, SlotsConserved, SlotsOut, SlotsIdle
<1>3. CASE Connect(w)
  <2>2. TypeOK'
    BY <1>0, <1>3 DEF TypeOK, Connect, Slots, poolVars, adaptVars, monitorVars, clusterVars
  <2>3. Cardinality(Holding') = Cardinality(Holding)
    BY <1>0, <1>3, HoldingChanges DEF Connect
  <2>4. /\ Len(conns') = Len(conns) /\ Len(idleConns') = Len(idleConns)
        /\ size' = size /\ pendingConnsToClose' = pendingConnsToClose
        /\ lost' = lost
        /\ MonitorHolds' = MonitorHolds /\ MonitorHoldsIdle' = MonitorHoldsIdle
        /\ AdaptiveHolds' = AdaptiveHolds
    BY <1>0, <1>3 DEF Connect, poolVars, adaptVars, monitorVars,
       MonitorHolds, MonitorHoldsIdle, AdaptiveHolds
  <2>. QED
    BY <1>0, <2>2, <2>3, <2>4, Numbers DEF Accounting, SlotsConserved, SlotsOut, SlotsIdle
<1>4. CASE ConnectFails(w)
  <2>2. TypeOK'
    BY <1>0, <1>4 DEF TypeOK, ConnectFails, poolVars, adaptVars, monitorVars, clusterVars
  <2>3. Cardinality(Holding') = Cardinality(Holding) - 1
    BY <1>0, <1>4, HoldingChanges DEF ConnectFails
  <2>4. /\ Len(conns') = Len(conns) /\ Len(idleConns') = Len(idleConns)
        /\ size' = size /\ pendingConnsToClose' = pendingConnsToClose
        /\ lost' = lost + 1
        /\ MonitorHolds' = MonitorHolds /\ MonitorHoldsIdle' = MonitorHoldsIdle
        /\ AdaptiveHolds' = AdaptiveHolds
    BY <1>0, <1>4 DEF ConnectFails, poolVars, adaptVars, monitorVars,
       MonitorHolds, MonitorHoldsIdle, AdaptiveHolds
  <2>5. SlotsOut' = Len(conns) + (Cardinality(Holding) - 1) + MonitorHolds + (lost + 1)
    BY <2>3, <2>4 DEF SlotsOut
  <2>6. SlotsIdle' = SlotsIdle
    BY <2>4 DEF SlotsIdle
  <2>7. /\ Len(conns) \in Nat /\ Cardinality(Holding) \in Nat /\ MonitorHolds \in Nat /\ lost \in Nat
    BY <1>0, Numbers
  <2>8. SlotsOut' = SlotsOut
    BY <2>5, <2>7, OneLess DEF SlotsOut
  <2>. QED
    BY <1>0, <2>2, <2>4, <2>6, <2>8 DEF Accounting, SlotsConserved
<1>5. CASE PrepareStatement(w)
  <2>2. TypeOK'
    BY <1>0, <1>5 DEF TypeOK, PrepareStatement, Slots, workerVars, poolVars, adaptVars, monitorVars, clusterVars
  <2>3. Cardinality(Holding') = Cardinality(Holding)
    BY <1>0, <1>5 DEF PrepareStatement, Holding, workerVars
  <2>4. /\ Len(conns') = Len(conns) /\ Len(idleConns') = Len(idleConns)
        /\ size' = size /\ pendingConnsToClose' = pendingConnsToClose
        /\ lost' = lost
        /\ MonitorHolds' = MonitorHolds /\ MonitorHoldsIdle' = MonitorHoldsIdle
        /\ AdaptiveHolds' = AdaptiveHolds
    BY <1>0, <1>5 DEF PrepareStatement, poolVars, adaptVars, monitorVars,
       MonitorHolds, MonitorHoldsIdle, AdaptiveHolds
  <2>. QED
    BY <1>0, <2>2, <2>3, <2>4, Numbers DEF Accounting, SlotsConserved, SlotsOut, SlotsIdle
<1>6. CASE FnReturns(w)
  <2>2. TypeOK'
    BY <1>0, <1>6 DEF TypeOK, FnReturns, poolVars, adaptVars, monitorVars, clusterVars
  <2>3. Cardinality(Holding') = Cardinality(Holding)
    BY <1>0, <1>6, HoldingChanges DEF FnReturns
  <2>4. /\ Len(conns') = Len(conns) /\ Len(idleConns') = Len(idleConns)
        /\ size' = size /\ pendingConnsToClose' = pendingConnsToClose
        /\ lost' = lost
        /\ MonitorHolds' = MonitorHolds /\ MonitorHoldsIdle' = MonitorHoldsIdle
        /\ AdaptiveHolds' = AdaptiveHolds
    BY <1>0, <1>6 DEF FnReturns, poolVars, adaptVars, monitorVars,
       MonitorHolds, MonitorHoldsIdle, AdaptiveHolds
  <2>. QED
    BY <1>0, <2>2, <2>3, <2>4, Numbers DEF Accounting, SlotsConserved, SlotsOut, SlotsIdle
<1>7. CASE FnFails(w)
  <2>2. TypeOK'
    BY <1>0, <1>7 DEF TypeOK, FnFails, Close, Uncached, Slots, poolVars, adaptVars, monitorVars, clusterVars
  <2>3. Cardinality(Holding') = Cardinality(Holding)
    BY <1>0, <1>7, HoldingChanges DEF FnFails
  <2>4. /\ Len(conns') = Len(conns) /\ Len(idleConns') = Len(idleConns)
        /\ size' = size /\ pendingConnsToClose' = pendingConnsToClose
        /\ lost' = lost
        /\ MonitorHolds' = MonitorHolds /\ MonitorHoldsIdle' = MonitorHoldsIdle
        /\ AdaptiveHolds' = AdaptiveHolds
    BY <1>0, <1>7 DEF FnFails, poolVars, adaptVars, monitorVars,
       MonitorHolds, MonitorHoldsIdle, AdaptiveHolds
  <2>. QED
    BY <1>0, <2>2, <2>3, <2>4, Numbers DEF Accounting, SlotsConserved, SlotsOut, SlotsIdle
<1>8. CASE ReturnConn(w)
  <2>1. Cardinality(Holding') = Cardinality(Holding) - 1
    BY <1>0, <1>8, HoldingChanges DEF ReturnConn
  <2>2. held[w] \in Slots /\ conns \in Seq(Slots) /\ idleConns \in Seq(Slots)
    BY <1>0 DEF TypeOK
  <2>3. /\ size' = size /\ lost' = lost
        /\ MonitorHolds' = MonitorHolds /\ MonitorHoldsIdle' = MonitorHoldsIdle
        /\ AdaptiveHolds' = AdaptiveHolds
    BY <1>8 DEF ReturnConn, adaptVars, monitorVars, MonitorHolds, MonitorHoldsIdle, AdaptiveHolds
  <2>4. CASE Retire
    <3>1. idleConns' \in Seq(Slots) /\ Len(idleConns') = Len(idleConns) + 1
      BY <1>8, <2>2, <2>4, ChannelOps DEF ReturnConn
    <3>2. /\ pendingConnsToClose' = pendingConnsToClose - 1 /\ pendingConnsToClose > 0
          /\ conns' = conns /\ Len(idleConns) < NumMaxConnections
      BY <1>8, <2>4 DEF ReturnConn, Retire, CountDown
    <3>3. TypeOK'
      BY <1>0, <1>8, <2>2, <2>3, <3>1, <3>2, Numbers
      DEF TypeOK, ReturnConn, Slots, adaptVars, monitorVars, clusterVars
    <3>4. /\ SlotsOut' = Len(conns) + (Cardinality(Holding) - 1) + MonitorHolds + lost
          /\ SlotsIdle' = (Len(idleConns) + 1) + AdaptiveHolds + MonitorHoldsIdle
      BY <2>1, <2>3, <3>1, <3>2 DEF SlotsOut, SlotsIdle
    <3>5. /\ Len(conns) \in Nat /\ Cardinality(Holding) \in Nat /\ MonitorHolds \in Nat /\ lost \in Nat
          /\ Len(idleConns) \in Nat /\ AdaptiveHolds \in Nat /\ MonitorHoldsIdle \in Nat
          /\ size \in Nat /\ pendingConnsToClose \in Nat
      BY <1>0, Numbers
    <3>6. SlotsOut' = SlotsOut - 1 /\ SlotsIdle' = SlotsIdle + 1
      BY <3>4, <3>5, OneLess DEF SlotsOut, SlotsIdle
    <3>7. SlotsConserved'
      BY <1>0, <2>3, <3>2, <3>5, <3>6 DEF SlotsConserved
    <3>. QED
      BY <3>3, <3>7 DEF Accounting
  <2>5. CASE ~Retire
    <3>1. conns' \in Seq(Slots) /\ Len(conns') = Len(conns) + 1
      BY <1>8, <2>2, <2>5, ChannelOps DEF ReturnConn
    <3>2. /\ pendingConnsToClose' = pendingConnsToClose
          /\ idleConns' = idleConns /\ Len(conns) < NumMaxConnections
      BY <1>8, <2>5 DEF ReturnConn
    <3>3. TypeOK'
      BY <1>0, <1>8, <2>2, <2>3, <3>1, <3>2, Numbers
      DEF TypeOK, ReturnConn, Slots, adaptVars, monitorVars, clusterVars
    <3>. QED
      BY <1>0, <2>1, <2>3, <3>1, <3>2, <3>3, Numbers
      DEF Accounting, SlotsConserved, SlotsOut, SlotsIdle
  <2>. QED
    BY <2>4, <2>5
<1>. QED
  BY <1>1, <1>2, <1>3, <1>4, <1>5, <1>6, <1>7, <1>8 DEF WithConn

\* The steps of the adaptive loop.
LEMMA AdaptiveStep ==
  ASSUME Accounting, AdaptParallelism
  PROVE  Accounting'
<1> USE PoolAssumption
<1>0. TypeOK /\ SlotsConserved
  BY DEF Accounting
<1>00. /\ Len(conns) \in Nat /\ Cardinality(Holding) \in Nat /\ MonitorHolds \in Nat /\ lost \in Nat
       /\ Len(idleConns) \in Nat /\ AdaptiveHolds \in Nat /\ MonitorHoldsIdle \in Nat
       /\ size \in Nat /\ size >= 1 /\ pendingConnsToClose \in Nat
       /\ conns \in Seq(Slots) /\ idleConns \in Seq(Slots)
  BY <1>0, Numbers DEF TypeOK
<1>1. /\ Holding' = Holding
      /\ MonitorHolds' = MonitorHolds /\ MonitorHoldsIdle' = MonitorHoldsIdle
      /\ lost' = lost
  BY DEF AdaptParallelism, DecreaseParallelism, CancelDecrease, IncreaseParallelism,
         TakeIdleConn, GiveConn, Holding, MonitorHolds, MonitorHoldsIdle, workerVars, monitorVars
<1>2. CASE DecreaseParallelism
  <2>1. /\ size' = size - 1 /\ pendingConnsToClose' = pendingConnsToClose + 1 /\ size' >= 1
        /\ SlotsOut' = SlotsOut /\ SlotsIdle' = SlotsIdle
    BY <1>1, <1>2 DEF DecreaseParallelism, MIN_PARALLELISM, SlotsOut, SlotsIdle, AdaptiveHolds, adaptVars
  <2>2. TypeOK'
    BY <1>0, <1>00, <1>2, <2>1 DEF TypeOK, DecreaseParallelism, MIN_PARALLELISM,
       workerVars, adaptVars, monitorVars, clusterVars
  <2>3. SlotsConserved'
    BY <1>0, <1>00, <2>1 DEF SlotsConserved
  <2>. QED
    BY <2>2, <2>3 DEF Accounting
<1>3. CASE CancelDecrease
  <2>1. /\ size' = size + 1 /\ pendingConnsToClose' = pendingConnsToClose - 1
        /\ size + 1 <= NumMaxConnections /\ pendingConnsToClose > 0
        /\ SlotsOut' = SlotsOut /\ SlotsIdle' = SlotsIdle
    BY <1>1, <1>3 DEF CancelDecrease, CancelsDecrease, SlotsOut, SlotsIdle, AdaptiveHolds, adaptVars
  <2>2. TypeOK'
    BY <1>0, <1>00, <1>3, <2>1 DEF TypeOK, CancelDecrease, MIN_PARALLELISM,
       workerVars, adaptVars, monitorVars, clusterVars
  <2>3. SlotsConserved'
    BY <1>0, <1>00, <2>1 DEF SlotsConserved
  <2>. QED
    BY <2>2, <2>3 DEF Accounting
<1>4. CASE IncreaseParallelism
  <2>1. /\ size' = size /\ pendingConnsToClose' = pendingConnsToClose
        /\ SlotsOut' = SlotsOut /\ SlotsIdle' = SlotsIdle
    BY <1>1, <1>4 DEF IncreaseParallelism, SlotsOut, SlotsIdle, AdaptiveHolds, One, poolVars
  <2>2. TypeOK'
    BY <1>0, <1>4 DEF TypeOK, IncreaseParallelism, poolVars, workerVars, monitorVars, clusterVars
  <2>. QED
    BY <1>0, <2>1, <2>2 DEF Accounting, SlotsConserved
<1>5. CASE TakeIdleConn
  <2>1. /\ idleConns' \in Seq(Slots) /\ Len(idleConns') = Len(idleConns) - 1
        /\ Head(idleConns) \in Slots
    BY <1>00, <1>5, ChannelOps DEF TakeIdleConn
  <2>2. AdaptiveHolds = 0 /\ AdaptiveHolds' = 1
    BY <1>5 DEF TakeIdleConn, AdaptiveHolds, One
  <2>3. /\ size' = size /\ pendingConnsToClose' = pendingConnsToClose /\ SlotsOut' = SlotsOut
    BY <1>1, <1>5 DEF TakeIdleConn, SlotsOut
  <2>4. SlotsIdle' = SlotsIdle
    BY <1>00, <1>1, <2>1, <2>2 DEF SlotsIdle
  <2>5. TypeOK'
    BY <1>0, <1>00, <1>5, <2>1 DEF TypeOK, TakeIdleConn, workerVars, monitorVars, clusterVars
  <2>. QED
    BY <1>0, <2>3, <2>4, <2>5 DEF Accounting, SlotsConserved
<1>6. CASE GiveConn
  <2>1. /\ conns' \in Seq(Slots) /\ Len(conns') = Len(conns) + 1
    BY <1>0, <1>00, <1>6, ChannelOps DEF GiveConn, TypeOK
  <2>2. AdaptiveHolds = 1 /\ AdaptiveHolds' = 0
    BY <1>6 DEF GiveConn, AdaptiveHolds, One
  <2>3. /\ size' = size + 1 /\ pendingConnsToClose' = pendingConnsToClose
        /\ idleConns' = idleConns
    BY <1>6 DEF GiveConn
  <2>4. SlotsIdle' = SlotsIdle - 1
    BY <1>00, <1>1, <2>2, <2>3 DEF SlotsIdle
  <2>5. SlotsOut' = (Len(conns) + 1) + Cardinality(Holding) + MonitorHolds + lost
    BY <1>1, <2>1 DEF SlotsOut
  <2>6. SlotsOut' = SlotsOut + 1
    BY <1>00, <2>5 DEF SlotsOut
  <2>7. size + 1 <= NumMaxConnections
    BY <1>0, <1>00, <2>2 DEF SlotsConserved, SlotsIdle
  <2>8. TypeOK'
    BY <1>0, <1>00, <1>6, <2>1, <2>3, <2>7 DEF TypeOK, GiveConn, MIN_PARALLELISM, Slots,
       workerVars, monitorVars, clusterVars
  <2>9. SlotsConserved'
    BY <1>0, <1>00, <2>3, <2>4, <2>6 DEF SlotsConserved
  <2>. QED
    BY <2>8, <2>9 DEF Accounting
<1>. QED
  BY <1>2, <1>3, <1>4, <1>5, <1>6 DEF AdaptParallelism

\* Steps of the monitor that move no slot.
LEMMA MonitorLooks ==
  ASSUME Accounting,
         \/ NodesDown \/ NodesUp \/ MonitorConnsDone \/ MonitorCheckIdle \/ MonitorIdleDone
  PROVE  Accounting'
<1> USE PoolAssumption
<1>0. TypeOK /\ SlotsConserved
  BY DEF Accounting
<1>1. /\ poolVars' = poolVars /\ workerVars' = workerVars /\ adaptVars' = adaptVars
      /\ mslot' = mslot /\ up' = up /\ outages' = outages /\ lost' = lost
  BY DEF NodesDown, NodesUp, MonitorConnsDone, MonitorCheckIdle, MonitorIdleDone,
         monitorVars, clusterVars
<1>2. /\ mpc \notin {"put", "putIdle"} /\ mpc' \notin {"put", "putIdle"}
  BY DEF NodesDown, NodesUp, MonitorConnsDone, MonitorCheckIdle, MonitorIdleDone
<1>3. /\ mpc' \in {"sleep", "take", "put", "check", "takeIdle", "putIdle"}
      /\ servers' \subseteq Hosts /\ rounds' \in Nat /\ idx' \in Nat /\ nodesStatus' \subseteq Hosts
  BY <1>0, Numbers DEF NodesDown, NodesUp, MonitorConnsDone, MonitorCheckIdle, MonitorIdleDone,
         TypeOK, DownNodes
<1>4. TypeOK'
  BY <1>0, <1>1, <1>3 DEF TypeOK, poolVars, workerVars, adaptVars
<1>5. SlotsOut' = SlotsOut /\ SlotsIdle' = SlotsIdle
  BY <1>1, <1>2 DEF SlotsOut, SlotsIdle, MonitorHolds, MonitorHoldsIdle, AdaptiveHolds, One,
     Holding, poolVars, workerVars, adaptVars
<1>. QED
  BY <1>0, <1>1, <1>4, <1>5 DEF Accounting, SlotsConserved, poolVars

\* A slot the monitor puts back is a slot, and closing keeps the types.
LEMMA PutBack ==
  ASSUME TypeOK, CloseIfDown(mslot)
  PROVE  /\ Kept(mslot) \in Slots
         /\ hostOf' \in [Conns -> Hosts \cup {NoHost}]
         /\ connToPreparedStmtCache' \subseteq Conns
BY DEF TypeOK, CloseIfDown, ToServers, Kept, Close, Uncached, Slots

\* Steps of the monitor that take a slot out of a channel or put it back.
LEMMA MonitorMoves ==
  ASSUME Accounting,
         MonitorTake \/ MonitorPut \/ MonitorTakeIdle \/ MonitorPutIdle
  PROVE  Accounting'
<1> USE PoolAssumption
<1>0. TypeOK /\ SlotsConserved
  BY DEF Accounting
<1>00. /\ Len(conns) \in Nat /\ Cardinality(Holding) \in Nat /\ lost \in Nat
       /\ Len(idleConns) \in Nat /\ AdaptiveHolds \in Nat
       /\ conns \in Seq(Slots) /\ idleConns \in Seq(Slots)
  BY <1>0, Numbers DEF TypeOK
<1>1. /\ Holding' = Holding /\ AdaptiveHolds' = AdaptiveHolds /\ lost' = lost
      /\ size' = size /\ pendingConnsToClose' = pendingConnsToClose
      /\ workerVars' = workerVars /\ adaptVars' = adaptVars /\ clusterVars' = clusterVars
      /\ servers' = servers /\ rounds' = rounds /\ nodesStatus' = nodesStatus
  BY DEF MonitorTake, MonitorPut, MonitorTakeIdle, MonitorPutIdle, Holding, AdaptiveHolds,
         workerVars, adaptVars
<1>2. SUFFICES TypeOK' /\ SlotsOut' = SlotsOut /\ SlotsIdle' = SlotsIdle
  BY <1>0, <1>1, <1>2 DEF Accounting, SlotsConserved
<1>3. CASE MonitorTake
  <2>1. /\ conns' \in Seq(Slots) /\ Len(conns') = Len(conns) - 1 /\ Head(conns) \in Slots
    BY <1>00, <1>3, ChannelOps DEF MonitorTake
  <2>2. /\ MonitorHolds = 0 /\ MonitorHolds' = 1 /\ MonitorHoldsIdle = 0 /\ MonitorHoldsIdle' = 0
        /\ idleConns' = idleConns
    BY <1>3 DEF MonitorTake, MonitorHolds, MonitorHoldsIdle, One
  <2>3. TypeOK'
    BY <1>0, <1>00, <1>1, <1>3, <2>1 DEF TypeOK, MonitorTake, workerVars, adaptVars, clusterVars
  <2>4. SlotsOut' = SlotsOut
    BY <1>00, <1>1, <2>1, <2>2 DEF SlotsOut
  <2>. QED
    BY <1>1, <2>2, <2>3, <2>4 DEF SlotsIdle
<1>4. CASE MonitorPut
  <2>1. Kept(mslot) \in Slots
    BY <1>0, <1>4, PutBack DEF MonitorPut
  <2>2. /\ conns' \in Seq(Slots) /\ Len(conns') = Len(conns) + 1
    BY <1>00, <1>4, <2>1, ChannelOps DEF MonitorPut
  <2>3. /\ MonitorHolds = 1 /\ MonitorHolds' = 0 /\ MonitorHoldsIdle = 0 /\ MonitorHoldsIdle' = 0
        /\ idleConns' = idleConns
    BY <1>4 DEF MonitorPut, MonitorHolds, MonitorHoldsIdle, One
  <2>4. TypeOK'
    BY <1>0, <1>00, <1>1, <1>4, <2>2, PutBack
    DEF TypeOK, MonitorPut, Slots, workerVars, adaptVars, clusterVars
  <2>5. SlotsOut' = SlotsOut
    BY <1>00, <1>1, <2>2, <2>3 DEF SlotsOut
  <2>. QED
    BY <1>1, <2>3, <2>4, <2>5 DEF SlotsIdle
<1>5. CASE MonitorTakeIdle
  <2>1. /\ idleConns' \in Seq(Slots) /\ Len(idleConns') = Len(idleConns) - 1
        /\ Head(idleConns) \in Slots
    BY <1>00, <1>5, ChannelOps DEF MonitorTakeIdle
  <2>2. /\ MonitorHolds = 0 /\ MonitorHolds' = 0 /\ MonitorHoldsIdle = 0 /\ MonitorHoldsIdle' = 1
        /\ conns' = conns
    BY <1>5 DEF MonitorTakeIdle, MonitorHolds, MonitorHoldsIdle, One
  <2>3. TypeOK'
    BY <1>0, <1>00, <1>1, <1>5, <2>1 DEF TypeOK, MonitorTakeIdle, workerVars, adaptVars, clusterVars
  <2>4. SlotsIdle' = SlotsIdle
    BY <1>00, <1>1, <2>1, <2>2 DEF SlotsIdle
  <2>. QED
    BY <1>1, <2>2, <2>3, <2>4 DEF SlotsOut
<1>6. CASE MonitorPutIdle
  <2>1. Kept(mslot) \in Slots
    BY <1>0, <1>6, PutBack DEF MonitorPutIdle
  <2>2. /\ idleConns' \in Seq(Slots) /\ Len(idleConns') = Len(idleConns) + 1
    BY <1>00, <1>6, <2>1, ChannelOps DEF MonitorPutIdle
  <2>3. /\ MonitorHolds = 0 /\ MonitorHolds' = 0 /\ MonitorHoldsIdle = 1 /\ MonitorHoldsIdle' = 0
        /\ conns' = conns
    BY <1>6 DEF MonitorPutIdle, MonitorHolds, MonitorHoldsIdle, One
  <2>4. TypeOK'
    BY <1>0, <1>00, <1>1, <1>6, <2>2, PutBack
    DEF TypeOK, MonitorPutIdle, Slots, workerVars, adaptVars, clusterVars
  <2>5. SlotsIdle' = SlotsIdle
    BY <1>00, <1>1, <2>2, <2>3 DEF SlotsIdle
  <2>. QED
    BY <1>1, <2>3, <2>4, <2>5 DEF SlotsOut
<1>. QED
  BY <1>3, <1>4, <1>5, <1>6

\* Nodes that go down or come back do not touch the pool.
LEMMA ClusterStep ==
  ASSUME Accounting, Cluster \/ UNCHANGED vars
  PROVE  Accounting'
<1>0. TypeOK /\ SlotsConserved
  BY DEF Accounting
<1>1. /\ poolVars' = poolVars /\ workerVars' = workerVars /\ adaptVars' = adaptVars
      /\ monitorVars' = monitorVars /\ lost' = lost
  BY DEF Cluster, NodeGoesDown, NodeComesBack, vars
<1>2. up' \subseteq Hosts /\ outages' \in Nat
  BY <1>0 DEF Cluster, NodeGoesDown, NodeComesBack, TypeOK, vars, clusterVars
<1>3. TypeOK'
  BY <1>0, <1>1, <1>2 DEF TypeOK, poolVars, workerVars, adaptVars, monitorVars
<1>4. SlotsOut' = SlotsOut /\ SlotsIdle' = SlotsIdle
  BY <1>1 DEF SlotsOut, SlotsIdle, MonitorHolds, MonitorHoldsIdle, AdaptiveHolds,
     Holding, poolVars, workerVars, adaptVars, monitorVars
<1>. QED
  BY <1>0, <1>1, <1>3, <1>4 DEF Accounting, SlotsConserved, poolVars

\* Types and accounting together are inductive.
LEMMA AccountingAlways == Spec => []Accounting
<1>1. Init => Accounting
  BY AccountingInit
<1>2. Accounting /\ [Next]_vars => Accounting'
  BY WorkerStep, AdaptiveStep, MonitorLooks, MonitorMoves, ClusterStep DEF Next, Monitor
<1>. QED
  BY <1>1, <1>2, PTL DEF Spec

\* The pool's fields keep their types, the channels their bounds, and WithConn
\* never calls fn with nil.
THEOREM PoolTypeCorrect == Spec => []TypeOK
<1>1. Accounting => TypeOK
  BY DEF Accounting
<1>. QED
  BY <1>1, AccountingAlways, PTL

\* The slots in use are always the size of the pool plus the decreases that are
\* still registered, and all others are idle, for every number of workers and
\* every interleaving of WithConn, UpdateNumConnections and
\* RemoveConnectionsForHosts.
THEOREM PoolAccounting == Spec => []SlotsConserved
<1>1. Accounting => SlotsConserved
  BY DEF Accounting
<1>. QED
  BY <1>1, AccountingAlways, PTL

\* Whoever has a slot to send finds room in the channel, so the guards of the
\* sends in ConnectionPool never make a goroutine wait, with or without the lock.
ChannelsHaveRoom ==
  /\ Holding # {} \/ mpc = "put" \/ apc = "give" => Len(conns) < NumMaxConnections
  /\ mpc = "putIdle" \/ (Holding # {} /\ pendingConnsToClose > 0)
       => Len(idleConns) < NumMaxConnections

\* No goroutine ever blocks on a send to one of the pool's channels, so the
\* critical section of WithConn always ends.
THEOREM SendsNeverBlock == Spec => []ChannelsHaveRoom
<1>1. Accounting => ChannelsHaveRoom
  <2> SUFFICES ASSUME Accounting
               PROVE  ChannelsHaveRoom
    OBVIOUS
  <2>1. TypeOK /\ SlotsConserved
    BY DEF Accounting
  <2>2. /\ Len(conns) \in Nat /\ Cardinality(Holding) \in Nat /\ lost \in Nat
        /\ Len(idleConns) \in Nat /\ NumMaxConnections \in Nat
        /\ size \in Nat /\ size >= 1 /\ pendingConnsToClose \in Nat
        /\ MonitorHolds \in Nat /\ MonitorHoldsIdle \in Nat /\ AdaptiveHolds \in Nat
    BY <2>1, Numbers, PoolAssumption
  <2>3. Holding # {} => Cardinality(Holding) >= 1
    BY <2>2, HoldingFinite, FS_EmptySet
  <2>4. /\ mpc = "put" => MonitorHolds = 1
        /\ mpc = "putIdle" => MonitorHoldsIdle = 1
        /\ apc = "give" => AdaptiveHolds = 1
    BY DEF MonitorHolds, MonitorHoldsIdle, AdaptiveHolds, One
  <2>5. /\ Len(conns) + Cardinality(Holding) + MonitorHolds + lost = size + pendingConnsToClose
        /\ Len(idleConns) + AdaptiveHolds + MonitorHoldsIdle
             = NumMaxConnections - (size + pendingConnsToClose)
    BY <2>1 DEF SlotsConserved, SlotsOut, SlotsIdle
  <2>6. /\ Holding # {} \/ mpc = "put" \/ apc = "give" => Len(conns) < NumMaxConnections
    BY <2>2, <2>3, <2>4, <2>5
  <2>7. Len(idleConns) < NumMaxConnections
    BY <2>2, <2>5
  <2>. QED
    BY <2>6, <2>7 DEF ChannelsHaveRoom
<1>. QED
  BY <1>1, AccountingAlways, PTL
=============================================================================
