---------------------------- MODULE ConnectionPool ----------------------------
(***************************************************************************)
(* The pool of connections to the target (tgtdb/conn_pool.go) and its three *)
(* kinds of users: the import goroutines that run WithConn, the adaptive    *)
(* parallelism loop that resizes the pool by one, and the health monitor    *)
(* that takes the connections to nodes that went down out of it.            *)
(*                                                                         *)
(* conns and idleConns are the two Go channels: FIFO sequences of slots, a  *)
(* slot being a connection or NoConn (nil: connect when it is first used).  *)
(***************************************************************************)
EXTENDS Integers, Sequences, FiniteSets

CONSTANTS
  Workers,              \* goroutines that import batches
  Conns,                \* addresses of *pgx.Conn objects
  Hosts,                \* nodes of the target cluster
  NoConn, NoHost,
  NumConnections,       \* initial size of the pool
  NumMaxConnections,    \* capacity of both channels
  Adaptive,             \* adaptive parallelism is enabled
  MaxConnectFailures,   \* bound on connection attempts that fail on every node
  MaxOutages            \* bound on nodes going down

ASSUME PoolAssumption ==
  /\ IsFiniteSet(Workers) /\ NoConn \notin Conns /\ NoHost \notin Hosts
  /\ NumMaxConnections \in Nat \ {0}
  /\ NumConnections \in 1 .. NumMaxConnections
  /\ Adaptive \in BOOLEAN
  /\ MaxConnectFailures \in Nat /\ MaxOutages \in Nat

MIN_PARALLELISM == 1

VARIABLES
  conns, idleConns,     \* the channels
  size, pendingConnsToClose,
  connToPreparedStmtCache, \* the connections that have an entry in the cache
  hostOf,               \* the node each open connection goes to, NoHost if closed
  wpc, held,            \* step of each worker and the slot it has taken
  apc, aslot,           \* adaptive loop; "take" and "give" are inside the lock
  mpc, mslot,           \* health monitor and the slot it has taken
  servers, rounds, idx, \* arguments and loop state of RemoveConnectionsForHosts
  nodesStatus,          \* the nodes the monitor believes up
  up,                   \* the nodes that are up
  lost, outages         \* slots dropped by failed connects; nodes that went down

poolVars == <<conns, idleConns, size, pendingConnsToClose, connToPreparedStmtCache, hostOf>>
workerVars == <<wpc, held>>
adaptVars == <<apc, aslot>>
monitorVars == <<mpc, mslot, servers, rounds, idx, nodesStatus>>
clusterVars == <<up, outages>>
vars == <<poolVars, workerVars, adaptVars, monitorVars, clusterVars, lost>>

Slots == Conns \cup {NoConn}
Open == {c \in Conns : hostOf[c] # NoHost}
Holding == {w \in Workers : wpc[w] \in {"connect", "run", "return"}}

\* pendingConnsToCloseLock is held across steps only by an increase of the pool.
Unlocked == apc = "sleep"

\* NewConnectionPool fills idleConns with nil and moves NumConnections of them
\* to conns.
Init ==
  /\ conns = [n \in 1 .. NumConnections |-> NoConn]
  /\ idleConns = [n \in 1 .. NumMaxConnections - NumConnections |-> NoConn]
  /\ size = NumConnections /\ pendingConnsToClose = 0
  /\ connToPreparedStmtCache = {} /\ hostOf = [c \in Conns |-> NoHost]
  /\ wpc = [w \in Workers |-> "idle"] /\ held = [w \in Workers |-> NoConn]
  /\ apc = "sleep" /\ aslot = NoConn
  /\ mpc = "sleep" /\ mslot = NoConn /\ servers = {} /\ rounds = 0 /\ idx = 0
  /\ nodesStatus = Hosts /\ up = Hosts
  /\ lost = 0 /\ outages = 0

-----------------------------------------------------------------------------
(* WithConn *)

\* A goroutine has a batch to import and waits for a slot.
CallWithConn(w) ==
  /\ wpc[w] = "idle"
  /\ wpc' = [wpc EXCEPT ![w] = "wait"]
  /\ UNCHANGED <<poolVars, held, adaptVars, monitorVars, clusterVars, lost>>

\* The channel is never closed, so gotIt is always true and the sleep after a
\* missed receive does not happen: a worker blocks until there is a slot.
ReceiveConn(w) ==
  /\ wpc[w] = "wait" /\ conns # <<>>
  /\ held' = [held EXCEPT ![w] = Head(conns)]
  /\ wpc' = [wpc EXCEPT ![w] = IF Head(conns) = NoConn THEN "connect" ELSE "run"]
  /\ conns' = Tail(conns)
  /\ UNCHANGED <<idleConns, size, pendingConnsToClose, connToPreparedStmtCache, hostOf,
                 adaptVars, monitorVars, clusterVars, lost>>

\* createNewConnection: the next node in turn, then the others in any order
\* until one answers.  The address of the new object is one that nothing
\* refers to any more.
Connect(w) ==
  /\ wpc[w] = "connect"
  /\ \E c \in Conns \ (Open \cup connToPreparedStmtCache), h \in up :
       /\ hostOf' = [hostOf EXCEPT ![c] = h]
       /\ held' = [held EXCEPT ![w] = c]
  /\ wpc' = [wpc EXCEPT ![w] = "run"]
  /\ UNCHANGED <<conns, idleConns, size, pendingConnsToClose, connToPreparedStmtCache,
                 adaptVars, monitorVars, clusterVars, lost>>

\* No node answers: WithConn returns the error, and the slot it has taken goes
\* back to neither channel.
ConnectFails(w) ==
  /\ wpc[w] = "connect" /\ lost < MaxConnectFailures
  /\ wpc' = [wpc EXCEPT ![w] = "idle"]
  /\ lost' = lost + 1
  /\ UNCHANGED <<poolVars, held, adaptVars, monitorVars, clusterVars>>

\* fn calls PrepareStatement.
PrepareStatement(w) ==
  /\ wpc[w] = "run" /\ held[w] \notin connToPreparedStmtCache
  /\ connToPreparedStmtCache' = connToPreparedStmtCache \cup {held[w]}
  /\ UNCHANGED <<conns, idleConns, size, pendingConnsToClose, hostOf,
                 workerVars, adaptVars, monitorVars, clusterVars, lost>>

\* fn returns without an error: its node is up.
FnReturns(w) ==
  /\ wpc[w] = "run" /\ hostOf[held[w]] \in up
  /\ wpc' = [wpc EXCEPT ![w] = "return"]
  /\ UNCHANGED <<poolVars, held, adaptVars, monitorVars, clusterVars, lost>>

\* removePreparedStmtCacheForConn.
Uncached(c) == connToPreparedStmtCache \ {c}

Close(c) ==
  /\ hostOf' = [hostOf EXCEPT ![c] = NoHost]
  /\ connToPreparedStmtCache' = Uncached(c)

\* fn returns an error: the connection is dropped, an empty slot stays.
FnFails(w) ==
  /\ wpc[w] = "run"
  /\ Close(held[w])
  /\ held' = [held EXCEPT ![w] = NoConn]
  /\ wpc' = [wpc EXCEPT ![w] = "return"]
  /\ UNCHANGED <<conns, idleConns, size, pendingConnsToClose,
                 adaptVars, monitorVars, clusterVars, lost>>

\* Mutant: off by one, a slot is retired when none is left to retire.
Retire_AtZero == pendingConnsToClose >= 0

\* A smaller pool was asked for and not all of the slots have been retired.
Retire == pendingConnsToClose > 0

\* Mutant: retiring forgets to count down.
CountDown_Never == pendingConnsToClose

CountDown == pendingConnsToClose - 1

\* Under the lock: the slot is retired to idleConns or goes back to conns.
ReturnConn(w) ==
  /\ wpc[w] = "return" /\ Unlocked
  /\ IF Retire
     THEN /\ Len(idleConns) < NumMaxConnections
          /\ idleConns' = Append(idleConns, held[w])
          /\ pendingConnsToClose' = CountDown
          /\ UNCHANGED conns
     ELSE /\ Len(conns) < NumMaxConnections
          /\ conns' = Append(conns, held[w])
          /\ UNCHANGED <<idleConns, pendingConnsToClose>>
  /\ wpc' = [wpc EXCEPT ![w] = "idle"] /\ held' = [held EXCEPT ![w] = NoConn]
  /\ UNCHANGED <<size, connToPreparedStmtCache, hostOf,
                 adaptVars, monitorVars, clusterVars, lost>>

WithConn(w) ==
  \/ CallWithConn(w) \/ ReceiveConn(w) \/ Connect(w) \/ ConnectFails(w)
  \/ PrepareStatement(w) \/ FnReturns(w) \/ FnFails(w) \/ ReturnConn(w)

-----------------------------------------------------------------------------
(* Adaptive parallelism: fetchClusterMetricsAndUpdateParallelism, which acts  *)
(* on the load it has measured and calls UpdateNumConnections(-1) or (1).     *)

\* The load is high: a decrease is only registered.
DecreaseParallelism ==
  /\ Adaptive /\ apc = "sleep"
  /\ size - 1 >= MIN_PARALLELISM
  /\ size' = size - 1 /\ pendingConnsToClose' = pendingConnsToClose + 1
  /\ UNCHANGED <<conns, idleConns, connToPreparedStmtCache, hostOf,
                 workerVars, adaptVars, monitorVars, clusterVars, lost>>

\* The load is low: a decrease still registered is cancelled first.
CancelsDecrease == pendingConnsToClose > 0

CancelDecrease ==
  /\ Adaptive /\ apc = "sleep"
  /\ size + 1 <= NumMaxConnections /\ CancelsDecrease
  /\ size' = size + 1 /\ pendingConnsToClose' = pendingConnsToClose - 1
  /\ UNCHANGED <<conns, idleConns, connToPreparedStmtCache, hostOf,
                 workerVars, adaptVars, monitorVars, clusterVars, lost>>

\* Otherwise the loop takes the lock, receives from idleConns, ...
IncreaseParallelism ==
  /\ Adaptive /\ apc = "sleep"
  /\ size + 1 <= NumMaxConnections /\ ~CancelsDecrease
  /\ apc' = "take"
  /\ UNCHANGED <<poolVars, workerVars, aslot, monitorVars, clusterVars, lost>>

TakeIdleConn ==
  /\ apc = "take" /\ idleConns # <<>>
  /\ aslot' = Head(idleConns) /\ idleConns' = Tail(idleConns)
  /\ apc' = "give"
  /\ UNCHANGED <<conns, size, pendingConnsToClose, connToPreparedStmtCache, hostOf,
                 workerVars, monitorVars, clusterVars, lost>>

\* ... sends to conns and sets the size.
GiveConn ==
  /\ apc = "give" /\ Len(conns) < NumMaxConnections
  /\ conns' = Append(conns, aslot) /\ aslot' = NoConn
  /\ size' = size + 1
  /\ apc' = "sleep"
  /\ UNCHANGED <<idleConns, pendingConnsToClose, connToPreparedStmtCache, hostOf,
                 workerVars, monitorVars, clusterVars, lost>>

AdaptParallelism ==
  \/ DecreaseParallelism \/ CancelDecrease
  \/ IncreaseParallelism \/ TakeIdleConn \/ GiveConn

-----------------------------------------------------------------------------
(* The health monitor: monitorNodesStatusAndAdapt, RemoveConnectionsForHosts *)

DownNodes == nodesStatus \ up

\* Nodes that disappeared from the server list; the size is read once, without
\* the lock.
NodesDown ==
  /\ mpc = "sleep" /\ DownNodes # {}
  /\ mpc' = "take" /\ servers' = DownNodes /\ rounds' = size /\ idx' = 0
  /\ nodesStatus' = up
  /\ UNCHANGED <<poolVars, workerVars, adaptVars, mslot, clusterVars, lost>>

NodesUp ==
  /\ mpc = "sleep" /\ DownNodes = {} /\ nodesStatus # up
  /\ nodesStatus' = up
  /\ UNCHANGED <<poolVars, workerVars, adaptVars, mpc, mslot, servers, rounds, idx,
                 clusterVars, lost>>

\* The receive blocks while all the connections are busy.
MonitorTake ==
  /\ mpc = "take" /\ idx < rounds /\ conns # <<>>
  /\ mslot' = Head(conns) /\ conns' = Tail(conns)
  /\ mpc' = "put"
  /\ UNCHANGED <<idleConns, size, pendingConnsToClose, connToPreparedStmtCache, hostOf,
                 workerVars, adaptVars, servers, rounds, idx, nodesStatus, clusterVars, lost>>

ToServers(c) == c # NoConn /\ hostOf[c] \in servers

\* What goes back to the channel.
Kept(c) == IF ToServers(c) THEN NoConn ELSE c

CloseIfDown(c) ==
  IF ToServers(c) THEN Close(c) ELSE UNCHANGED <<hostOf, connToPreparedStmtCache>>

MonitorPut ==
  /\ mpc = "put" /\ Len(conns) < NumMaxConnections
  /\ CloseIfDown(mslot)
  /\ conns' = Append(conns, Kept(mslot)) /\ mslot' = NoConn
  /\ idx' = idx + 1 /\ mpc' = "take"
  /\ UNCHANGED <<idleConns, size, pendingConnsToClose, workerVars, adaptVars,
                 servers, rounds, nodesStatus, clusterVars, lost>>

MonitorConnsDone ==
  /\ mpc = "take" /\ idx = rounds
  /\ mpc' = "check" /\ idx' = 0
  /\ UNCHANGED <<poolVars, workerVars, adaptVars, mslot, servers, rounds, nodesStatus,
                 clusterVars, lost>>

\* for i < len(pool.idleConns): the length is looked at before every receive,
\* and the adaptive loop may empty the channel in between.
MonitorCheckIdle ==
  /\ mpc = "check" /\ idx < Len(idleConns)
  /\ mpc' = "takeIdle"
  /\ UNCHANGED <<poolVars, workerVars, adaptVars, mslot, servers, rounds, idx, nodesStatus,
                 clusterVars, lost>>

MonitorTakeIdle ==
  /\ mpc = "takeIdle" /\ idleConns # <<>>
  /\ mslot' = Head(idleConns) /\ idleConns' = Tail(idleConns)
  /\ mpc' = "putIdle"
  /\ UNCHANGED <<conns, size, pendingConnsToClose, connToPreparedStmtCache, hostOf,
                 workerVars, adaptVars, servers, rounds, idx, nodesStatus, clusterVars, lost>>

MonitorPutIdle ==
  /\ mpc = "putIdle" /\ Len(idleConns) < NumMaxConnections
  /\ CloseIfDown(mslot)
  /\ idleConns' = Append(idleConns, Kept(mslot)) /\ mslot' = NoConn
  /\ idx' = idx + 1 /\ mpc' = "check"
  /\ UNCHANGED <<conns, size, pendingConnsToClose, workerVars, adaptVars,
                 servers, rounds, nodesStatus, clusterVars, lost>>

MonitorIdleDone ==
  /\ mpc = "check" /\ idx >= Len(idleConns)
  /\ mpc' = "sleep" /\ servers' = {} /\ rounds' = 0 /\ idx' = 0
  /\ UNCHANGED <<poolVars, workerVars, adaptVars, mslot, nodesStatus, clusterVars, lost>>

Monitor ==
  \/ NodesDown \/ NodesUp \/ MonitorTake \/ MonitorPut \/ MonitorConnsDone
  \/ MonitorCheckIdle \/ MonitorTakeIdle \/ MonitorPutIdle \/ MonitorIdleDone

-----------------------------------------------------------------------------
(* The target cluster (external): nodes go down and come back; one stays up.  *)

NodeGoesDown(h) ==
  /\ h \in up /\ up # {h} /\ outages < MaxOutages
  /\ up' = up \ {h} /\ outages' = outages + 1
  /\ UNCHANGED <<poolVars, workerVars, adaptVars, monitorVars, lost>>

NodeComesBack(h) ==
  /\ h \notin up
  /\ up' = up \cup {h}
  /\ UNCHANGED <<poolVars, workerVars, adaptVars, monitorVars, outages, lost>>

Cluster == \E h \in Hosts : NodeGoesDown(h) \/ NodeComesBack(h)

Next == (\E w \in Workers : WithConn(w)) \/ AdaptParallelism \/ Monitor \/ Cluster

Spec == Init /\ [][Next]_vars

\* Goroutines run; receivers of a channel and waiters for a mutex are served in
\* turn (strong fairness of ReceiveConn and ReturnConn).  New calls, failures,
\* changes of load and of the cluster are not forced.
Fairness ==
  /\ \A w \in Workers :
       /\ SF_vars(ReceiveConn(w)) /\ SF_vars(ReturnConn(w))
       /\ WF_vars(Connect(w)) /\ WF_vars(FnReturns(w) \/ FnFails(w))
  /\ WF_vars(TakeIdleConn) /\ WF_vars(GiveConn)
  /\ WF_vars(MonitorPut) /\ WF_vars(MonitorPutIdle)

FairSpec == Spec /\ Fairness

-----------------------------------------------------------------------------
(* Properties *)

One(P) == IF P THEN 1 ELSE 0

\* Types of the pool's fields and of the loops' local state; the channels never
\* hold more slots than their capacity and fn is never called with nil.
TypeOK ==
  /\ conns \in Seq(Slots) /\ Len(conns) <= NumMaxConnections
  /\ idleConns \in Seq(Slots) /\ Len(idleConns) <= NumMaxConnections
  /\ size \in MIN_PARALLELISM .. NumMaxConnections /\ pendingConnsToClose \in Nat
  /\ connToPreparedStmtCache \subseteq Conns /\ hostOf \in [Conns -> Hosts \cup {NoHost}]
  /\ wpc \in [Workers -> {"idle", "wait", "connect", "run", "return"}]
  /\ held \in [Workers -> Slots] /\ \A w \in Workers : wpc[w] = "run" => held[w] # NoConn
  /\ apc \in {"sleep", "take", "give"} /\ aslot \in Slots
  /\ mpc \in {"sleep", "take", "put", "check", "takeIdle", "putIdle"} /\ mslot \in Slots
  /\ servers \subseteq Hosts /\ rounds \in Nat /\ idx \in Nat
  /\ nodesStatus \subseteq Hosts /\ up \subseteq Hosts
  /\ lost \in Nat /\ outages \in Nat

\* Slots in the hands of the monitor and of the adaptive loop.
MonitorHolds == One(mpc = "put")
MonitorHoldsIdle == One(mpc = "putIdle")
AdaptiveHolds == One(apc = "give")

\* The slots of conns: in the channel, in the hands of workers and monitor, or
\* dropped by a failed connect.
SlotsOut == Len(conns) + Cardinality(Holding) + MonitorHolds + lost

\* The slots of idleConns.
SlotsIdle == Len(idleConns) + AdaptiveHolds + MonitorHoldsIdle

\* However calls, resizes and monitor passes interleave, the slots in use are
\* the size of the pool plus the decreases still to be carried out, and the rest
\* is idle: so no send of WithConn, UpdateNumConnections or
\* RemoveConnectionsForHosts ever finds its channel full.
SlotsConserved ==
  /\ SlotsOut = size + pendingConnsToClose
  /\ SlotsIdle = NumMaxConnections - (size + pendingConnsToClose)

\* While fewer slots are lost than the pool is large, a goroutine that waits in
\* WithConn gets one, whatever the adaptive loop and the monitor do meanwhile.
ServedWhileSlotsLast ==
  \A w \in Workers : wpc[w] = "wait" /\ lost < size ~> wpc[w] # "wait" \/ lost >= size

=============================================================================
