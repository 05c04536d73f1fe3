SPECIFICATION FairSpec
CONSTANTS
  Workers = {w1, w2}
  Conns = {c1, c2}
  Hosts = {h1, h2}
  NoConn = NoConn
  NoHost = NoHost
  NumConnections = 2
  NumMaxConnections = 2
  Adaptive = TRUE
  MaxConnectFailures = 1
  MaxOutages = 1
INVARIANTS
  SlotsConserved
PROPERTIES
  ServedWhileSlotsLast
