CONSTANTS
  MaxPort = 1
  Requests = {r1}
  Conns = {c1}
  MaxConnections = 1
  NoConn = none
SPECIFICATION AppFairSpec
INVARIANT CleanExit
PROPERTIES ImplementsTcpListener ForwardingCloses ShutdownEnds
