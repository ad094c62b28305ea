CONSTANTS
  Ports = {p1, p2}
  Conns = {c1, c2, c3}
  MaxConnections = 2
  NoConn = none
SPECIFICATION FairSpec
INVARIANTS PermitsConserved ActiveIsExact ListenerOutlivesProxies
PROPERTIES ImplementsLimit ShutdownCompletes BacklogAccepted
