CONSTANTS
  Ports = {p1, p2}
  Conns = {c1}
  MaxConnections = 1
  NoConn = none
SPECIFICATION EndingSpec
PROPERTY AcceptedBelowCap
