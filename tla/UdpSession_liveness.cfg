CONSTANTS
  Sources = {c1}
  NoSource = none
  MaxSessions = 2
  MaxNow = 2
  ClockBack = FALSE
  TicksPerSecond = 2
  IdleTimeout = 2
  ListenerBatch = 1
  SessionBatch = 1
SPECIFICATION FairSpec
PROPERTIES ShutdownCompletes OrphanEnds StaleIsEvicted
