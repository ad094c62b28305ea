CONSTANTS
  Sources = {c1}
  NoSource = none
  MaxSessions = 1
  MaxNow = 2
  ClockBack = FALSE
  TicksPerSecond = 1
  IdleTimeout = 1
  ListenerBatch = 1
  SessionBatch = 1
SPECIFICATION Spec
PROPERTY EvictsOnlyIdle
