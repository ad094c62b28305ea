CONSTANTS
  Sources = {c1, c2}
  NoSource = none
  MaxSessions = 2
  MaxNow = 2
  ClockBack = TRUE
  TicksPerSecond = 1
  IdleTimeout = 1
  ListenerBatch = 2
  SessionBatch = 2
SPECIFICATION Spec
SYMMETRY Symmetry
INVARIANTS SessionServed GaugeCoversTable InsertFindsVacant DrainedStaysEmpty
PROPERTIES RemovedForCause ListedAreIdle
