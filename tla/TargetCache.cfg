CONSTANTS
  Callers = {c1, c2}
  Slots = {r1, r2}
  MaxNow = 4
  MaxAnswers = 3
  MinTtl = 1
  MaxTtl = 2
  FailureRefresh = 1
  MaxRawTtl = 3
SPECIFICATION FairSpec
INVARIANTS SingleFlight DeadlineBounded
PROPERTIES NeverOlder ExpiredRenewed
