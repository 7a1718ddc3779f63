CONSTANTS
  N = 2
  RetryCounts <- MCRetryCounts
  AttemptMayPanic = FALSE
SPECIFICATION AssertSpec
INVARIANTS
  ConcurrencyIsUsable
CHECK_DEADLOCK FALSE
