CONSTANTS
  N = 3
  RetryCounts <- MCRetryCounts
  AttemptMayPanic = TRUE
SPECIFICATION AssertSpec
INVARIANTS
  Inv
  OkMeansAllPassed
  ReportIsRight
PROPERTIES
  Refines
CHECK_DEADLOCK FALSE
