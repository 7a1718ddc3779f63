CONSTANTS
  NumNames = 2
  MaxCapacity = 2
  MaxMetrics = 3
SPECIFICATION MetricsSpec
INVARIANTS
  Inv
  OkMeansHolds
  AnswerIsRight
  UnmarkedIsRight
PROPERTIES
  FamilyIsAccepted
  AnswersOrSticks
CHECK_DEADLOCK FALSE
