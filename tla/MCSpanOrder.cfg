CONSTANTS
  N = 3
  IdChoices <- MCDistinct
  MaxTraces = 1
SPECIFICATION TraceSpec
INVARIANTS
  OrderDoesNotMatter
CHECK_DEADLOCK FALSE
