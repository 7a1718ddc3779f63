CONSTANTS
  Caller = {setup, listener}
  Container = {a, b}
  MaxCalls = 1
  MaxHandles = 2
  NumLines = 2
SPECIFICATION Spec
INVARIANTS
  Inv
  FileIsTrue
PROPERTIES
  CloseEndsAll
CHECK_DEADLOCK FALSE
