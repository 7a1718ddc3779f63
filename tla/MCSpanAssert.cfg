CONSTANTS
  None = None
  Number <- MCNumber
  Env <- MCEnv
  Matching <- MCMatching
  Malformed <- MCMalformed
  Goroutine = {g1, g2}
  Context = {c1, c2, c3}
  ExpectedSpan <- MCExpectedSpan
  ActualSpan <- MCActualSpan
SPECIFICATION Spec
INVARIANTS
  Inv
  VerdictIsOwn
  AcceptedAgrees
CHECK_DEADLOCK FALSE
