CONSTANTS
  NumSteps = 2
  MaxWaits = 2
  Manifests <- MCManifests
  Timeout = 2
SPECIFICATION Spec
INVARIANTS
  Inv
  StepsInOrder
  FailureKeepsError
  AppliedInOrder
PROPERTIES
  SetupReturns
CHECK_DEADLOCK FALSE
