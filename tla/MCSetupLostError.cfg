CONSTANTS
  NumSteps = 2
  MaxWaits = 2
  Manifests <- MCManifests
  Timeout = 2
SPECIFICATION Spec
INVARIANTS
  OkMeansNothingFailed
CHECK_DEADLOCK FALSE
