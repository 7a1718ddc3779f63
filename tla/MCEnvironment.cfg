CONSTANTS
  Service = {a, b}
  MaxStarts = 2
  Image = {i, j}
  Pod = {p}
  NumExports = 2
  MaxEvents = 2
  MaxRetry = 5
SPECIFICATION Spec
INVARIANTS
  Inv
  ReturnsItsOwn
  OkMeansReady
  NoForwardLeft
  FileOutlivesCluster
PROPERTIES
  EnvironmentEnds
  ListenerEnds
CHECK_DEADLOCK FALSE
