CONSTANTS
  MaxTimes = 3
  ServerMayHang = TRUE
  AssertMayCrash = TRUE
  Path = {"main", "lib", "sub"}
  CfgFile = "main"
  Name = {"a", "b"}
  Trees <- MCTrees
  MaxDepth = 4
SPECIFICATION Spec
INVARIANTS
  Inv
  LoadedAsWritten
  CleanedIffAsked
  NoTrafficDuringCleanup
PROPERTIES
  AnswerIsEarned
  AnswerComes
  StopEnds
CHECK_DEADLOCK FALSE
