CONSTANTS
  N = 3
  IdChoices <- MCIdChoices
  MaxTraces = 2
SPECIFICATION TraceSpec
INVARIANTS
  OkMeansAllFound
  UnambiguousIsRight
  NoPanic
  OkMeansPaired
PROPERTIES
  TracesAnswered
CHECK_DEADLOCK FALSE
