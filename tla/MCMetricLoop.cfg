CONSTANTS
  MaxMetrics = 2
SPECIFICATION Spec
PROPERTIES
  SearchEnds
CHECK_DEADLOCK FALSE
