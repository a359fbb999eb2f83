CONSTANTS
  N = 4
  Words = 8
  Values <- MCValues
SPECIFICATION Spec
\* partition returns, or its process is killed.
CHECK_DEADLOCK FALSE
INVARIANTS
  ReturnsPartition
  StaysInRegion
PROPERTIES
  Returns
