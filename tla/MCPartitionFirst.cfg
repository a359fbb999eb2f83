CONSTANTS
  N = 4
  Words = 8
  Values <- MCValues
SPECIFICATION SafeSpec
\* partition returns, or its process is killed.
CHECK_DEADLOCK FALSE
INVARIANTS
  NeverKilled

