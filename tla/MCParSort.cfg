CONSTANTS
  N = 6
  Values <- MCValues
  Inputs <- MCInputs
  Rests = {0, 3}
  par_threshold = 2
  MaxKills = 1
SPECIFICATION Spec
\* parsort ends.
CHECK_DEADLOCK FALSE
INVARIANTS
  NoOverlap
  SuccessIsComplete
  NoChildLeft
  FailureHasCause
  VerdictIsTrue
PROPERTIES
  SortSpec
  Ends
