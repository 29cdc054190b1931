\* The second proxy is given by its name.
SPECIFICATION Spec
CONSTANTS
  N = 2
  Named <- SecondHop
  MaxChunks = 1
PROPERTY FailsForCause
CHECK_DEADLOCK FALSE
