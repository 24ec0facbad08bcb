\* The context a Stop gets when Run is cancelled.
CONSTANTS
  N = 2
  ShutdownTimeout = 2
  StartDeadline = TRUE
  LongestStop = 3
  Readyable <- AllButLast
SPECIFICATION Spec
INVARIANT StopGetsItsBudget
CHECK_DEADLOCK FALSE
