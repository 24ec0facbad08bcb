\* What Run returns when it is cancelled during start-up.
CONSTANTS
  N = 2
  ShutdownTimeout = 2
  StartDeadline = TRUE
  LongestStop = 3
  Readyable <- AllButLast
SPECIFICATION Spec
INVARIANT CancelledRunIsClean
CHECK_DEADLOCK FALSE
