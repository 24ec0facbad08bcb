\* Two services, whose Stops obey their contexts or take longer than the whole
\* timeout.  3 does not divide by 2, so the shares round.
CONSTANTS
  N = 2
  ShutdownTimeout = 3
  StartDeadline = TRUE
  LongestStop = 4
  Readyable <- AllButLast
SPECIFICATION FairSpec
INVARIANTS TypeOK StopAfterStart StoppedInReverse
           WithinTimeout FairShare RootCauseKept NilMeansClean
PROPERTIES CancelEndsRun FailureEndsRun DeadlineEnforced
CHECK_DEADLOCK FALSE
