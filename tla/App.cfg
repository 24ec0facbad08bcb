\* Two requests.  In 5 bits the third backoff overflows.
CONSTANTS
  q1 = q1
  q2 = q2
  Requests <- TwoRequests
  RetryAttempts <- DbRetries
  Base = 4
  Width = 5
SPECIFICATION FairSpec
INVARIANTS EveryPoolAccounted ShortWaitIsLate GateHolds ClosedOnlyIfReported
PROPERTY AppEnds
CHECK_DEADLOCK FALSE
