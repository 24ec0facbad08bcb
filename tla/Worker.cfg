\* Two tasks, one handler at a time, one retry.
CONSTANTS
  t1 = t1
  t2 = t2
  Tasks <- TwoTasks
  Concurrency = 1
  MaxRetry = 1
  MaxOptions = 3
  MaxResets = 1
SPECIFICATION FairSpec
INVARIANTS  LastScheduleWins IdNamesTask
PROPERTY StopReturns
CHECK_DEADLOCK FALSE
