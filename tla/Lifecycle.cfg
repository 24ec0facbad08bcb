\* Two Start calls on one instance (the runner makes one), racing two Stops
\* and one WaitReady.
CONSTANTS
  p1 = p1
  p2 = p2
  s1 = s1
  s2 = s2
  w1 = w1
  None = None
  Starters <- TwoStarts
  Stoppers <- TwoStops
  Waiters <- OneWait
SPECIFICATION FairSpec
INVARIANTS TypeOK NoLeak StopWaitsForRelease
PROPERTIES CallsReturn ImplementsReleaseOnce
CHECK_DEADLOCK FALSE
