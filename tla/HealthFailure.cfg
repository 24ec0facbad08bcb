\* A client that leaves ends the checks of the probes that joined it.
CONSTANTS
  p1 = p1
  p2 = p2
  c1 = c1
  None = None
  Probes <- TwoProbes
  Checks <- OneCheck
  CacheTTL = 0
  Floor = 1
  MaxTime = 1
SPECIFICATION Spec
INVARIANT FailureMeansDown
