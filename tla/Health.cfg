\* Two streams of probes of one check around the expiry of the cache.
CONSTANTS
  p1 = p1
  p2 = p2
  c1 = c1
  None = None
  Probes <- TwoProbes
  Checks <- OneCheck
  CacheTTL = 0
  Floor = 1
  MaxTime = 1
SPECIFICATION FairSpec
INVARIANTS NeverStale AnswersMoveOn
PROPERTIES CacheMovesOn ProbesAnswered
