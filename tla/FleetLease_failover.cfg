SPECIFICATION MCSpec
CONSTANTS
  s1 = s1
  s2 = s2
  p1 = p1
  p2 = p2
  c1 = c1
  c2 = c2
  Procs = {p1, p2}
  Servers = {s1, s2}
  Skew <- MCSkew
  Clusters = {c1, c2}
  LeaseDuration = 2
  RetryInterval = 1
  LeaderTTL = 2
  MaxTime = 2
  MaxGen = 2
  MaxHolder = 2
  MaxVersion = 2
  MaxOrphans = 1
SYMMETRY Symmetry
INVARIANTS AtMostOneLive
PROPERTIES TermsIncrease ImplementsOwnership
CHECK_DEADLOCK FALSE
