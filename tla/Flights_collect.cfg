SPECIFICATION MCSpec
CONSTANTS
  None = None
  Workers = {w1}
  Refreshers = {r1}
  Samplers = {q1}
  MaxPolls = 1
  MaxStarts = 1
  MaxRemovals = 1
INVARIANTS ClaimIsHeld FreshSample RetainedIsCurrent
PROPERTIES StopEnds
CHECK_DEADLOCK FALSE
