SPECIFICATION FairSpec
CONSTANTS
  N = 3
  MaxGeneration = 2
  Requests = {q1, q2}
INVARIANTS ServesOnlyWithJobs CleanExitIsQuiet
PROPERTIES StopsInReverse RunEnds
CHECK_DEADLOCK FALSE
