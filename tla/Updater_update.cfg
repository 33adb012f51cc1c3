SPECIFICATION FairSpec
CONSTANTS
  Ids = {i1}
  Callers = {c1, c2}
  MaxVersion = 3
  MaxOps = 1
  MaxFaults = 2
  MaxCrashes = 2
INVARIANTS AlwaysStartable NeverOlderThanSchema SuccessIsReal
PROPERTIES OperationEnds
CHECK_DEADLOCK FALSE
