SPECIFICATION FairSpec
CONSTANTS
  Releases = {1, 2, 3}
  Good = {1, 3}
  MaxFaults = 2
  MaxCrashes = 3
  MaxRepairs = 2
INVARIANTS AttemptedOnce UnprovenIsMarked
PROPERTIES ServesAgain
CHECK_DEADLOCK FALSE
