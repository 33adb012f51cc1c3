SPECIFICATION FairSpec
CONSTANTS
  Schedules = {s1}
  MaxEdits = 2
  MaxUserOps = 1
  Workers = {w1}
  MaxGen = 6
  MaxFaults = 0
  MaxRefusals = 1
  MaxStops = 1
INVARIANTS TimersCounted WindowHolds
PROPERTIES ProcessorLeavesAlone WindowReverts
CHECK_DEADLOCK FALSE
