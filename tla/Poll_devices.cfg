SPECIFICATION MCSpec
CONSTANTS
  None = None
  Workers = {w1}
  Refreshers = {r1}
  Adders = {"loader"}
  Limit = 1
  MaxFailures = 1
  MaxUnpairs = 1
  Events = {"overlap", "stop", "down", "busy", "lossy"}
INVARIANTS NoDeviceLost
PROPERTIES RecoveredIsPolled
CHECK_DEADLOCK FALSE
