CONSTANTS
  d1 = d1
  d2 = d2
  f1 = f1
  f2 = f2
  f3 = f3
  None = None
  Factory = "factory"
  Devices = {d1, d2}
  Artifacts = {f1}
  Alike = {}
  Method = "batched"
  Size = 1
  Review = TRUE
  Auto = FALSE
  Wait = FALSE
  Limit = 1
  Limits = {1, 2}
  MaxAttempts = 1
  MaxRollouts = 2
  MaxChanges = 1
  MaxMoves = 2
  Operations = {"apply", "continue", "retry"}
  Happens = {"fail", "offline", "leave", "join", "abort"}
  Enforcers = {"e1"}
SPECIFICATION Spec
SYMMETRY Symmetry
PROPERTIES RiskWithinLimit ReviewGateHolds
CHECK_DEADLOCK FALSE
