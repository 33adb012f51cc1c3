CONSTANTS
  d1 = d1
  d2 = d2
  f1 = f1
  f2 = f2
  f3 = f3
  None = None
  Factory = "factory"
  Devices = {d1}
  Artifacts = {f1, f2, f3}
  Alike = {f1, f2}
  Method = "all_at_once"
  Size = 1
  Review = FALSE
  Auto = FALSE
  Wait = FALSE
  Limit = 0
  Limits = {}
  MaxAttempts = 1
  MaxRollouts = 2
  MaxChanges = 2
  MaxMoves = 2
  Operations = {"apply", "pause", "cancel", "retry", "skip", "rollback", "clear"}
  Happens = {"fail", "leave", "join", "manual", "rename", "missing"}
  Enforcers = {"e1"}
SPECIFICATION Spec
SYMMETRY Lookalikes
INVARIANTS ProvenanceIsTrue
PROPERTIES SendsAreAuthorized HistoryStands
CHECK_DEADLOCK FALSE
