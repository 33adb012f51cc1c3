SPECIFICATION Spec
CONSTANTS
  None = None
  Handshakes = {h1, h2, h3}
  Streams = {s1, s2}
  MaxRestarts = 1
  MaxLostReplies = 1
SYMMETRY Symmetry
INVARIANTS RevokedIsOut CurrentSessionRules
CHECK_DEADLOCK FALSE
