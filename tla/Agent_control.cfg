SPECIFICATION Spec
CONSTANTS
  None = None
  Streams = {s1, s2}
  Legacy = {s2}
  Calls = {c1, c2}
  Reporting = {c1}
  Codes = {"ok", "partial", "busy", "failed"}
  EventBuffer = 1
  OutgoingBuffer = 1
  Deferrable = {c2}
  Devices = {d1}
  PoolSize = 1
  DeferrableSize = 1
  MaxStoreFailures = 1
INVARIANTS InflightIsAwaited NoAckLost PairedIsStored NoTargetStranded
CHECK_DEADLOCK FALSE
