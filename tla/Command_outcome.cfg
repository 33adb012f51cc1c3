SPECIFICATION FairSpec
CONSTANTS
  b1 = b1
  d1 = d1
  d2 = d2
  r1 = r1
  r2 = r2
  Batches = {b1}
  Devices = {d1, d2}
  Targets <- OneDevice
  Runs = {r1, r2}
  MaxFailureRetries = 2
  MaxWorkers = 2
  DequeLimit = 2
  MaxLive = 1
  MaxFaults = 2
  MaxCallbackRetries = 1
INVARIANTS SlotsAccounted CallerToldTruth CompletedIsTrue
PROPERTIES KeepsLedger CommandsEnd
CHECK_DEADLOCK FALSE
