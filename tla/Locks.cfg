SPECIFICATION SpecLocks
CONSTANTS
  Thread = {"t", "u"}
  Item = {"x", "y"}
  BundleIdx <- OneEach
  Ops <- AllOps
  MaxCalls = 4
  Caller = {"a", "b"}
  Bundles = 2
  Stale <- BothStale
  Bins = 2
  HardwareConcurrency = 2
  ThreadCounts = {0, 1, 2}
  MaxChanges = 1
  MayFail = TRUE
INVARIANTS AsAnnounced PoolOutlivesTasks
PROPERTIES EveryCallReturns HashesAgree
CHECK_DEADLOCK FALSE
