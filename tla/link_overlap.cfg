SPECIFICATION FairOverlapSpec
CONSTANTS
  Keys = {k1, k2}
  Clients = {c1}
  k1 = k1
  k2 = k2
  c1 = c1
  NoKey = NoKey
  NoRow = NoRow
  MaxLinks = 2
  MaxTime = 2
  Expiries = {0, 1}
  Retention = 0
  BatchSize = 1
  MaxItems = 10
  MaxStorageFaults = 0
  MaxDbFaults = 1
  MaxCrashes = 0
INVARIANT BothRunsDeleteDoomed
INVARIANT FilesAndRowsAreInHand
PROPERTY GarbageIsCollected
PROPERTY KeepsLinkPromise
CHECK_DEADLOCK FALSE
