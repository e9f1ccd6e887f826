SPECIFICATION BatchSpec
CONSTANTS
  Jobs = {j1, j2}
  Calls <- PurgeCalls
  Types = {"burn_deletion", "batch_restore", "batch_force_delete"}
  Concurrency = 1
  MaxStalled = 1
  None = None
  Settings <- MCSettings
  Links = {l1, l2}
  Owned = {l1}
  MaxBatch = 2
SYMMETRY Symmetry
INVARIANT BatchInv
INVARIANT OutcomesAreTrue
PROPERTY QueuesKeepPromise
PROPERTY LinksChangeByRight
CHECK_DEADLOCK FALSE
