SPECIFICATION FairSpec
CONSTANTS
  Jobs = {j1, j2, j3}
  j1 = j1
  j2 = j2
  j3 = j3
  Types = {"t1"}
  PriorityArgs = {"high", "low"}
  Limits = {2}
  Delays = {0, 1}
  NoJob = NoJob
  Concurrency = 2
  PollInterval = 1
  RetryDelay = 1
  BackoffMultiplier = 2
  Patience = 0
INVARIANT IInv
INVARIANT TakenIsTheLoop
PROPERTY KeepsPromise
PROPERTY NoIdleCapacity
PROPERTY FirstThingsFirst
PROPERTY JobsEnd
