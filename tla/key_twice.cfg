SPECIFICATION RequestsSpec
CONSTANTS
  NumRequests = 2
  Ops <- SaveAndLogin
  Fingerprint <- MCFingerprint
  Key <- MCKey
  Exempt = {}
  None = None
  LateDelay = 0
  Window = 1
  Timeout = 1
  Stale = 2
  Ttl = 3
  MaxArrival = 3
  MaxNow = 4
  MaxErrors = 0
  c1 = c1
  c2 = c2
  c3 = c3
  Conns = {c1, c2, c3}
  Jobs = {j1, j2}
  Hanging = {c1}
  MaxAlone = 1
  MaxSignals = 2
INVARIANT KeyRunsOnce
CHECK_DEADLOCK FALSE
