SPECIFICATION LeftSpec
CONSTANTS
  Keys = {k1, k2}
  Clients = {c1, c2}
  k1 = k1
  k2 = k2
  c1 = c1
  c2 = c2
  NoKey = NoKey
  NoRow = NoRow
  MaxLinks = 2
  MaxTime = 2
  Expiries = {0, 1}
  Retention = 0
  BatchSize = 1
  MaxItems = 10
  MaxStorageFaults = 1
  MaxDbFaults = 2
  MaxCrashes = 1
  MaxFaults = 2
CONSTRAINT FewFaults
SYMMETRY Symmetry
INVARIANT IInv
INVARIANT LeftForAReason
PROPERTY NeverResurrected
CHECK_DEADLOCK FALSE
