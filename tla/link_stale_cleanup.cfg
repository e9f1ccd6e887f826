SPECIFICATION Spec
CONSTANTS
  Keys = {k1}
  Clients = {c1}
  k1 = k1
  c1 = c1
  NoKey = NoKey
  NoRow = NoRow
  MaxLinks = 1
  MaxTime = 3
  Expiries = {0, 1}
  Retention = 1
  BatchSize = 1
  MaxItems = 10
  MaxStorageFaults = 0
  MaxDbFaults = 0
  MaxCrashes = 0
SYMMETRY Symmetry
PROPERTY CollectorRemovesWhatIsDue
CHECK_DEADLOCK FALSE
