SPECIFICATION DashboardSpec
CONSTANTS
  Items = {i1, i2}
  Batches = {b1}
  None = None
  ToastTime = 1
  MaxToasts = 1
  MaxBusy = 1
  i1 = i1
  k1 = k1
  k2 = k2
  links = links
  stats = stats
  Callers = {c1, c2}
  Writers = {w1}
  Keys = {k1, k2}
  Tags = {links, stats}
  TagsOf <- MCTagsOf
  Ttl = 1
  MaxSize = 1
  MaxWrites = 1
INVARIANT DashboardInv
PROPERTY PageSettles
PROPERTY CacheConverges
CHECK_DEADLOCK FALSE
