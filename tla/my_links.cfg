SPECIFICATION MyLinksSpec
CONSTANTS
  None = None
  Users = {admin}
  Admins = {admin}
  Names = {n1, n2}
  Lives = {0, 1}
  Limit = 1
  Day = 2
  RetentionDays = 1
  MaxLinks = 2
  MaxTime = 4
  Filters <- MCFilters
  n1 = n1
  n2 = n2
  admin = admin
  Tabs = {t1, t2}
  Durations = {1}
  Dates = {3}
  ZoneShift = 1
  EditTime = 2
  MaxShortIds = 2
SYMMETRY Symmetry
INVARIANT WalkShowsAll
INVARIANT MyLinksInv
PROPERTY DaysAreKept
PROPERTY EditsAsChosen
CHECK_DEADLOCK FALSE
