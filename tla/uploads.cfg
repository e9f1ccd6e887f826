SPECIFICATION UploadsSpec
CONSTANTS
  Create = {p1}
  Edit = {p2}
  short = short
  good = good
  bad = bad
  big = big
  Files <- MCFiles
  Size <- MCSize
  Signed <- MCSigned
  MagicSize = 1
  Limit = 2
  Keys = {k1, k2, k3}
  Stuck = {k1, k2}
  FormLinks = {e, l1}
  Edited = e
  MaxRestarts = 1
  MaxChoices = 2
  None = None
  Exts <- MCExts
  Mimes <- MCMimes
  Heads <- MCHeads
  Sizes = {1, 2, 3, 4, 5, 6}
  Links = {}
  Visitors = {}
  Downloads = {}
  Expiries = {}
  Never = Never
  MaxNow = 0
  MaxUpdates = 0
  MaxFaults = 0
  MaxChunks = 0
INVARIANT UploadsInv
PROPERTY KeptOrDeleted
PROPERTY SubmitEnds
CHECK_DEADLOCK FALSE
