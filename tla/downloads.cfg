SPECIFICATION DownloadsSpec
CONSTANTS
  Links = {l1}
  Visitors = {v1}
  Downloads = {d1, d2}
  Expiries = {0}
  Never = Never
  None = None
  MaxNow = 1
  MaxUpdates = 1
  MaxFaults = 2
  MaxChunks = 4
  Create = {}
  Edit = {}
  short = short
  good = good
  bad = bad
  big = big
  Files <- MCFiles
  Size <- MCSize
  Signed <- MCSigned
  MagicSize = 2
  Limit = 3
  Keys = {k1}
  Stuck = {}
  FormLinks = {e}
  Edited = e
  MaxRestarts = 0
  MaxChoices = 0
  Exts = {"jpg"}
  Mimes = {"image/jpeg"}
  Heads = {"jpg"}
  Sizes = {1}
INVARIANT DownloadsInv
PROPERTY BurnsInTheEnd
PROPERTY KeptExpiryIsRespected
PROPERTY SettledForGood
PROPERTY PipeSettles
CHECK_DEADLOCK FALSE
