CONSTANTS
  Thread = {t1}
  Project = {p1}
  MaxTombstones = 1
  MaxRev = 2
  MaxStore = 2
  MaxPending = 2
  Crashes = TRUE
  Failures = FALSE
  Windows = {}
SPECIFICATION FairSpec
CHECK_DEADLOCK FALSE
INVARIANT CursorSound
PROPERTY Converges
