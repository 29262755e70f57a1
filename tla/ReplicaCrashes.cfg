CONSTANTS
  Thread = {t1, t2}
  Project = {}
  MaxTombstones = 1
  MaxRev = 4
  MaxStore = 1
  MaxPending = 2
  Crashes = TRUE
  Failures = TRUE
  Windows = {}
SPECIFICATION Spec
CHECK_DEADLOCK FALSE
SYMMETRY Symmetry
INVARIANTS TypeOK CursorSound SavedCursorSound CursorRevTaken
