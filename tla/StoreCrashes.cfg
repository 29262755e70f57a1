CONSTANTS
  Thread = {t1, t2}
  Project = {p1}
  MaxTombstones = 1
  MaxRev = 4
  MaxStore = 2
  Crashes = TRUE
  Failures = TRUE
  Windows = {}
SPECIFICATION Spec
CHECK_DEADLOCK FALSE
SYMMETRY Symmetry
INVARIANTS IInv IncrementalIsExact NextRevIsNew
