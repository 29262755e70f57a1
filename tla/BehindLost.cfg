CONSTANTS
  Phone = {p1}
  Kind = {"renameThread"}
  Desk = desk
  MaxDecisions = 2
  MaxBreaks = 1
  Windows = {"behind_lost"}
SPECIFICATION Spec
CHECK_DEADLOCK FALSE
INVARIANT LatestWins
