CONSTANTS
  Desktop = {d1, d2}
  Session = {1, 2}
  Request = {r1}
  Chat = chat
  NoOne = noone
  MaxReports = 2
  MaxChanges = 3
  MaxBreaks = 1
  Windows = {}
SPECIFICATION Spec
CHECK_DEADLOCK FALSE
SYMMETRY Symmetry
INVARIANTS TypeOK HoldsAreLive AskedAreThere Told
PROPERTY ReleasedIsFree
