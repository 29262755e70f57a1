CONSTANTS
  MaxSeq = 3
  MaxWindow = 2
  MaxConn = 3
  Windows = {"late_response"}
SPECIFICATION Spec
CHECK_DEADLOCK FALSE
INVARIANT NothingSkipped
