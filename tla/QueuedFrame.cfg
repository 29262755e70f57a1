CONSTANTS
  MaxSeq = 3
  MaxWindow = 2
  MaxConn = 3
  Windows = {"queued_frame"}
SPECIFICATION Spec
CHECK_DEADLOCK FALSE
INVARIANT AppliedInOrder
