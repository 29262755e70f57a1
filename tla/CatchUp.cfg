CONSTANTS
  MaxSeq = 3
  MaxWindow = 2
  MaxConn = 3
  Windows = {}
SPECIFICATION FairSpec
CHECK_DEADLOCK FALSE
INVARIANTS TypeOK NothingSkipped SinkServes AppliedInOrder
PROPERTIES ImplementsDelivery Delivered
