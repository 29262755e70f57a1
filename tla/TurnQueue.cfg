CONSTANTS
  MaxTurn = 3
  Windows = {}
SPECIFICATION FairSpec
CHECK_DEADLOCK FALSE
INVARIANTS IInv TypeOK NobodyStranded NeverTwice Shown PausedMeansWaiting StopHolds OneTurn
PROPERTIES ImplementsConversation Served
