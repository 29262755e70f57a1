CONSTANTS
  MaxTurn = 2
  Windows = {"overlap"}
SPECIFICATION Spec
CHECK_DEADLOCK FALSE
INVARIANT OneTurn
