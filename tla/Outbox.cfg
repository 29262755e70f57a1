CONSTANTS
  Phone = {p1, p2}
  Kind = {"renameThread", "archiveThread", "deleteThread"}
  Desk = desk
  MaxDecisions = 3
  MaxBreaks = 1
  Windows = {}
SPECIFICATION Spec
CHECK_DEADLOCK FALSE
INVARIANTS TypeOK LatestWins
PROPERTIES DeletesWhatWasSeen KeptIsSent
