CONSTANTS
  Channel = {c1, c2}
  Host = {h1, h2}
  AuthTicks = 1
  DialTicks = 1
  MaxSockets = 3
  MaxPhones = 1
SPECIFICATION FairSpec
CHECK_DEADLOCK FALSE
INVARIANTS TypeOK OneHost AlarmCovers HasDeadline BothHalves
PROPERTY NobodyWaits
