SPECIFICATION FairSpec
CONSTANTS
  Dids = {1}
  Numbers = {n1}
  CallIds = {c1}
  None = None
  StaleLimit = 1
  CallLimit = 1
  MaxInvites = 2
  MaxFailures = 2
  MaxEdits = 2
  MaxRestarts = 1
PROPERTIES
  InviteAnswered
  PoolsConverge
CHECK_DEADLOCK FALSE
