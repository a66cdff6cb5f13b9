SPECIFICATION FairSpec
CONSTANTS
  Conn = {c1}
  Contact = {a, b}
  None = None
  MaxAsks = 3
  MaxUpdates = 1
  MaxFaults = 1
CHECK_DEADLOCK FALSE
PROPERTIES
  SessionEnds
  AskFollowed
  UpdateShown
