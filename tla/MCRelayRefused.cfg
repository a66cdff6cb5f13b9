SPECIFICATION FairSpec
CONSTANTS
  Conn = {c1, c2}
  Contact = {a}
  None = None
  MaxAsks = 2
  MaxUpdates = 0
  MaxFaults = 0
CHECK_DEADLOCK FALSE
PROPERTY RefusalEnds
