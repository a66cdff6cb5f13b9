CONSTANTS
  None = None
  Torn = Torn
  MaxKeys = 3
  MaxStops = 3
  Limit = 2
  MaxRows = 4
CHECK_DEADLOCK FALSE
SPECIFICATION Spec
INVARIANTS
  TypeOK
  FilesMatch
  TokensVerify
  NoGap
