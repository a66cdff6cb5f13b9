CONSTANTS
  User = {u1}
  Browser = {b1, b2}
  Req = {r1, r2}
  None = None
  AccessLife = 1
  RefreshLife = 2
  MaxTime = 2
  MaxFaults = 1
SYMMETRY BrowserReqSymmetry
CHECK_DEADLOCK FALSE
SPECIFICATION Spec
INVARIANTS
  TypeOK
  SessionIntact
  LogoutFinal
  RefusedForCause
