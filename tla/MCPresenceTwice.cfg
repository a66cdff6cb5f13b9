SPECIFICATION Spec
CONSTANTS
  u1 = u1
  Conn = {c1, c2}
  User = {u1}
  Gateway = {g1, g2}
  Owner <- OneOwner
  None = None
  Online = Online
  Unknown = Unknown
  MaxFaults = 0
CHECK_DEADLOCK FALSE
INVARIANT OneConnectionPerUser
