SPECIFICATION Spec
CONSTANTS
  u1 = u1
  Conn = {c1, c2, c3}
  User = {u1}
  Gateway = {g1, g2}
  Owner <- OneOwner
  None = None
  Online = Online
  Unknown = Unknown
  MaxFaults = 1
CHECK_DEADLOCK FALSE
INVARIANTS
  TypeOK
  NoOrphanEntry
  NoOrphanRoute
  QuietMeansOffline
  SoleSessionRoutable
  StatusAgrees
