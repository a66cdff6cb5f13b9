CONSTANTS
  Email = {e1, e2}
  Matching = {e1}
  Password = {p1, p2, p3}
  Strong = {p1, p2}
  Req = {r1, r2}
  None = None
  MaxWrites = 3
  MaxLapses = 1
SYMMETRY Symmetry
CHECK_DEADLOCK FALSE
SPECIFICATION Spec
INVARIANTS
  TypeOK
  DuplicateNeedsOverlap
  RefusedUnchanged
PROPERTIES
  PasswordFromHolder
