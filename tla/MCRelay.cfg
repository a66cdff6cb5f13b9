SPECIFICATION Spec
CONSTANTS
  Conn = {c1, c2}
  Contact = {a, b}
  None = None
  MaxAsks = 2
  MaxUpdates = 1
  MaxFaults = 1
CHECK_DEADLOCK FALSE
SYMMETRY Symmetry
INVARIANTS
  TypeOK
  QueueFree
  SubscriptionLives
  FeedMatches
  ChildEndsOnlyIfHit
