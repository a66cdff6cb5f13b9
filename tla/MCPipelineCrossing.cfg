SPECIFICATION Spec
CONSTANTS
  u1 = u1
  u2 = u2
  m1 = m1
  m2 = m2
  User = {u1, u2}
  Gateway = {g1, g2}
  Msg = {m1, m2}
  Sender <- BothSenders
  Receiver <- BothReceivers
  None = None
  Prefetch = 2
  MaxFaults = 0
  MaxSessions = 2
  MaxMarks = 1
CHECK_DEADLOCK FALSE
INVARIANTS
  WiresTruthful
