SPECIFICATION FairSpec
CONSTANTS
  u1 = u1
  u2 = u2
  m1 = m1
  m2 = m2
  User = {u1, u2}
  Gateway = {g1}
  Msg = {m1}
  Sender <- BothSenders
  Receiver <- BothReceivers
  None = None
  Prefetch = 1
  MaxFaults = 1
  MaxSessions = 2
  MaxMarks = 0
CHECK_DEADLOCK FALSE
PROPERTIES
  AcceptedEventuallyStored
  ReachableGetsMessage
