CONSTANTS
  Instances <- AllOrTwice
  MaxRefusals = 1
CHECK_DEADLOCK FALSE
SPECIFICATION Spec
INVARIANTS
  RecoveryTypeOK
  NothingForgotten
PROPERTIES
  ConnectionBack
  ChannelsBack
