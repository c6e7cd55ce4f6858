CONSTANTS
  Address = "me"
  Frames <- MCFrames
  HeadLen = 2
  TagLen = 1
  SumLen = 1
  Capacity = 2
  MaxSent = 3
  MaxFaults = 2
SPECIFICATION FairSpec
INVARIANTS
  TypeOK
  LossBounded
PROPERTIES
  ImplementsChannel
  ReturnsToSync
CHECK_DEADLOCK FALSE
