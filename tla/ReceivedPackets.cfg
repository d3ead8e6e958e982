SPECIFICATION Spec
CONSTANTS
  AckRangeCapacity = 4
  Last = 10
  Carriers = {c1, c2}
INVARIANTS
  TypeOK
  SearchAgrees
  RecentIsWelcome
PROPERTY
  ImplementsPacketMemory
