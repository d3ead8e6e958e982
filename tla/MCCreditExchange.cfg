\* One stream may be open at a time; the second waits for MAX_STREAMS.
SPECIFICATION FairSpec
CONSTANTS
  StreamTotal = 2
  Length <- MCLength
  ConnWindow = 2
  StreamWindow = 1
  StreamsWindow = 1
  Threshold = 1
  Packets = {p1, p2}
INVARIANTS
  GrantedOnly
  NoCreditForgotten
PROPERTY
  AdmittedIsServed
CHECK_DEADLOCK FALSE
