\* Two streams may be open at a time; the third waits for MAX_STREAMS.
SPECIFICATION Spec
CONSTANTS
  StreamTotal = 3
  Length <- MCLength
  ConnWindow = 2
  StreamWindow = 1
  StreamsWindow = 2
  Threshold = 1
  Packets = {p1, p2}
INVARIANTS
  GrantedOnly
  NoCreditForgotten
CHECK_DEADLOCK FALSE
