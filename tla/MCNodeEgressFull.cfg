SPECIFICATION FairSpec
CONSTANTS
  b1 = b1
  b2 = b2
  p1 = p1
  p2 = p2
  data = data
  fin = fin
  None = None
  Ranges = {fin}
  FinRanges = {fin}
  EmptyRanges = {fin}
  PriorityRanges = {}
  Paths = {p1}
  Bearers = {b1}
  Removable = {}
  Resumable = {}
  Routes <- MCOneRoute
  HistoryLimit = 2
  TransmissionLimit = 2
  LineageLimit = 6
  Window = 2
  MaxPackets = 6
  MaxFaults = 2
PROPERTY RecoveryNeverStalls
CHECK_DEADLOCK FALSE
