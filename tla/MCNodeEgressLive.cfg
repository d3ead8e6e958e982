SPECIFICATION FairSpec
CONSTANTS
  b1 = b1
  b2 = b2
  p1 = p1
  p2 = p2
  data = data
  fin = fin
  None = None
  Ranges = {fin}
  FinRanges = {fin}
  EmptyRanges = {fin}
  PriorityRanges = {}
  Paths = {p1}
  Bearers = {b1}
  Removable = {}
  Resumable = {}
  Routes <- MCOneRoute
  HistoryLimit = 2
  TransmissionLimit = 4
  LineageLimit = 4
  Window = 2
  MaxPackets = 4
  MaxFaults = 2
INVARIANT RetainedIsRecoverable
PROPERTY RecoveryNeverStalls
CHECK_DEADLOCK FALSE
