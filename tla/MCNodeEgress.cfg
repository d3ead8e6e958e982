SPECIFICATION Spec
CONSTANTS
  b1 = b1
  b2 = b2
  p1 = p1
  p2 = p2
  data = data
  fin = fin
  None = None
  Ranges = {data, fin}
  FinRanges = {fin}
  EmptyRanges = {fin}
  PriorityRanges = {data}
  Paths = {p1, p2}
  Bearers = {b1, b2}
  Removable = {b1}
  Resumable = {p1}
  Routes <- MCRoutes
  HistoryLimit = 2
  TransmissionLimit = 2
  LineageLimit = 1
  Window = 2
  MaxPackets = 4
  MaxFaults = 2
INVARIANTS
  FlightMatchesLedger
  RecordsNameTheirRange
  ForgottenWasReceived
  AckedIsForgotten
CHECK_DEADLOCK FALSE
