SPECIFICATION FairSpec
CONSTANTS
  a = a
  b = b
  d = d
  q1 = q1
  q2 = q2
  q3 = q3
  q4 = q4
  None = None
  Here = Here
  NoRule = NoRule
  PreviousHops = {a, b}
  DownstreamHops = {d}
  TransactionIds = {1, 2}
  Requests = {q1, q2, q3, q4}
  Sendable <- MCSendable
  Route <- MCRoute
  MaxPending = 2
  MaxCached = 2
  MaxReserved = 2
  PendingTimeout = 2
  Retention = 1
  LeaseOffers = {1, 3}
  HopLease = 2
  Quota = 2
  MaxRoutes = 3
  MaxCids = 4
  MaxPackets = 2
INVARIANTS
  TypeOK
  CountersMatchTable
  PairsWhole
  NoRuleWithoutGrant
  ReplayedGrantIsLive
  PathServesOneRequest
PROPERTIES
  TransactionsEnd
