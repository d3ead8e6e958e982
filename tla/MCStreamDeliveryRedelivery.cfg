SPECIFICATION Spec
CONSTANTS
  s1 = s1
  s2 = s2
  Streams <- MCStreams
  MaxPending <- MCMaxPending
  Window = 2
  RetentionLimit = 2
  Length = 3
  Chunk = 2
  HalfOpen = {"client"}
INVARIANT DeliveredOnce
