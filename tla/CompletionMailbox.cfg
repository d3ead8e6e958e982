SPECIFICATION MailboxSpec
CONSTANTS
  Leases = {l1, l2, l3}
  Capacity = 3
  None = none
INVARIANTS PushNeverFails SlotsHoldLeases PopReadsStored
PROPERTIES CompletedIsReturned
