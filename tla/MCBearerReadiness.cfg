SPECIFICATION FairSpec
CONSTANTS
  Bearers = {b1, b2}
  Capacity = 2
  None = none
INVARIANTS RefusedWillBeRetried StartedIsContinued OwnerSeesEverySlot
PROPERTY RefusedIsTaken
CHECK_DEADLOCK FALSE
