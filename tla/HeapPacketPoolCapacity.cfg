SPECIFICATION Spec
CONSTANTS
  MaxSlots = 2
  Callbacks = {c1}
  Owner = owner
  Nobody = nobody
  Reserved = 0
  MaxLeases = 1
INVARIANTS CapacityIsAcquirable
