SPECIFICATION Spec
CONSTANTS
  Bearers = {b1, b2}
  Capacity = 3
  None = none
INVARIANT CallbackFindsSlot
SYMMETRY Symmetry
CHECK_DEADLOCK FALSE
