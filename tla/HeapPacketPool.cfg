SPECIFICATION Spec
CONSTANTS
  MaxSlots = 3
  Callbacks = {c1, c2}
  Owner = owner
  Nobody = nobody
  Reserved = 1
  MaxLeases = 2
INVARIANTS StorageHeld ReferencesMatchHandles
PROPERTIES ReserveKept StrandedIsReclaimed ResizeEnds
