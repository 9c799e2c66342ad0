SPECIFICATION Spec
CONSTANTS
  c1 = c1  c2 = c2  c3 = c3
  Clients <- ThreeClients
  Capacity = 2
  Window = 3
  Second = 2
  MaxTracked = 2
  Passes = 1
  MaxTime = 5
  MaxAdmitted = 4
SYMMETRY Symmetry
INVARIANTS
  WindowBound
  RetryAfterSuffices
PROPERTIES
  RefusedOnlyOverCapacity
  EvictsLeastRecent
CHECK_DEADLOCK FALSE
