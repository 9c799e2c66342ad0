SPECIFICATION Spec
CONSTANTS
  c1 = c1  c2 = c2  c3 = c3
  Clients <- OneClient
  Capacity = 3
  Window = 4
  Second = 1
  MaxTracked = 2
  Passes = 2
  MaxTime = 8
  MaxAdmitted = 12
PROPERTIES
  RefusedOnlyOverCapacity
