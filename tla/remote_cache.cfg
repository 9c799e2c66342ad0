SPECIFICATION Spec
CONSTANTS
  None = None
  h1 = h1  h2 = h2
  Handlers <- MCHandlers
  Locators <- MCLocators
  Bodies <- MCBodies
  Size <- MCSize
  Hash <- MCHash
  MaxEntries = 2
  MaxBytes = 3
  TTL = 2
  MaxFetchBytes = 4
  MaxTime = 3
INVARIANTS
  ServedVerified
  CountersExact
PROPERTIES
  NotServedExpired
  EvictsOldestFirst
