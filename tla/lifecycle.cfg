SPECIFICATION Spec
CONSTANTS
  RowIds <- MCRowIds
  Locator = Locator
  None = None
  MaxEvents = 4
INVARIANTS
  ServesWithSchema
  AppliedStaysTrue
PROPERTIES
  RowsSurvive
  FinallyServes
CHECK_DEADLOCK FALSE
