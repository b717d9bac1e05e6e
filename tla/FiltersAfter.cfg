SPECIFICATION Spec
CONSTANTS
  Files <- MCFiles
  Menu <- MCMenu
  MaxFilters = 1
  StepNumber <- MCStepNumber
  SyncNames <- MCSyncNames
  NaN = NaN
INVARIANTS
  AfterIsAfter
CHECK_DEADLOCK FALSE
