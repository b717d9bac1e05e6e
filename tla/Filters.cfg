SPECIFICATION Spec
CONSTANTS
  Files <- MCFiles
  Menu <- MCMenu
  MaxFilters = 3
  StepNumber <- MCStepNumber
  SyncNames <- MCSyncNames
  NaN = NaN
INVARIANTS
  KernelsWithLaunches
  FirstIterationAbsorbed
CHECK_DEADLOCK FALSE
