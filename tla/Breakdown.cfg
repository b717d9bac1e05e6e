SPECIFICATION Spec
CONSTANTS
  Traces <- MCTraces
  Requests = {"temporal", "overlap", "types", "types_with_memory", "idle"}
  Delay = 2
  Points <- MCPoints
  None = None
INVARIANTS
  TypeOK
  MergedExact
  ReportsExact
  IdleIsGaps
CHECK_DEADLOCK FALSE
