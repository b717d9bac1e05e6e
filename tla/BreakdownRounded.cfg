SPECIFICATION Spec
CONSTANTS
  Traces <- MCRounded
  Requests = {"temporal", "overlap", "types", "types_with_memory", "idle"}
  Delay = 2
  Points <- MCPoints
  None = None
INVARIANTS
  AssertionsHold
CHECK_DEADLOCK FALSE
