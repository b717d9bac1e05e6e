SPECIFICATION Spec
CONSTANTS
  Ranks = {0, 1}
  Traces <- MCLastStepEmpty
  Asked = {1, 5, 9}
  Graphs = 1
  None = None
  Sorted <- SortEvents
INVARIANT
  PathsEnd
