SPECIFICATION Spec
CONSTANTS
  Ranks = {0, 1}
  Traces <- MCTraces
  Asked = {1, 5, 9}
  Graphs = 2
  None = None
  Sorted <- SortEvents
INVARIANTS
  TypeOK
  ParentsAgree
  PathsEnd
  ParentsByTime
  DepthsByTime
  KernelsByTime
  AnswersHoldThePath
  Constructs
