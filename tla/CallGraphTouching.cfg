SPECIFICATION Spec
CONSTANTS
  Ranks = {0, 1}
  Traces <- MCTouching
  Asked = {1, 5, 9}
  Graphs = 1
  None = None
  Sorted <- SortEvents
INVARIANT
  ChildrenLieWithin
