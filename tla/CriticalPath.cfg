SPECIFICATION Spec
CONSTANTS
  Traces <- MCTraces
  Asked <- MCAsked
  Options <- MCOptions
  Threshold = 2
  Annotation = "step"
  DataLoadEvents = {"load"}
  None = None
INVARIANTS
  TypeOK
  SelfTime
  SyncsWait
  PathFitsWindow
PROPERTIES
  EdgesStay
CHECK_DEADLOCK FALSE
