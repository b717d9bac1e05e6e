SPECIFICATION Spec
CONSTANTS
  Asked <- MCAsked
  Traces <- MCTraces
  MaxQueueLength = 2
  CopyKinds = {"DtoH", "Memset"}
  Analyses = {"queue", "memory", "aten"}
  Residue = 1
  None = None
INVARIANTS
  TypeOK
  BlockedIsExact
  BandwidthByClock
PROPERTIES
  ImplementsWorkQueue
CHECK_DEADLOCK FALSE
