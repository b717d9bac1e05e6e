SPECIFICATION Spec
CONSTANTS
  Asked <- MCAsked
  Traces <- MCRounded
  MaxQueueLength = 2
  CopyKinds = {"DtoH", "Memset"}
  Analyses = {"memory"}
  Residue = 0
  None = None
INVARIANTS
  BandwidthNeverNegative
CHECK_DEADLOCK FALSE
