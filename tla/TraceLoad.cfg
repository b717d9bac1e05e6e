SPECIFICATION Spec
CONSTANTS
  Ranks = {0, 1}
  Files <- MCFiles
  Sessions <- MCSessions
  IncludeLast = {TRUE, FALSE}
  StepNumber <- MCStepNumber
  SyncNames <- MCSyncNames
  NaN = NaN
INVARIANTS TypeOK RanksLoaded NamesDecode AlignedOnce KernelsFollowLaunches LinksResolve LinkedTogether OneOffset
PROPERTY CallReturns
