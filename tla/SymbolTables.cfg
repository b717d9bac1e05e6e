SPECIFICATION Spec
CONSTANTS
  Tables = {t1, t2}
  a = a
  b = b
  c = c
  u0 = u0
  u1 = u1
  Symbols = {a, b, c}
  Undefined <- MCUndefined
  Missing = NaN
  Lossy = {c}
  Iterables <- MCIterables
  SymbolLists <- MCSymbolLists
  IdMaps <- MCIdMaps
  MaxProcs = 2
  MpTables = 1
  Raw <- MCRaw
  None = None
INVARIANTS TypeOK Bijective SeriesCurrent FrameDecodes
PROPERTIES IdsStable ImplementsStableCode NothingLost MpReturns
