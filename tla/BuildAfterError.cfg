SPECIFICATION Safety
CONSTANTS
  a = a
  b = b
  c = c
  d4 = d4
  Targets = {a, b, c, d4}
  NoTarget = NoTarget
  Times <- MCTimes
  InitialGraphs <- EmptyAliasGraphs
  InitialFiles <- NoFiles
  MaxTime = 1
  KernelTime <- OneClock
  MaxParallel = 2
  RecipeEffects = {"touches"}
  MaxCalls = 2
  RetriesAfter = {"error"}
  DiscardsFirst = TRUE
INVARIANTS
  DepsBuiltFirst
