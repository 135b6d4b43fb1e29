SPECIFICATION Safety
CONSTANTS
  a = a
  b = b
  c = c
  d4 = d4
  Targets = {a, b, c}
  NoTarget = NoTarget
  Times <- MCTimes
  InitialGraphs <- DuplicateGraphs
  InitialFiles <- NoFiles
  MaxTime = 1
  KernelTime <- OneClock
  MaxParallel = 2
  RecipeEffects = {"touches"}
  MaxCalls = 1
  RetriesAfter = {}
  DiscardsFirst = FALSE
INVARIANTS
  CycleErrorMeansCycle
