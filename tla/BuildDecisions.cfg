SPECIFICATION Safety
CONSTANTS
  a = a
  b = b
  c = c
  d4 = d4
  Targets = {a, b, c}
  NoTarget = NoTarget
  Times <- MCTimes
  InitialGraphs <- KindGraphs
  InitialFiles <- AnyFiles
  MaxTime = 2
  KernelTime <- OneClock
  MaxParallel = 2
  RecipeEffects = {"touches", "throws"}
  MaxCalls = 1
  RetriesAfter = {}
  DiscardsFirst = FALSE
INVARIANTS
  InternalErrorsExplained
PROPERTIES
  DecisionIsRight
