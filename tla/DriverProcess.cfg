SPECIFICATION DriverSpec
CONSTANTS
  a = a
  b = b
  c = c
  d4 = d4
  Targets = {a, b, c}
  NoTarget = NoTarget
  Times <- MCTimes
  InitialGraphs = {}
  InitialFiles <- NoFiles
  MaxTime = 1
  KernelTime <- OneClock
  MaxParallel = 2
  RecipeEffects = {"touches", "throws"}
  MaxCalls = 1
  RetriesAfter = {}
  DiscardsFirst = FALSE
  Projects = {"A", "B"}
  Descriptions = {}
  NoProject = NoProject
  Worlds <- TwoWorlds
  Inputs <- TwoInputs
  MaxRuns = 1
  MaxEdits = 0
  MayBreak = TRUE
  MayBeKilled = TRUE
  MayList = TRUE
INVARIANTS
  DriverTypeOK
  LoadVerdict
  CodeStaysLoaded
  OrderedUnlessStale
  OnlyEmptyAliasIsInternal
PROPERTIES
  EveryRunEnds
CHECK_DEADLOCK FALSE
