SPECIFICATION DriverSafety
CONSTANTS
  a = a
  b = b
  c = c
  d4 = d4
  Targets = {a, b}
  NoTarget = NoTarget
  Times <- MCTimes
  InitialGraphs = {}
  InitialFiles <- NoFiles
  MaxTime = 1
  KernelTime <- OneClock
  MaxParallel = 2
  RecipeEffects = {"touches", "throws"}
  MaxCalls = 1
  RetriesAfter = {}
  DiscardsFirst = FALSE
  Projects = {"A"}
  Descriptions = {}
  NoProject = NoProject
  Worlds <- IndependentFiles
  Inputs <- OneInput
  MaxRuns = 1
  MaxEdits = 0
  MayBreak = FALSE
  MayBeKilled = FALSE
  MayList = FALSE
INVARIANTS
  RecipesSeeTheirDeps
CHECK_DEADLOCK FALSE
