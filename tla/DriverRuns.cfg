SPECIFICATION DriverSafety
CONSTANTS
  a = a
  b = b
  c = c
  d4 = d4
  Targets = {a, b, c}
  NoTarget = NoTarget
  Times <- MCTimes
  InitialGraphs = {}
  InitialFiles <- SourceEdited
  MaxTime = 7
  KernelTime <- TicksOfTwo
  MaxParallel = 2
  RecipeEffects = {"touches", "nothing", "throws", "spoils"}
  MaxCalls = 1
  RetriesAfter = {}
  DiscardsFirst = FALSE
  Projects = {"A", "B"}
  Descriptions = {}
  NoProject = NoProject
  Worlds <- RunWorlds
  Inputs <- RunInputs
  MaxRuns = 3
  MaxEdits = 1
  MayBreak = FALSE
  MayBeKilled = TRUE
  MayList = TRUE
INVARIANTS
  SuccessMeansFresh
  NothingBuiltInVain
CHECK_DEADLOCK FALSE
