SPECIFICATION DriverSafety
CONSTANTS
  a = a
  b = b
  c = c
  d4 = d4
  Targets = {a, b, c, d4}
  NoTarget = NoTarget
  Times <- MCTimes
  InitialGraphs = {}
  InitialFiles <- NoFiles
  MaxTime = 1
  KernelTime <- OneClock
  MaxParallel = 2
  RecipeEffects = {"touches"}
  MaxCalls = 1
  RetriesAfter = {}
  DiscardsFirst = FALSE
  Projects = {"A", "B"}
  Descriptions = {}
  NoProject = NoProject
  Worlds <- LinkWorlds
  Inputs <- LinkInputs
  MaxRuns = 1
  MaxEdits = 0
  MayBreak = FALSE
  MayBeKilled = FALSE
  MayList = FALSE
INVARIANTS
  DepsBuiltFirst
CHECK_DEADLOCK FALSE
