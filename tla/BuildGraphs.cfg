SPECIFICATION Spec
CONSTANTS
  a = a
  b = b
  c = c
  d4 = d4
  Targets = {a, b, c}
  NoTarget = NoTarget
  Times <- MCTimes
  InitialGraphs <- LoopGraphs
  InitialFiles <- NoFiles
  MaxTime = 1
  KernelTime <- OneClock
  MaxParallel = 2
  RecipeEffects = {"touches", "nothing", "throws"}
  MaxCalls = 2
  RetriesAfter = {"ok", "cycle", "idle", "failed"}
  DiscardsFirst = TRUE
INVARIANTS
  TypeOK
  DepsBuiltFirst
  CountersAgree
  NothingReadyWaits
  EndsRight
  NothingUnneeded
  OneRequestAtATime
  OncePerTarget
PROPERTIES
  CallReturns
