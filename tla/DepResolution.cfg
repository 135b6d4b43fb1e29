SPECIFICATION ResolutionSpec
CONSTANTS
  t1 = t1
  t2 = t2
  t3 = t3
  NoTarget = NoTarget
  Projects = {"A", "B"}
  Targets = {t1, t2, t3}
  Descriptions <- MCDescriptions
INVARIANTS
  ResolutionTypeOK
  UnresolvedCounts
  LinksMirrorDeps
  LoadOrderIrrelevant
PROPERTIES
  SuccessMeansComplete
