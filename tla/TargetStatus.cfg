SPECIFICATION Spec
CONSTANTS
  Times = {1, 2, 3}
  MaxDeps = 3
INVARIANTS
  WorstIsHighest
  DecisionMeansNewest
