\* Four calls, two failures to trip; no symmetry, for the liveness property.
CONSTANTS
  Callers = {c1, c2, c3, c4}
  Threshold = 2
SPECIFICATION FairSpec
INVARIANTS
  BudgetMatchesState
PROPERTY
  NeverRejectsForever
