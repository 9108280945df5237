CONSTANTS
  Callers = {c1}
  Threshold = 1
  Slots = {s1}
  Attempts = {a1, a2}
  Kinds = {"fleet", "refresh", "shape"}
  NoOne = NoOne
  MaxCancels = 1
SPECIFICATION PoolSpec
SYMMETRY PoolSymmetry
INVARIANTS
  ClaimHasOwner
  RetirementIsFinal
PROPERTIES
  RetiredStaysDown
  BreakerSpec
CHECK_DEADLOCK FALSE
