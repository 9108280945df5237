CONSTANTS
  Callers = {c1}
  Threshold = 1
  Slots = {s1, s2}
  Attempts = {a1}
  Kinds = {"shape"}
  NoOne = NoOne
  MaxCancels = 1
SPECIFICATION PoolFairSpec
PROPERTIES
  OpenIsRedialed
CHECK_DEADLOCK FALSE
