\* A worker lost during a side effect, and what its row reports.
CONSTANTS
  Workers = {w1}
  NoOwner = NoOwner
  Inputs = {a}
  NoInput = NoInput
  NoContext = NoContext
  MaxEpoch = 1
  Origins = {"absent", "waiting_for_approval", "waiting_for_resume"}
  CallEffects = {TRUE, FALSE}
  MaxCalls = 1
  MaxArtifacts = 0
SPECIFICATION Spec
INVARIANTS
  InterruptedEffectsReported
CHECK_DEADLOCK FALSE
