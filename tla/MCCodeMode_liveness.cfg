\* One worker, no symmetry: what must eventually happen.
CONSTANTS
  Workers = {w1}
  NoOwner = NoOwner
  Inputs = {a}
  NoInput = NoInput
  NoContext = NoContext
  MaxEpoch = 2
  Origins = {"absent", "waiting_for_approval", "waiting_for_resume"}
  CallEffects = {TRUE, FALSE}
  MaxCalls = 1
  MaxArtifacts = 0
SPECIFICATION FairSpec
PROPERTIES
  NeverWorkingForever
  CancellationSettles
CHECK_DEADLOCK FALSE
