\* Both refinements, and workers that race to resume a row over three claims;
\* artifacts in place of connector calls.
CONSTANTS
  Workers = {w1, w2}
  NoOwner = NoOwner
  Inputs = {a, b}
  NoInput = NoInput
  NoContext = NoContext
  MaxEpoch = 3
  Origins = {"absent", "waiting_for_approval", "waiting_for_resume"}
  CallEffects = {TRUE, FALSE}
  MaxCalls = 0
  MaxArtifacts = 1
SPECIFICATION Spec
SYMMETRY RunSymmetry
INVARIANTS
  JournalFenced
  ReplayInputStable
PROPERTIES
  JournalSpec
  ImplementsLifecycle
CHECK_DEADLOCK FALSE
