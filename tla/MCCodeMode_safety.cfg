\* Two workers, two claims, one connector call per attempt.
CONSTANTS
  Workers = {w1, w2}
  NoOwner = NoOwner
  Inputs = {a, b}
  NoInput = NoInput
  NoContext = NoContext
  MaxEpoch = 2
  Origins = {"absent", "waiting_for_approval", "waiting_for_resume"}
  CallEffects = {TRUE, FALSE}
  MaxCalls = 1
  MaxArtifacts = 0
SPECIFICATION Spec
SYMMETRY RunSymmetry
INVARIANTS
  ClaimMatchesStatus
  EffectsJournaled
  ExpiryReportsUnknownEffects
  SettledRunsRecordOutcomes
  CancelledNamesRequester
  NothingStartsAfterCancellation
CHECK_DEADLOCK FALSE
