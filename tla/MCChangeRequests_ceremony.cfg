\* Two requests in flight, two approvers, one or two approvals required, one
\* edit outside the ceremony.
CONSTANTS
  Handlers = {h1, h2}
  Approvers = {a, b}
  Nobody = Nobody
  Quorums = {1, 2}
  Guards = {"none", "recheck", "bound"}
  Secrets = {FALSE, TRUE}
  NoEtag = NoEtag
  MaxEdits = 1
SPECIFICATION Spec
SYMMETRY CeremonySymmetry
INVARIANTS
  EffectAtMostOnce
  EffectIsApproved
  QuorumNeverStalls
  NoStaleWrite
  ExecutedKeepsSecret
  SecretDeliveredOnce
PROPERTY
  CountedWhileOpen
