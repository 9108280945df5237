CONSTANTS
  Replicas = {r1, r2}
  Stoppable = {r1}
  Workers = {w1, w2}
  Ids = {i1, i2, i3}
  NoOne = NoOne
  Resumable = TRUE
  Batch = 2
  MaxStarts = 2
  MaxFaults = 1
SPECIFICATION FairSpec
INVARIANTS
  OneRunPerKey
  DrainRecordsHeldRuns
PROPERTIES
  AbandonedSettles
CHECK_DEADLOCK FALSE
