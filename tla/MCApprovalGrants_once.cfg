CONSTANTS
  Administrators = {p1, p2}
  Callers = {p1}
  Arguments = {a1}
  RequestTTL = 2
  DecisionTTL = 2
  MintTTL = 1
  Retention = 1
  Tasks = {c1, c2}
  NoOne = NoOne
  MaxEach = 2
  MaxRows = 3
  MaxVersion = 2
  MaxChanges = 1
  MaxClock = 2
SPECIFICATION FairSpec
INVARIANTS
  DispatchAuthorized
  GrantUsedOnce
  DecisionBindsGrant
PROPERTIES
  OpenGrantEndsForACause
  ExpiredValuesCleared
CHECK_DEADLOCK FALSE
