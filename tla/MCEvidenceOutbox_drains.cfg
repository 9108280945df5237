\* Three replicas, one of them without the sink's exporter; a settled row stays.
CONSTANTS
  Drains = {d1, d2, d3}
  Registered = {d1, d2}
  MAX_ATTEMPTS = 3
  MaxFaults = 2
SPECIFICATION FairSpec
INVARIANTS
  DeliveredWasReceived
  GivesUpWithCause
  OverrunBounded
PROPERTIES
  SettledStays
  EventuallySettled
CHECK_DEADLOCK FALSE
