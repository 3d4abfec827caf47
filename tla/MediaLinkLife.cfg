SPECIFICATION FairSpec
CONSTANTS
  QueueUnits = 1
  Live = FALSE
  Kinds = {"PAUSE"}
  MaxRequests = 2
  MaxData = 1
  Faults = {"early", "crash", "native", "expire", "local"}
INVARIANTS
  CloseHonest
PROPERTIES
  NeverReopened
  CallsSettle
CHECK_DEADLOCK FALSE
