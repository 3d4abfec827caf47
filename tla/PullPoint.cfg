SPECIFICATION FairSpec
CONSTANTS
  MessageLimit = 2
  MaxQueued = 2
  MaxRestarts = 2
  Synchronize = TRUE
  Renewal = TRUE
  Faults = {"drop", "expire", "lost", "reject", "limit", "clock", "listener"}
  MaxEvents = 3
INVARIANTS CleanupHonest DeliveryHonest
PROPERTIES StopSettles
CHECK_DEADLOCK FALSE
