SPECIFICATION Spec
CONSTANTS
  QueueUnits = 1
  Live = FALSE
  Kinds = {"PAUSE", "SEEK"}
  MaxRequests = 3
  MaxData = 2
  Faults = {"abort", "early"}
INVARIANTS
  NoProtocolFailure
  CreditConserved
  GenerationsSeparate
CHECK_DEADLOCK FALSE
