SPECIFICATION InspectSpec
CONSTANTS
  MaxRequests = 2
  Retransmissions = 2
  MaxReads = 1
  MaxPages = 2
  MaxResources = 2
  Budget = 6
  MaxRounds = 3
  Scenarios = {{"probe", "fails", "fallback", "close"}, {"reads", "liveness", "bye"},
               {"reads", "liveness", "stale"},
               {"reads", "refusals", "close"}, {"reads", "refusals", "list"}}
INVARIANTS ListComplete OutstandingBounded
PROPERTIES RetirementJustified WorkSettles
CHECK_DEADLOCK FALSE
