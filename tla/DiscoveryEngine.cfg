SPECIFICATION Spec
CONSTANTS
  Sids = {1, 2}
  MaxSequenceIds = 2
  MaxConcurrent = 2
  MaxQueued = 1
  Scenarios = {{"seed", "conflict", "bytes"}, {"seed", "parallel"}, {"seed", "change"}, {"parallel", "change"},
               {"sequences", "change"}, {"unsequenced", "change"}, {"unsequenced", "restart"},
               {"restart", "change", "lost", "conflict"},
               {"close", "restart", "change", "disk", "open", "bytes", "denied"}, {"datagrams"}}
  MaxChanges = 2
  PerPoint = 1
  MaxCrashes = 1
  MaxRestarts = 1
  MaxMessages = 1
INVARIANTS InspectionsSound Durable
PROPERTY NothingForgotten
CHECK_DEADLOCK FALSE
