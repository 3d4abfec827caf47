SPECIFICATION BindingSpec
CONSTANTS
  Realms = {"r1", "r2"}
  MaxNonce = 2
  MaxServices = 2
  MaxObservations = 2
INVARIANTS CertaintyHonest CallSecured ProjectionHonest
PROPERTY NeverFlips
CHECK_DEADLOCK FALSE
