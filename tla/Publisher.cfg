SPECIFICATION Spec
CONSTANTS
  Contracts = {{"etag"}, {}, {"etag", "ttl", "patch"}}
  TtlSeconds = 1
  FreshFor = 1
  GraceFor = 1
  RenewBefore = 2
  Second = 2
  Faults = {"net", "late", "disk"}
  MaxClock = 3
  MaxRounds = 3
  MaxCrashes = 1
  MaxForeign = 1
INVARIANTS OwnershipRecognised EntriesEnd
PROPERTIES ForeignUntouched
CHECK_DEADLOCK FALSE
