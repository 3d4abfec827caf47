SPECIFICATION FairSpec
CONSTANTS
  Plain = {"p1", "p2"}
  Events = {"e1", "e2"}
  Managed = {"m1", "m2"}
  Media = {"s1", "s2", "s3"}
  MaxManaged = 1
  MaxEvents = 1
  MaxMedia = 2
INVARIANT OwnershipReleased
PROPERTIES ClosesSettle
CHECK_DEADLOCK FALSE
