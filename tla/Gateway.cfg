SPECIFICATION FairSpec
CONSTANTS
  Ids = {1, 2, 3}
  Probe = 2
  PageSize = 1
  MaxPages = 3
  MaxRestarts = 1
  MaxRetries = 1
  Agreements = {{"revision"}, {"etag", "roundtrip", "revision"}, {"roundtrip", "ttl", "patch"}, {"etag", "ttl", "patch", "roundtrip", "revision"}}
  Flaws = {"unlisted", "unreplaced", "undeleted", "unconditional", "lease", "unrenewed", "stuck"}
  MaxTrouble = 1
  Modes = {{"fixture", "file"}, {"discover", "directory"}}
  MaxRevision = 2
  MaxLaunches = 1
  MaxFaults = 1
INVARIANTS TargetsBelieved NothingAfterClose
PROPERTIES BridgeSettles
CHECK_DEADLOCK FALSE
