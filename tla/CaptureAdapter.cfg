SPECIFICATION Spec
CONSTANTS
  Sizes = {1, 2}
  MaxFrames = 2
  Scenarios = {{"faults", "describe"}, {"http"}, {"control"}, {"config"}}
  Conns = {c1, c2}
  Readers = {r1, r2}
  MaxQueuedBytes = 4
  MaxQueuedFrames = 2
  MaxSubscribers = 2
  MaxDescribes = 1
  MaxProfiles = 1
INVARIANTS CameraReleased SnapshotsAccounted
PROPERTY AdapterSettles
CHECK_DEADLOCK FALSE
