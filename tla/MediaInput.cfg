SPECIFICATION InputSpec
CONSTANTS
  Requests = {"video", "av", "meta", "talk", "none"}
  Streams = 3
  WireMax = 3
  HeaderMax = 3
  MaxParts = 3
  MaxCameraUnits = 2
  MaxFaults = 1
  MaxControls = 1
  MaxQueue = 1
  MaxWire = 2
INVARIANTS OpenAgreed UnitsWhole
PROPERTY LossReported
CHECK_DEADLOCK FALSE
