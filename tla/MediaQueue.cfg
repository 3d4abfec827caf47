SPECIFICATION Spec
CONSTANTS
  MaxBytes = 3
  MaxUnits = 2
  MaxSubscribers = 2
  Sizes = {1, 2, 4}
  MaxPublish = 4
  MaxSlots = 3
INVARIANTS ReleasedOnceUnheld Bounded NoReaderStranded SlotsExact
PROPERTIES LedgerSpec RecordedKeepsUnits
CHECK_DEADLOCK FALSE
