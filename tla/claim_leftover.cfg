SPECIFICATION Spec
CONSTANTS
  Key = {1}
  Ops = {"add", "conflict"}
  Faults = {"add"}
  RollupAfter = 2
  MaxPeerId = 1
  MaxBytes = 2
  MaxClock = 5
INVARIANTS OwnBytesOnly
CHECK_DEADLOCK FALSE
