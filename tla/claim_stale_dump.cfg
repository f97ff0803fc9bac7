SPECIFICATION Spec
CONSTANTS
  Key = {1}
  Ops = {"add", "delete"}
  Faults = {}
  RollupAfter = 2
  MaxPeerId = 2
  MaxBytes = 2
  MaxClock = 5
INVARIANTS NeverOverbilled
CHECK_DEADLOCK FALSE
