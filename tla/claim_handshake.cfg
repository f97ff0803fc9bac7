SPECIFICATION Spec
CONSTANTS
  Key = {1}
  Ops = {"add"}
  Faults = {}
  RollupAfter = 2
  MaxPeerId = 1
  MaxBytes = 2
  MaxClock = 5
INVARIANTS NeverConnectedShowsNone
CHECK_DEADLOCK FALSE
