SPECIFICATION Spec
CONSTANTS
  Key = {1}
  Ops = {"add", "update"}
  Faults = {}
  RollupAfter = 2
  MaxPeerId = 1
  MaxBytes = 2
  MaxClock = 5
INVARIANTS RecreatedGoesOn
CHECK_DEADLOCK FALSE
