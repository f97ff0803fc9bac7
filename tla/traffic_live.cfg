SPECIFICATION FairSpec
CONSTANTS
  Key = {1, 2}
  Ops = {"add", "rollup"}
  Faults = {}
  RollupAfter = 2
  MaxPeerId = 2
  MaxBytes = 2
  MaxClock = 6
PROPERTIES BookedInTheEnd
CHECK_DEADLOCK FALSE
