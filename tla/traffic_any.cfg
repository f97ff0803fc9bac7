SPECIFICATION Spec
CONSTANTS
  Key = {1}
  Ops = {"add", "conflict", "delete", "update", "rollup", "crash"}
  Faults = {"wg", "add", "db"}
  RollupAfter = 2
  MaxPeerId = 2
  MaxBytes = 1
  MaxClock = 5
INVARIANTS TypeOK OneRowPerInstant
PROPERTIES RollupKeepsAnswers
CHECK_DEADLOCK FALSE
