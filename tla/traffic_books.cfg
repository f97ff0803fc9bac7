SPECIFICATION Spec
CONSTANTS
  Key = {1}
  Ops = {"add", "conflict", "update", "rollup", "crash"}
  Faults = {"wg", "add", "clock"}
  RollupAfter = 1
  MaxPeerId = 1
  MaxBytes = 2
  MaxClock = 4
INVARIANTS NeverOverbilled NeverNegative HandshakeShown
CHECK_DEADLOCK FALSE
