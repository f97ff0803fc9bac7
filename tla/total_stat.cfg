SPECIFICATION Spec
CONSTANTS
  StartTx = 1
  StartRx = 0
  MaxBytes = 3
  MaxResets = 2
INVARIANTS TypeOK NeverMore
PROPERTIES NeverDrops NoFalseAlarm
