SPECIFICATION Spec
CONSTANTS
  Width <- SmallWidth
  CounterBits = 3
  Configs <- Settings
  Requests <- Bodies
  MaxSubnetId = 3
INVARIANTS TypeOK WideningAccepts TreesMatchRows
PROPERTY ImplementsPools
