SPECIFICATION Spec
CONSTANTS
  Height = 3
  CountBits = 3
  SizeBits = 3
  Fixed <- Hosts6
INVARIANTS TypeOK CountsAddUp RootZeroMeansFull
PROPERTY ImplementsPool
