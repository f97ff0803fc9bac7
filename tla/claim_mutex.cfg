SPECIFICATION Spec
CONSTANTS
  Handler = {w1}
  Key = {1, 2}
  Heights <- OneNet
  Broadcast <- NoBroadcast
  AddLists <- Lists
  ReserveSubs <- Reserves
  Ops = {"add"}
  Faults = {"commit"}
  MaxPeerId = 2
  MaxSubnetId = 3
INVARIANT DbMutex
