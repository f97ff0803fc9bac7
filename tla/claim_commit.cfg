SPECIFICATION Spec
CONSTANTS
  Handler = {w1, w2}
  Key = {1, 2}
  Heights <- OneNet
  Broadcast <- NoBroadcast
  AddLists <- OneList
  ReserveSubs <- OneReserve
  Ops = {"add", "update", "reserve", "collect"}
  Faults = {"commit"}
  MaxPeerId = 2
  MaxSubnetId = 3
SYMMETRY HandlerSymmetry
INVARIANTS TreeAgrees
CHECK_DEADLOCK FALSE
