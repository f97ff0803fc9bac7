SPECIFICATION Spec
CONSTANTS
  Handler = {w1}
  Key = {1, 2}
  Heights <- OneNet
  Broadcast <- NoBroadcast
  AddLists <- NestedLists
  ReserveSubs <- Reserves
  Ops = {"add", "deleteSubnet"}
  Faults = {}
  MaxPeerId = 2
  MaxSubnetId = 3
INVARIANT ReachesOwner
