SPECIFICATION Spec
CONSTANTS
  Handler = {w1}
  Key = {1, 2}
  Heights <- TwoNets
  Broadcast <- FirstBroadcast
  AddLists <- TwoNetLists
  ReserveSubs <- TwoNetReserves
  Ops = {"add", "delete", "update", "reserve"}
  Faults = {"db"}
  MaxPeerId = 3
  MaxSubnetId = 4
INVARIANTS ReachesOwner TreeAgrees ExclusiveDisjoint
