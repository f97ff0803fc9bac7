SPECIFICATION Spec
CONSTANTS
  Handler = {w1, w2}
  Key = {1, 2}
  Heights <- OneNet
  Broadcast <- NoBroadcast
  AddLists <- Lists
  ReserveSubs <- Reserves
  Ops = {"add", "delete", "update", "get", "reserve", "deleteSubnet", "collect"}
  Faults = {"db"}
  MaxPeerId = 2
  MaxSubnetId = 2
SYMMETRY HandlerSymmetry
INVARIANTS TypeOK DbMutex TreeAgrees ExclusiveDisjoint WgMatches RoutesToOwner CacheIds
CHECK_DEADLOCK FALSE
