SPECIFICATION Spec
CONSTANTS
  Handler = {w1}
  Key = {1, 2}
  Heights <- OneNet
  Broadcast <- NoBroadcast
  AddLists <- Lists
  ReserveSubs <- Reserves
  Ops = {"add", "delete", "update", "reserve", "deleteSubnet"}
  Faults = {"db", "listSubnets", "commit", "wg", "port", "crash"}
  MaxPeerId = 3
  MaxSubnetId = 3
INVARIANTS TreeAgrees StartupAccepts TreesDisjoint CacheIds
PROPERTIES StartRestoresRoutes AnswersAreTrue
