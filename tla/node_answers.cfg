SPECIFICATION FairSpec
CONSTANTS
  Handler = {w1, w2}
  Key = {1}
  Heights <- OneNet
  Broadcast <- NoBroadcast
  AddLists <- OneList
  ReserveSubs <- OneReserve
  Ops = {"add", "delete", "update", "get", "reserve", "deleteSubnet"}
  Faults = {"db", "wg", "port", "dropRow"}
  MaxPeerId = 1
  MaxSubnetId = 1
PROPERTY RequestsAnswered
