SPECIFICATION FairSpec
CONSTANTS
  Handler = {w1}
  Key = {1}
  Heights <- OneNet
  Broadcast <- NoBroadcast
  AddLists <- Lists
  ReserveSubs <- Reserves
  Ops = {"add", "collect"}
  Faults = {}
  MaxPeerId = 1
  MaxSubnetId = 1
PROPERTY RequestsAnswered
CHECK_DEADLOCK FALSE
