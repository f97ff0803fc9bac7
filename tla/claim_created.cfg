SPECIFICATION Spec
CONSTANTS
  Handler = {w1}
  Key = {1, 2}
  Heights <- OneNet
  Broadcast <- NoBroadcast
  AddLists <- SharedLists
  ReserveSubs <- Reserves
  Ops = {"add"}
  Faults = {}
  MaxPeerId = 2
  MaxSubnetId = 3
PROPERTY CreatedAnswered
