SPECIFICATION Spec
CONSTANTS
  Worker = {w1, w2}
  Endpoints = {"listPeers", "reservedSubnets", "peerStat", "peersStat", "peerSubnets", "getPeer", "addPeer", "deletePeer", "updatePeer", "reserveSubnet", "deleteSubnet"}
INVARIANTS TypeOK OneSnapshot LocksBalanced OnlyLockCycle
PROPERTY CallsEndOrLockCycle
CHECK_DEADLOCK FALSE
