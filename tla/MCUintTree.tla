----------------------------- MODULE MCUintTree -----------------------------
(* The instance of UintTree for TLC: host 0 of an IPv6 net is fixed.       *)
EXTENDS UintTree

Hosts6 == NetworkHosts(Height, FALSE)
=============================================================================
