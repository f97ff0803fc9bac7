------------------------------- MODULE MCNode -------------------------------
(* Instances of Node for TLC: one IPv6 net of 2 host bits, two keys.       *)
EXTENDS NodeClaims, TLC

OneNet == <<2>>
NoBroadcast == {}

Sub(n, p, m) == [prefix |-> [net |-> n, path |-> p], may |-> m]

\* No list (random assignment), a subnet, a subnet with an address in it.
Lists == { <<>>, <<Sub(1, <<1>>, FALSE)>>,
           <<Sub(1, <<1, 0>>, FALSE), Sub(1, <<1>>, FALSE)>> }

Reserves == { Sub(1, <<1, 1>>, FALSE), Sub(1, <<0>>, FALSE) }

\* Addresses, the subnet around one of them, and a shared subnet.
NestedLists == { <<Sub(1, <<1, 0>>, FALSE)>>, <<Sub(1, <<1>>, FALSE)>>,
                 <<Sub(1, <<0, 1>>, FALSE), Sub(1, <<0>>, TRUE)>> }

OneList == { <<Sub(1, <<1>>, FALSE)>> }
OneReserve == { Sub(1, <<0>>, FALSE) }

SharedLists == { <<Sub(1, <<1>>, TRUE)>> }

\* An IPv4 net whose two free hosts run out first, and an IPv6 net: random
\* assignment, a subnet and an address in it, a shared subnet around an address.
TwoNets == <<2, 2>>
FirstBroadcast == {1}
TwoNetLists == { <<>>, <<Sub(2, <<1, 0>>, FALSE)>>, <<Sub(2, <<1>>, FALSE)>>,
                 <<Sub(1, <<0, 1>>, FALSE), Sub(2, <<0>>, TRUE)>> }
TwoNetReserves == { Sub(1, <<0, 1>>, FALSE), Sub(NoNet, <<>>, FALSE), Sub(2, <<1>>, TRUE) }

HandlerSymmetry == Permutations(Handler)

=============================================================================
