--------------------------- MODULE MCSubnetService ---------------------------
(* The instance of SubnetService for TLC: 3-bit IPv4, 4-bit IPv6 addresses. *)
EXTENDS SubnetService

SmallWidth == (4 :> 3) @@ (6 :> 4)

V4(bits, n) == [v |-> 4, addr |-> bits, len |-> n]
V6(bits, n) == [v |-> 6, addr |-> bits, len |-> n]

Half4 == V4(<<0, 0, 0>>, 1)
OtherHalf4 == V4(<<1, 0, 0>>, 1)
Whole4 == V4(<<0, 0, 0>>, 0)
Quarter6 == V6(<<0, 0, 0, 0>>, 2)
Half6 == V6(<<0, 0, 0, 0>>, 1)

\* A net of each version; both widened and reordered; a net added in front;
\* half of them; nets that overlap, are too small, too large, have host bits.
Settings ==
  { <<Half4, Quarter6>>, <<Half6, Whole4>>, <<OtherHalf4, Quarter6, Half4>>, <<Half4>>,
    <<Whole4, OtherHalf4>>, <<V4(<<0, 0, 0>>, 2)>>, <<V6(<<0, 0, 0, 0>>, 0)>>,
    <<V4(<<0, 1, 0>>, 1)>> }

Body(p, may) == [prefix |-> p, may |-> may]

\* Half of a net, an address of its other half, the IPv4 hosts that are free in
\* one setting and fixed in another, a prefix larger than a net, shared prefixes,
\* one of them outside every net, and one with host bits.
Bodies ==
  { Body(V4(<<0, 1, 0>>, 2), FALSE), Body(V4(<<0, 0, 1>>, 3), FALSE),
    Body(V4(<<0, 1, 1>>, 3), FALSE), Body(V4(<<0, 0, 0>>, 0), FALSE),
    Body(V6(<<0, 0, 1, 0>>, 3), FALSE), Body(V6(<<0, 1, 0, 0>>, 2), FALSE),
    Body(V4(<<0, 1, 0>>, 2), TRUE), Body(V6(<<1, 1, 0, 0>>, 2), TRUE),
    Body(V4(<<0, 1, 1>>, 2), FALSE) }

=============================================================================
