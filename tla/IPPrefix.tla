------------------------------ MODULE IPPrefix ------------------------------
(***************************************************************************)
(* IP prefixes as the allocation trees see them.                           *)
(*                                                                         *)
(* A tree of package nettree serves one allocation net with Height host    *)
(* bits (uintTree.maxPrefBits).  It looks at a prefix only through the     *)
(* bits between the net's mask and the prefix's own mask, most significant *)
(* first, so a prefix inside a net is the sequence of those bits: <<>> is  *)
(* the whole net, a sequence of Height bits is one address.  Bits behind   *)
(* the prefix's mask never influence a walk and have no counterpart here.  *)
(***************************************************************************)
EXTENDS SequencesExt

Bit == {0, 1}

Address(h) == [1..h -> Bit]

Path(h) == UNION { Address(n) : n \in 0..h }

\* Two prefixes share an address iff one of them contains the other.
Overlap(p, q) == IsPrefix(p, q) \/ IsPrefix(q, p)

Clear(taken, p) == \A q \in taken : ~Overlap(p, q)

\* The hosts every new tree reserves: host 0, and in an IPv4 net also the
\* last address, which is the broadcast address.
NetworkHosts(h, broadcast) ==
  { a \in Address(h) : \/ \A i \in 1..h : a[i] = 0
                       \/ broadcast /\ \A i \in 1..h : a[i] = 1 }

=============================================================================
