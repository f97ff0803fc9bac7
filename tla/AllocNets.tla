------------------------------ MODULE AllocNets ------------------------------
(***************************************************************************)
(* netip prefixes with all their bits, and WG_ALLOC_NETS: the nets that    *)
(* the node allocates from, a sequence of prefixes.                        *)
(*                                                                         *)
(* A prefix is [v, addr, len]: its IP version, the bits of the address     *)
(* before the slash, and the number behind it.                             *)
(***************************************************************************)
EXTENDS IPPrefix, Integers

\* Every prefix, when an address of version v has width[v] bits.
AllPrefixes(width) ==
  UNION { [v : {v}, addr : Address(width[v]), len : 0..width[v]] : v \in DOMAIN width }

Masked(p) == SubSeq(p.addr, 1, p.len)

HasHostBits(p) == \E i \in p.len + 1..Len(p.addr) : p.addr[i] = 1

\* net.Contains(p.Addr()): an address of the other version is in no net.
NetContains(net, p) == net.v = p.v /\ IsPrefix(Masked(net), p.addr)

\* The condition that keeps Put and Delete from answering "out of net".
Within(net, p) == NetContains(net, p) /\ net.len <= p.len

HostBits(net) == Len(net.addr) - net.len

\* The bits a net's tree looks at.
PathIn(net, p) == SubSeq(p.addr, net.len + 1, p.len)

\* The prefix that utils.MakePrefixFromAddr makes of a host of the net.
HostPrefix(net, path) ==
  [v |-> net.v, addr |-> Masked(net) \o path, len |-> Len(net.addr)]

\* parseAllocNets accepts the nets.
ParsedNets(nets) ==
  /\ \A i \in DOMAIN nets : ~HasHostBits(nets[i])
  /\ \A i, j \in DOMAIN nets : i # j => ~NetContains(nets[i], nets[j])

\* NewAddrTree4 and NewAddrTree6 accept the net; a trie of IPv6 hosts counts
\* in `counter' bits (uint64).
TreeFits(net, counter) ==
  HostBits(net) >= 2 /\ (net.v = 6 => HostBits(net) <= counter)

=============================================================================
