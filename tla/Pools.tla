-------------------------------- MODULE Pools --------------------------------
(***************************************************************************)
(* The allocation nets as sets: of each net the prefixes that are taken.   *)
(* This is what package subnets promises its callers; SubnetService shows  *)
(* that the tries keep the promise, and Node builds on it.                 *)
(*                                                                         *)
(* A prefix that lies in a net is [net, path], the net by its position in  *)
(* WG_ALLOC_NETS; the prefixes that lie in none are all [NoNet, <<>>].     *)
(***************************************************************************)
EXTENDS IPPrefix

NoNet == 0

Paths(prefixes, n) == { p.path : p \in { q \in prefixes : q.net = n } }

\* Defect: only an equal prefix is refused.
ReservableUnlessEqual(taken, p) == p.net \in DOMAIN taken /\ p.path \notin taken[p.net]

\* subnets.Service.Reserve succeeds: the prefix lies in a net and is clear.
Reservable(taken, p) == p.net \in DOMAIN taken /\ Clear(taken[p.net], p.path)

Put(taken, prefixes) == [n \in DOMAIN taken |-> taken[n] \cup Paths(prefixes, n)]

\* Defect: nothing is deleted.
DropNothing(taken, prefixes) == taken

Drop(taken, prefixes) == [n \in DOMAIN taken |-> taken[n] \ Paths(prefixes, n)]

\* Defect: an address inside a reserved subnet counts as free.
UntakenPicks(heights, taken) ==
  { pick \in [DOMAIN heights -> UNION { Address(heights[n]) : n \in DOMAIN heights }] :
      \A n \in DOMAIN heights : pick[n] \in Address(heights[n]) \ taken[n] }

\* One free address of each net.
FreePicks(heights, taken) ==
  { pick \in [DOMAIN heights -> UNION { Address(heights[n]) : n \in DOMAIN heights }] :
      \A n \in DOMAIN heights : pick[n] \in Address(heights[n]) /\ Clear(taken[n], pick[n]) }

\* Defect: only the first net's address is put into its tree.
PickedInFirst(pick) == { [net |-> 1, path |-> pick[1]] }

Picked(pick) == { [net |-> n, path |-> pick[n]] : n \in DOMAIN pick }

=============================================================================
