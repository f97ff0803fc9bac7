------------------------------ MODULE SubnetPool ------------------------------
(***************************************************************************)
(* What package subnets promises the node across requests and restarts:    *)
(* of each net of WG_ALLOC_NETS a set of disjoint prefixes, which are the  *)
(* exclusive rows of table subnets and the network's own hosts.            *)
(***************************************************************************)
EXTENDS Pools, AllocNets

CONSTANTS Configs, Requests, CounterBits, MaxSubnetId

VARIABLES
  nets,         \* WG_ALLOC_NETS of the last start that succeeded
  up,           \* the process is running
  taken,        \* of each net the prefixes that are not free (down: <<>>)
  rows,         \* table subnets: [id, prefix, may]
  nextSubnet,   \* the next AUTOINCREMENT id
  ret           \* what the last operation answered

vars == <<nets, up, taken, rows, nextSubnet, ret>>

Located(ns, p) ==
  IF \E i \in DOMAIN ns : Within(ns[i], p)
  THEN LET i == CHOOSE j \in DOMAIN ns : Within(ns[j], p)
       IN [net |-> i, path |-> PathIn(ns[i], p)]
  ELSE [net |-> NoNet, path |-> <<>>]

Exclusive == { r.prefix : r \in { s \in rows : ~s.may } }

HeightsOf(ns) == [i \in DOMAIN ns |-> HostBits(ns[i])]

EmptyPool(ns) == [i \in DOMAIN ns |-> NetworkHosts(HostBits(ns[i]), ns[i].v = 4)]

\* The nets can be parsed and have trees, and the exclusive rows find room.
Accepts(ns) ==
  /\ ParsedNets(ns)
  /\ \A i \in DOMAIN ns : TreeFits(ns[i], CounterBits)
  /\ \A p \in Exclusive : Reservable(EmptyPool(ns), Located(ns, p))
  /\ \A p, q \in { Located(ns, e) : e \in Exclusive } :
       p # q /\ p.net = q.net => ~Overlap(p.path, q.path)

Init ==
  /\ nets = <<>> /\ up = FALSE /\ taken = <<>>
  /\ rows = {} /\ nextSubnet = 1 /\ ret = "none"

Start(ns) ==
  /\ ~up
  /\ IF Accepts(ns)
     THEN /\ nets' = ns /\ up' = TRUE /\ ret' = "started"
          /\ taken' = Put(EmptyPool(ns), { Located(ns, p) : p \in Exclusive })
     ELSE ret' = "refused" /\ UNCHANGED <<nets, up, taken>>
  /\ UNCHANGED <<rows, nextSubnet>>

Stop ==
  /\ up
  /\ up' = FALSE /\ taken' = <<>> /\ ret' = "stopped"
  /\ UNCHANGED <<nets, rows, nextSubnet>>

AddRows(prefixes, may) ==
  /\ nextSubnet + Len(prefixes) <= MaxSubnetId + 1
  /\ rows' = rows \cup { [id |-> nextSubnet + i - 1, prefix |-> prefixes[i], may |-> may]
                           : i \in DOMAIN prefixes }
  /\ nextSubnet' = nextSubnet + Len(prefixes)
  /\ ret' = "201"

\* Nothing has happened but an answer.
Refuse(status) == ret' = status /\ UNCHANGED <<taken, rows, nextSubnet>>

Reserve(p, may) ==
  /\ up
  /\ LET at == Located(nets, p)
     IN CASE HasHostBits(p) -> Refuse("400")
          [] ~HasHostBits(p) /\ may ->
               (AddRows(<<p>>, may) /\ UNCHANGED taken) \/ Refuse("500")
          [] ~HasHostBits(p) /\ ~may /\ at.net = NoNet -> Refuse("400")
          [] ~HasHostBits(p) /\ ~may /\ at.net # NoNet /\ ~Reservable(taken, at) -> Refuse("409")
          [] OTHER -> (AddRows(<<p>>, may) /\ taken' = Put(taken, {at})) \/ Refuse("500")
  /\ UNCHANGED <<nets, up>>

\* An address in every net, or none at all.
Assign ==
  /\ up
  /\ \/ \E pick \in FreePicks(HeightsOf(nets), taken) :
          /\ AddRows([i \in DOMAIN nets |-> HostPrefix(nets[i], pick[i])], FALSE)
          /\ taken' = Put(taken, Picked(pick))
     \/ FreePicks(HeightsOf(nets), taken) # {} /\ Refuse("500")
     \/ FreePicks(HeightsOf(nets), taken) = {} /\ Refuse("no free address")
  /\ UNCHANGED <<nets, up>>

Delete(id) ==
  /\ up
  /\ LET found == { r \in rows : r.id = id }
     IN IF found = {} THEN Refuse("404")
        ELSE /\ rows' = rows \ found
             /\ taken' = Drop(taken, { Located(nets, r.prefix) : r \in { s \in found : ~s.may } })
             /\ ret' = "204"
             /\ UNCHANGED nextSubnet
  /\ UNCHANGED <<nets, up>>

Next ==
  \/ \E ns \in Configs : Start(ns)
  \/ Stop
  \/ \E q \in Requests : Reserve(q.prefix, q.may)
  \/ Assign
  \/ \E id \in 1..MaxSubnetId : Delete(id)

Spec == Init /\ [][Next]_vars

=============================================================================
