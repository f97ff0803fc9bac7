---------------------------- MODULE SubnetService ----------------------------
(***************************************************************************)
(* Package subnets on the tries: the service a start builds from           *)
(* WG_ALLOC_NETS and the rows of table subnets, and what the handlers do   *)
(* with it under node.db's mutex.  A DELETE statement that fails is left   *)
(* to module Node.                                                         *)
(***************************************************************************)
EXTENDS Trie, AllocNets, FiniteSetsExt

CONSTANTS
  Width,        \* bits of an address of version 4 and 6 (32 and 128)
  CounterBits,  \* width of the IPv6 counters and of AllocateRandom's size (64)
  Configs,      \* values of WG_ALLOC_NETS a start may find
  Requests,     \* bodies of POST /subnets/reserved: [prefix, may]
  MaxSubnetId   \* largest rowid of table subnets (SQLITE_FULL beyond it)

ASSUME WidthAssumption ==
  Width \in [{4, 6} -> Nat \ {0}] /\ CounterBits \in Nat /\ Width[4] <= CounterBits
ASSUME ConfigAssumption == Configs \subseteq Seq(AllPrefixes(Width))
ASSUME RequestAssumption == Requests \subseteq [prefix : AllPrefixes(Width), may : BOOLEAN]
ASSUME BoundAssumption == MaxSubnetId \in Nat \ {0}

VARIABLES
  nets,         \* the nets of netTrees; while down, those of the last start
  up,
  trees,        \* the tries of netTrees (down: <<>>)
  rows,         \* table subnets: [id, prefix, may]
  nextSubnet,
  ret           \* what the last operation answered

vars == <<nets, up, trees, rows, nextSubnet, ret>>

-----------------------------------------------------------------------------
(* nettree.IPTree                                                          *)

\* uint32 or uint64.
UintBits(net) == IF net.v = 4 THEN Len(net.addr) ELSE CounterBits

NewAddrTree(net) ==
  FoldSet(LAMBDA a, t : Inserted(t, a),
          NewTrie(HostBits(net), UintBits(net)),
          NetworkHosts(HostBits(net), net.v = 4))

\* What Put of a prefix of the tree's version returns.
PutError(net, trie, p) ==
  CASE p.v # net.v -> "panic"
    [] p.v = net.v /\ ~Within(net, p) -> "ErrOutOfNet"
    [] p.v = net.v /\ Within(net, p) /\ Blocked(trie, PathIn(net, p)) -> "ErrOverlaps"
    [] OTHER -> "nil"

-----------------------------------------------------------------------------
(* subnets.Service                                                         *)

\* The trees whose answer ends the loop of Reserve.
Tried(ns, ts, p) ==
  { i \in DOMAIN ns : ns[i].v = p.v /\ PutError(ns[i], ts[i], p) # "ErrOutOfNet" }

\* Reserve: the error and the trees it leaves.
Reserve(ns, ts, p) ==
  IF Tried(ns, ts, p) = {} THEN [err |-> "ErrOutOfNet", trees |-> ts]
  ELSE LET i == Min(Tried(ns, ts, p))
           err == PutError(ns[i], ts[i], p)
       IN [err |-> err,
           trees |-> IF err = "nil"
                     THEN [ts EXCEPT ![i] = Inserted(@, PathIn(ns[i], p))]
                     ELSE ts]

Holding(ns, ts, p) ==
  { i \in DOMAIN ns : Within(ns[i], p) /\ PathIn(ns[i], p) \in Leaves(ts[i]) }

\* Defect: only the first tree is asked.
DeleteFirst(ns, ts, p) ==
  [found |-> 1 \in Holding(ns, ts, p),
   trees |-> IF 1 \in Holding(ns, ts, p)
             THEN [ts EXCEPT ![1] = Removed(@, PathIn(ns[1], p))] ELSE ts]

Delete(ns, ts, p) ==
  IF Holding(ns, ts, p) = {} THEN [found |-> FALSE, trees |-> ts]
  ELSE LET i == Min(Holding(ns, ts, p))
       IN [found |-> TRUE, trees |-> [ts EXCEPT ![i] = Removed(@, PathIn(ns[i], p))]]

\* AssignRandomInEachNet with rand.Int's answers n: the addresses in the order
\* of the nets, up to the first tree that has none; if there is one, what was
\* taken is given back.  UintTree shows that an address so found can be put.
Assigned(ns, ts, n) ==
  LET full == { i \in DOMAIN ns : FreeAddrs(ts[i], CounterBits) = 0 }
      last == IF full = {} THEN Len(ns) ELSE Min(full) - 1
      path == [i \in 1..last |-> NthFree(ts[i], n[i])]
      prefixes == [i \in 1..last |-> HostPrefix(ns[i], path[i])]
      put == [i \in DOMAIN ts |-> IF i <= last THEN Inserted(ts[i], path[i]) ELSE ts[i]]
  IN IF full = {} THEN [err |-> "nil", prefixes |-> prefixes, trees |-> put]
     ELSE [err |-> "ErrNoFreeAddr", prefixes |-> <<>>,
           trees |-> [i \in DOMAIN ts |->
                        IF i <= last THEN Removed(put[i], PathIn(ns[i], prefixes[i]))
                                     ELSE put[i]]]

\* The answers rand.Int may give.
Draws(ns, ts) ==
  { n \in [DOMAIN ns -> 0..2^CounterBits - 1] :
      \A i \in DOMAIN ns : n[i] < FreeAddrs(ts[i], CounterBits)
                             \/ (n[i] = 0 /\ FreeAddrs(ts[i], CounterBits) = 0) }

\* Defect: the rows that may overlap are reserved as well.
LoadEveryRow(ns, rs) ==
  FoldSet(LAMBDA r, s : IF s.err = "nil" THEN Reserve(ns, s.trees, r.prefix) ELSE s,
          [err |-> "nil", trees |-> [i \in DOMAIN ns |-> NewAddrTree(ns[i])]], rs)

\* NewService's loop over the rows, in trees that have just been made.
Load(ns, rs) ==
  FoldSet(LAMBDA r, s : IF s.err = "nil" THEN Reserve(ns, s.trees, r.prefix) ELSE s,
          [err |-> "nil", trees |-> [i \in DOMAIN ns |-> NewAddrTree(ns[i])]],
          { r \in rs : ~r.may })

\* main up to the service: log.Fatalf on any error.
Starts(ns) ==
  /\ ParsedNets(ns)
  /\ \A i \in DOMAIN ns : TreeFits(ns[i], CounterBits)
  /\ Load(ns, rows).err = "nil"

-----------------------------------------------------------------------------
(* The node                                                                *)

Init ==
  /\ nets = <<>> /\ up = FALSE /\ trees = <<>>
  /\ rows = {} /\ nextSubnet = 1 /\ ret = "none"

Start(ns) ==
  /\ ~up
  /\ \/ /\ Starts(ns)
        /\ nets' = ns /\ up' = TRUE /\ trees' = Load(ns, rows).trees /\ ret' = "started"
     \/ ~Starts(ns) /\ ret' = "refused" /\ UNCHANGED <<nets, up, trees>>
  /\ UNCHANGED <<rows, nextSubnet>>

Stop ==
  /\ up
  /\ up' = FALSE /\ trees' = <<>> /\ ret' = "stopped"
  /\ UNCHANGED <<nets, rows, nextSubnet>>

Refuse(status) == ret' = status /\ UNCHANGED <<trees, rows, nextSubnet>>

\* AddSubnet of every prefix.
AddRows(prefixes, may) ==
  /\ nextSubnet + Len(prefixes) <= MaxSubnetId + 1
  /\ rows' = rows \cup { [id |-> nextSubnet + i - 1, prefix |-> prefixes[i], may |-> may]
                           : i \in DOMAIN prefixes }
  /\ nextSubnet' = nextSubnet + Len(prefixes)
  /\ ret' = "201"

\* Defect: what has been put into the trees stays there.
RollBackRowsOnly(ts, prefixes) ==
  trees' = ts /\ ret' = "500" /\ UNCHANGED <<rows, nextSubnet>>

\* AddSubnet fails: the rollback deletes what is in the trees.
RollBack(ts, prefixes) ==
  /\ trees' = FoldSet(LAMBDA p, s : Delete(nets, s, p).trees, ts, prefixes)
  /\ ret' = "500"
  /\ UNCHANGED <<rows, nextSubnet>>

ReserveSubnet(p, may) ==
  /\ up
  /\ \/ HasHostBits(p) /\ Refuse("400")
     \/ /\ ~HasHostBits(p) /\ may
        /\ (AddRows(<<p>>, may) /\ UNCHANGED trees) \/ RollBack(trees, {})
     \/ /\ ~HasHostBits(p) /\ ~may
        /\ LET r == Reserve(nets, trees, p)
           IN \/ r.err = "ErrOutOfNet" /\ Refuse("400")
              \/ r.err = "ErrOverlaps" /\ Refuse("409")
              \/ r.err = "panic" /\ Refuse("aborted")
              \/ /\ r.err = "nil"
                 /\ (AddRows(<<p>>, may) /\ trees' = r.trees) \/ RollBack(r.trees, {p})
  /\ UNCHANGED <<nets, up>>

\* apiAddPeer without allowed_addresses.
AssignRandom ==
  /\ up
  /\ \E n \in Draws(nets, trees) :
       LET a == Assigned(nets, trees, n)
           given == { a.prefixes[i] : i \in DOMAIN a.prefixes }
       IN \/ /\ a.err = "nil"
             /\ (AddRows(a.prefixes, FALSE) /\ trees' = a.trees) \/ RollBack(a.trees, given)
          \/ /\ a.err # "nil"
             /\ trees' = a.trees /\ ret' = "no free address" /\ UNCHANGED <<rows, nextSubnet>>
  /\ UNCHANGED <<nets, up>>

\* The handler only warns when the trees do not have the prefix.
DeleteSubnet(id) ==
  /\ up
  /\ \/ (\A r \in rows : r.id # id) /\ Refuse("404")
     \/ \E r \in rows :
          /\ r.id = id
          /\ rows' = rows \ {r}
          /\ LET d == Delete(nets, trees, r.prefix)
             IN IF r.may THEN ret' = "204" /\ UNCHANGED trees
                ELSE trees' = d.trees /\ ret' = IF d.found THEN "204" ELSE "204 warned"
          /\ UNCHANGED nextSubnet
  /\ UNCHANGED <<nets, up>>

Next ==
  \/ \E ns \in Configs : Start(ns)
  \/ Stop
  \/ \E q \in Requests : ReserveSubnet(q.prefix, q.may)
  \/ AssignRandom
  \/ \E id \in 1..MaxSubnetId : DeleteSubnet(id)

Spec == Init /\ [][Next]_vars

-----------------------------------------------------------------------------
(* Properties                                                              *)

Status ==
  {"none", "started", "refused", "stopped", "201", "204", "204 warned", "400", "404",
   "409", "500", "no free address", "aborted"}

TypeOK ==
  /\ nets \in Configs \cup {<<>>} /\ up \in BOOLEAN
  /\ DOMAIN trees = IF up THEN DOMAIN nets ELSE {}
  /\ \A i \in DOMAIN trees : CountersAddUp(trees[i])
  /\ rows \subseteq [id : 1..MaxSubnetId, prefix : AllPrefixes(Width), may : BOOLEAN]
  /\ nextSubnet \in 1..MaxSubnetId + 1
  /\ ret \in Status

\* Every net of ns lies in one net of ms.
Widened(ns, ms) == \A i \in DOMAIN ns : \E j \in DOMAIN ms : Within(ms[j], ns[i])

\* WG_ALLOC_NETS can be reordered, extended and widened between two runs: as long
\* as every former net lies in a net that has a tree, NewService never refuses the
\* rows that former runs have written, whatever may_overlap rows there are and
\* wherever the new nets have their network and broadcast addresses.
WideningAccepts ==
  \A ns \in Configs :
    /\ ParsedNets(ns)
    /\ \A i \in DOMAIN ns : TreeFits(ns[i], CounterBits)
    /\ Widened(nets, ns)
    => Starts(ns)

\* The trees are the table: each holds its network's own hosts and the exclusive rows
\* of its net, nothing that a refused or failed request has tried, nothing that has
\* been deleted, and after a restart with other nets the same rows again.
TreesMatchRows ==
  \A i \in DOMAIN trees :
    Leaves(trees[i]) =
      NetworkHosts(HostBits(nets[i]), nets[i].v = 4)
        \cup { PathIn(nets[i], r.prefix) :
               r \in { q \in rows : ~q.may /\ Within(nets[i], q.prefix) } }

Pool == INSTANCE SubnetPool WITH taken <- [i \in DOMAIN trees |-> Leaves(trees[i])]

\* The service does what the sets do, with the same answers: a prefix is refused
\* for what its own net holds and for nothing else, a failed assignment or insert
\* gives everything back, a start takes the exclusive rows into the trees, and a
\* DELETE finds in the trees what it finds in the table (subnets.go:191).
ImplementsPools == Pool!Spec

=============================================================================
