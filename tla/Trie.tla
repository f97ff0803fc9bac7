-------------------------------- MODULE Trie --------------------------------
(***************************************************************************)
(* The binary trie of nettree/tree.go as a value.                          *)
(*                                                                         *)
(* A node is the path that leads to it, so `nodes' is the pointer          *)
(* structure: left and right of a node are the node with a bit appended,   *)
(* parent is the node without its last bit, and root is <<>>.  Nodes       *)
(* without children are the allocated prefixes.  Counters have the width   *)
(* of the Go type T and wrap.                                              *)
(***************************************************************************)
EXTENDS IPPrefix, FiniteSets, Integers

\* maxPrefBits, the width of T, the nodes and the childrenCnt of each.
NewTrie(height, width) ==
  [height |-> height, width |-> width, nodes |-> {}, cnt |-> <<>>]

IsLeaf(nodes, p) == p \in nodes /\ \A b \in Bit : Append(p, b) \notin nodes

Leaves(t) == { p \in t.nodes : IsLeaf(t.nodes, p) }

\* Defect: a wider integer.
Unbounded(n, bits) == n

Wrap(n, bits) == n % 2^bits

Size(t, p) == 2^(t.height - Len(p))

-----------------------------------------------------------------------------

\* Put walks to p; a leaf on the way, or a node that is there already, stops it.
Blocked(t, p) == p \in t.nodes \/ \E q \in Prefixes(p) : IsLeaf(t.nodes, q)

\* Defect: only the new nodes are counted.
InsertedBelow(t, p) ==
  LET nodes == t.nodes \cup Prefixes(p)
  IN [t EXCEPT !.nodes = nodes,
               !.cnt = [q \in nodes |-> IF q \in t.nodes THEN t.cnt[q] ELSE Size(t, p)]]

\* Put of a prefix that is not blocked.
Inserted(t, p) ==
  LET nodes == t.nodes \cup Prefixes(p)
  IN [t EXCEPT !.nodes = nodes,
               !.cnt = [q \in nodes |->
                          Wrap((IF q \in t.nodes THEN t.cnt[q] ELSE 0)
                               + (IF q \in Prefixes(p) THEN Size(t, p) ELSE 0), t.width)]]

\* Defect: only the leaf is cut.
PrunedLeaf(nodes, p) == nodes \ {p}

\* What is left when the walk from p to the root has cut every node that has
\* no child any more.
Pruned(nodes, p) == { q \in nodes : \E r \in nodes \ Prefixes(p) : IsPrefix(q, r) }

\* Delete of a leaf.
Removed(t, p) ==
  LET nodes == Pruned(t.nodes, p)
  IN [t EXCEPT !.nodes = nodes,
               !.cnt = [q \in nodes |->
                          IF q \in Prefixes(p) THEN Wrap(t.cnt[q] - Size(t, p), t.width)
                                               ELSE t.cnt[q]]]

-----------------------------------------------------------------------------

\* Defect: the addresses in use are not subtracted.
LeftAll(t, q) == 2^(t.height - Len(q) - 1)

\* The free addresses in the left half under q, by the counters.
LeftFree(t, q) ==
  LET left == Append(q, 0)
  IN Wrap(2^(t.height - Len(q) - 1) - (IF left \in t.nodes THEN t.cnt[left] ELSE 0),
          t.width)

\* The n-th address of the subnet q.
Host(t, q, n) ==
  [i \in 1..t.height |->
     IF i <= Len(q) THEN q[i] ELSE (n \div 2^(t.height - i)) % 2]

\* PutNthFree's walk from the root, with n free addresses to skip.  Behind the
\* last bit there is nowhere to go: Put would refuse and the code panic.
NthFree(t, n) ==
  LET Walk[q \in Path(t.height)] ==
        [m \in 0..2^t.height - 1 |->
           CASE q \notin t.nodes -> Host(t, q, m)
             [] q \in t.nodes /\ Len(q) = t.height -> q
             [] q \in t.nodes /\ Len(q) < t.height /\ m < LeftFree(t, q) -> Walk[Append(q, 0)][m]
             [] OTHER -> Walk[Append(q, 1)][Wrap(m - LeftFree(t, q), t.width)]]
  IN Walk[<<>>][n]

\* Size(): a counter of 0 in the root stands for the full tree.
UsedAddrs(t) ==
  IF t.nodes = {} THEN 0
  ELSE IF t.cnt[<<>>] = 0 THEN 2^t.height ELSE t.cnt[<<>>]

\* AllocateRandom's size, computed in an integer of `bits' bits.
FreeAddrs(t, bits) == Wrap(2^t.height - Wrap(UsedAddrs(t), bits), bits)

-----------------------------------------------------------------------------

\* The invariant of tree_test.go's checkInvariant: a leaf counts its addresses,
\* an inner node the sum of its children, both modulo the width of T.
CountersAddUp(t) ==
  \A q \in t.nodes :
    t.cnt[q] =
      IF IsLeaf(t.nodes, q) THEN Wrap(Size(t, q), t.width)
      ELSE LET Of(b) == IF Append(q, b) \in t.nodes THEN t.cnt[Append(q, b)] ELSE 0
           IN Wrap(Of(0) + Of(1), t.width)

=============================================================================
