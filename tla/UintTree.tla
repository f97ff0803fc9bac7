------------------------------ MODULE UintTree ------------------------------
(***************************************************************************)
(* One allocation tree in use: the operations of nettree/tree.go in any    *)
(* order, and the random allocation of nettree/ip.go on top of them.       *)
(***************************************************************************)
EXTENDS Trie

CONSTANTS
  Height,     \* maxPrefBits
  CountBits,  \* width of T: uint16, uint32 (IPv4) or uint64 (IPv6)
  SizeBits,   \* width of the uint64 in which AllocateRandom subtracts
  Fixed       \* the hosts NewAddrTree4 and NewAddrTree6 put first

ASSUME HeightAssumption == Height \in Nat \ {0}
ASSUME WidthAssumption == CountBits \in Nat /\ SizeBits \in Nat /\ Height <= CountBits
                          /\ CountBits <= SizeBits
ASSUME FixedAssumption == Fixed \subseteq Address(Height)

VARIABLES
  trie,
  ret     \* what the last call returned

Answer(a) == [answer |-> a, addr |-> <<>>]

vars == <<trie, ret>>

Put(p) ==
  \/ ~Blocked(trie, p) /\ trie' = Inserted(trie, p) /\ ret' = Answer("true")
  \/ Blocked(trie, p) /\ ret' = Answer("false") /\ UNCHANGED trie

Delete(p) ==
  /\ p \notin Fixed
  /\ \/ p \in Leaves(trie) /\ trie' = Removed(trie, p) /\ ret' = Answer("true")
     \/ p \notin Leaves(trie) /\ ret' = Answer("false") /\ UNCHANGED trie

\* The walk ends behind the last node there is; it overlaps if it never left
\* the trie or if that last node is a leaf.
Overlaps(p) ==
  /\ ret' = Answer(IF Blocked(trie, p) THEN "true" ELSE "false")
  /\ UNCHANGED trie

PutNthFree(n) ==
  LET a == NthFree(trie, n)
  IN \/ ~Blocked(trie, a) /\ trie' = Inserted(trie, a) /\ ret' = [answer |-> "addr", addr |-> a]
     \/ Blocked(trie, a) /\ ret' = Answer("panic") /\ UNCHANGED trie

AllocateRandom ==
  \/ \E n \in 0..FreeAddrs(trie, SizeBits) - 1 : PutNthFree(n)
  \/ FreeAddrs(trie, SizeBits) = 0 /\ ret' = Answer("ErrNoFreeAddr") /\ UNCHANGED trie

-----------------------------------------------------------------------------

\* NewAddrTree4, NewAddrTree6: the fixed hosts have been put.
Init ==
  /\ trie = FoldSet(LAMBDA a, t : Inserted(t, a), NewTrie(Height, CountBits), Fixed)
  /\ ret = Answer("none")

Next ==
  \/ \E p \in Path(Height) : Put(p) \/ Delete(p) \/ Overlaps(p)
  \/ AllocateRandom

Spec == Init /\ [][Next]_vars

-----------------------------------------------------------------------------
(* Properties                                                              *)

TypeOK ==
  /\ trie.height = Height /\ trie.width = CountBits
  /\ trie.nodes \subseteq Path(Height)
  /\ trie.cnt \in [trie.nodes -> 0..2^CountBits - 1]
  /\ ret \in [answer : {"none", "true", "false", "addr", "panic", "ErrNoFreeAddr"},
              addr : Address(Height) \cup {<<>>}]

\* Whatever has been put, deleted and drawn, the counters add up: what
\* tree_test.go checks after each of its random calls.
CountsAddUp == CountersAddUp(trie)

\* "0 in root always means tree is full" (tree.go:9), and Size, which reads it so,
\* is the number of all addresses only when each of them is taken.
RootZeroMeansFull ==
  LET full == \A a \in Address(Height) : \E p \in Leaves(trie) : IsPrefix(p, a)
  IN /\ trie.nodes # {} /\ trie.cnt[<<>>] = 0 => full
     /\ UsedAddrs(trie) = 2^Height <=> full

Pool == INSTANCE AddrPool WITH taken <- Leaves(trie)

\* The trie does what the list of ranges does, with the same answers; in
\* particular a random allocation never panics and fails only when no address
\* is free.
ImplementsPool == Pool!Spec

=============================================================================
