--------------------------- MODULE UintTreeProofs ---------------------------
(***************************************************************************)
(* Proofs about UintTree: with any number of host bits, counters of any    *)
(* width that is not smaller and any fixed hosts, the counters of the tree *)
(* are those of its leaves, and the tree does what AddrPool does.          *)
(***************************************************************************)
EXTENDS UintTree, TrieProofs

\* The tree is the one its leaves describe, and the fixed hosts stay in it.
TreeInv ==
  /\ Sound(trie) /\ trie.height = Height /\ trie.width = CountBits
  /\ Fixed \subseteq Leaves(trie)

RetInv ==
  ret \in [answer : {"none", "true", "false", "addr", "panic", "ErrNoFreeAddr"},
           addr : Address(Height) \cup {<<>>}]

Inv == TreeInv /\ RetInv

\* The assumptions, in the form the proofs use.
LEMMA Widths ==
  /\ Height \in Nat /\ CountBits \in Nat /\ SizeBits \in Nat
  /\ Height <= CountBits /\ Height <= SizeBits
BY HeightAssumption, WidthAssumption

\* What a call answers is one of the answers.
LEMMA AnswerType ==
  ASSUME NEW a \in {"none", "true", "false", "addr", "panic", "ErrNoFreeAddr"}
  PROVE  /\ Answer(a) \in [answer : {"none", "true", "false", "addr", "panic", "ErrNoFreeAddr"},
                           addr : Address(Height) \cup {<<>>}]
         /\ \A b \in Address(Height) :
              [answer |-> a, addr |-> b] \in
                [answer : {"none", "true", "false", "addr", "panic", "ErrNoFreeAddr"},
                 addr : Address(Height) \cup {<<>>}]
BY DEF Answer

\* The leaves of a new tree are the fixed hosts: NewAddrTree4 and NewAddrTree6.
LEMMA NewTreeIsFixed ==
  ASSUME NEW t, t = FoldSet(LAMBDA a, u : Inserted(u, a), NewTrie(Height, CountBits), Fixed)
  PROVE  Sound(t) /\ t.height = Height /\ t.width = CountBits /\ Leaves(t) = Fixed
<1>1. /\ Height \in Nat /\ CountBits \in Nat /\ Height <= CountBits
      /\ Fixed \in SUBSET Address(Height)
  BY Widths, FixedAssumption
<1>2. t = Planted(Height, CountBits, Fixed)
  BY Zenon DEF Planted
<1>3. /\ Sound(Planted(Height, CountBits, Fixed)) /\ Leaves(Planted(Height, CountBits, Fixed)) = Fixed
      /\ Planted(Height, CountBits, Fixed).height = Height
      /\ Planted(Height, CountBits, Fixed).width = CountBits
  BY <1>1, NewTree, ZenonT(40)
<1> QED BY <1>2, <1>3, Zenon

-----------------------------------------------------------------------------
(* The free addresses of the pool                                          *)

\* The pool's words for prefixes are the trie's.
LEMMA SameWords ==
  /\ \A p, q : Pool!Overlap(p, q) <=> Overlap(p, q)
  /\ \A T, p : Pool!Clear(T, p) <=> Clear(T, p)
  /\ \A h : Pool!Address(h) = Address(h)
  /\ \A h : Pool!Path(h) = Path(h)
BY DEF Pool!Overlap, Overlap, Pool!Clear, Clear, Pool!Address, Address, Pool!Path, Path,
       Pool!IsPrefix, IsPrefix, Pool!Bit, Bit

\* The pool counts as the trie does.
LEMMA PoolCardinality == \A S : Pool!Cardinality(S) = Cardinality(S)
BY Zenon DEF Pool!Cardinality, Cardinality

\* The free addresses are those that no leaf is over.
LEMMA PoolFreeIs ==
  ASSUME Sound(trie), trie.height = Height
  PROVE  Pool!Free = FreeHosts(trie, <<>>)
<1>1. Pool!Free = { a \in Address(Height) : Clear(Leaves(trie), a) }
  BY SameWords DEF Pool!Free
<1> QED BY <1>1, FreeIs

\* A draw is below the number of free addresses; it is below that number also when
\* the number does not fit, because then nothing is drawn.
LEMMA DrawIs ==
  ASSUME TreeInv, NEW n \in 0..FreeAddrs(trie, SizeBits) - 1
  PROVE  /\ NthFree(trie, n) \in Address(Height)
         /\ NthFree(trie, n) \in Pool!Free /\ Pool!Rank(NthFree(trie, n)) = n
         /\ ~Blocked(trie, NthFree(trie, n))
<1> DEFINE a == NthFree(trie, n)
<1>1. Sound(trie) /\ trie.height = Height /\ Height \in Nat /\ SizeBits \in Nat /\ Height <= SizeBits
  BY Widths DEF TreeInv
<1>2. n \in Nat /\ n < Cardinality(FreeHosts(trie, <<>>))
  <2>1. CASE trie.nodes # {} \/ Height < SizeBits
    <3>1. FreeAddrs(trie, SizeBits) = Cardinality(FreeHosts(trie, <<>>))
      BY <1>1, <2>1, FreeAddrsIs
    <3>2. Cardinality(FreeHosts(trie, <<>>)) \in Nat
      BY <1>1, RootIs, FreeCount
    <3> QED BY <3>1, <3>2
  <2>2. CASE trie.nodes = {} /\ Height = SizeBits
    <3>1. UsedAddrs(trie) = 0
      BY <2>2 DEF UsedAddrs
    <3>2. PICK p \in Nat \ {0} : p = 2^SizeBits
      BY <1>1, PowerOfTwo
    <3>3. Wrap(0, SizeBits) = 0 /\ Wrap(p, SizeBits) = 0
      BY <1>1, <3>2, WrapSmall, WrapFull
    <3>4. FreeAddrs(trie, SizeBits) = Wrap(p - 0, SizeBits)
      BY <1>1, <2>2, <3>1, <3>2, <3>3 DEF FreeAddrs
    <3>5. p - 0 = p
      OBVIOUS
    <3> QED BY <3>3, <3>4, <3>5
  <2> QED BY <1>1, <2>1, <2>2
<1>3. /\ a \in FreeHosts(trie, <<>>)
      /\ Cardinality({ b \in FreeHosts(trie, <<>>) : Before(Height, b, a) }) = n
  BY <1>1, <1>2, NthFreeFinds
<1>4. Pool!Free = FreeHosts(trie, <<>>)
  BY <1>1, PoolFreeIs
<1>5. Pool!Rank(a) = n
  <2>1. { b \in Pool!Free : Pool!Below(b, a) } = { b \in FreeHosts(trie, <<>>) : Before(Height, b, a) }
    <3> HIDE DEF a
    <3> QED BY <1>4 DEF Pool!Below, Before
  <2> HIDE DEF a
  <2> QED BY <1>3, <2>1, PoolCardinality DEF Pool!Rank
<1>6. a \in Address(Height) /\ Clear(Leaves(trie), a)
  BY <1>1, <1>3, FreeIs
<1>7. ~Blocked(trie, a)
  BY <1>1, <1>6, PathIs, BlockedIs
<1> QED BY <1>3, <1>4, <1>5, <1>6, <1>7

-----------------------------------------------------------------------------
(* The invariant                                                           *)

\* Putting a prefix that is not blocked.
LEMMA PutIs ==
  ASSUME TreeInv, NEW p \in Path(Height), ~Blocked(trie, p), trie' = Inserted(trie, p)
  PROVE  TreeInv' /\ Leaves(trie') = Leaves(trie) \cup {p} /\ Clear(Leaves(trie), p)
<1>1. Sound(trie) /\ trie.height = Height /\ trie.width = CountBits /\ Fixed \subseteq Leaves(trie)
  BY DEF TreeInv
<1>2. Clear(Leaves(trie), p)
  BY <1>1, BlockedIs
<1>3. /\ Sound(trie') /\ Leaves(trie') = Leaves(trie) \cup {p}
      /\ trie'.height = Height /\ trie'.width = CountBits
  BY <1>1, <1>2, InsertedIs
<1> QED BY <1>1, <1>2, <1>3 DEF TreeInv

\* Deleting a leaf that is not fixed.
LEMMA DeleteIs ==
  ASSUME TreeInv, NEW p \in Leaves(trie), p \notin Fixed, trie' = Removed(trie, p)
  PROVE  TreeInv' /\ Leaves(trie') = Leaves(trie) \ {p}
<1>1. Sound(trie) /\ trie.height = Height /\ trie.width = CountBits /\ Fixed \subseteq Leaves(trie)
  BY DEF TreeInv
<1>2. /\ Sound(trie') /\ Leaves(trie') = Leaves(trie) \ {p}
      /\ trie'.height = Height /\ trie'.width = CountBits
  BY <1>1, RemovedIs
<1> QED BY <1>1, <1>2 DEF TreeInv

\* A new tree is sound.
LEMMA InitInv == Init => Inv
<1> SUFFICES ASSUME Init PROVE Inv
  OBVIOUS
<1>1. TreeInv /\ Leaves(trie) = Fixed
  BY NewTreeIsFixed DEF Init, TreeInv
<1>2. RetInv
  BY AnswerType DEF Init, RetInv
<1> QED BY <1>1, <1>2 DEF Inv

\* Each call leaves the tree sound.
LEMMA NextInv == Inv /\ [Next]_vars => Inv'
<1> SUFFICES ASSUME Inv, [Next]_vars PROVE Inv'
  OBVIOUS
<1>1. TreeInv /\ RetInv
  BY DEF Inv
<1>2. ASSUME NEW p \in Path(Height), Put(p) PROVE Inv'
  <2>1. CASE ~Blocked(trie, p) /\ trie' = Inserted(trie, p) /\ ret' = Answer("true")
    BY <1>1, <2>1, PutIs, AnswerType DEF Inv, RetInv
  <2>2. CASE ret' = Answer("false") /\ UNCHANGED trie
    BY <1>1, <2>2, AnswerType DEF Inv, RetInv, TreeInv
  <2> QED BY <1>2, <2>1, <2>2 DEF Put
<1>3. ASSUME NEW p \in Path(Height), Delete(p) PROVE Inv'
  <2>1. CASE p \in Leaves(trie) /\ trie' = Removed(trie, p) /\ ret' = Answer("true")
    BY <1>1, <1>3, <2>1, DeleteIs, AnswerType DEF Inv, RetInv, Delete
  <2>2. CASE ret' = Answer("false") /\ UNCHANGED trie
    BY <1>1, <2>2, AnswerType DEF Inv, RetInv, TreeInv
  <2> QED BY <1>3, <2>1, <2>2 DEF Delete
<1>4. ASSUME NEW p \in Path(Height), Overlaps(p) PROVE Inv'
  BY <1>1, <1>4, AnswerType DEF Inv, RetInv, TreeInv, Overlaps
<1>5. ASSUME NEW n \in 0..FreeAddrs(trie, SizeBits) - 1, PutNthFree(n) PROVE Inv'
  <2>1. PICK a : a = NthFree(trie, n)
    OBVIOUS
  <2>2. a \in Address(Height) /\ a \in Path(Height) /\ ~Blocked(trie, a)
    BY <1>1, <2>1, DrawIs, PathIs, Widths
  <2>3. trie' = Inserted(trie, a) /\ ret' = [answer |-> "addr", addr |-> a]
    BY <1>5, <2>1, <2>2 DEF PutNthFree
  <2> QED BY <1>1, <2>2, <2>3, PutIs, AnswerType DEF Inv, RetInv
<1>6. ASSUME ret' = Answer("ErrNoFreeAddr"), UNCHANGED trie PROVE Inv'
  BY <1>1, <1>6, AnswerType DEF Inv, RetInv, TreeInv
<1>7. ASSUME UNCHANGED vars PROVE Inv'
  BY <1>1, <1>7 DEF Inv, RetInv, TreeInv, vars
<1> QED BY <1>2, <1>3, <1>4, <1>5, <1>6, <1>7 DEF Next, AllocateRandom

\* The tree is sound after any calls.
LEMMA SpecInv == Spec => []Inv
BY InitInv, NextInv, PTL DEF Spec

-----------------------------------------------------------------------------
(* Theorems                                                                *)

\* The trie stays inside its net, its counters inside their width, and every call
\* answers.
THEOREM TreeTyped == Spec => []TypeOK
<1>1. Inv => TypeOK
  <2> SUFFICES ASSUME Inv PROVE TypeOK
    OBVIOUS
  <2>1. Sound(trie) /\ trie.height = Height /\ trie.width = CountBits /\ RetInv
    BY DEF Inv, TreeInv
  <2>2. trie.nodes \subseteq Path(Height)
    BY <2>1 DEF Sound, Closed
  <2>3. trie.cnt \in [trie.nodes -> 0..2^CountBits - 1]
    <3>1. ASSUME NEW q \in trie.nodes
          PROVE  Wrap(Cardinality(Used(Height, Leaves(trie), q)), CountBits) \in 0..2^CountBits - 1
      <4>1. Cardinality(Used(Height, Leaves(trie), q)) \in Int
        BY <2>2, UsedCount, Widths
      <4> QED BY <4>1, WrapType, Widths
    <3>2. trie.cnt = [q \in trie.nodes |->
                        Wrap(Cardinality(Used(Height, Leaves(trie), q)), CountBits)]
      BY <2>1 DEF Sound
    <3> QED BY <3>1, <3>2
  <2> QED BY <2>1, <2>2, <2>3 DEF TypeOK, RetInv
<1> QED BY <1>1, SpecInv, PTL

\* The invariant of checkInvariant in tree_test.go holds after any calls: the counters
\* of Put, Delete and the random allocations add up, although they wrap.
THEOREM CountersStayRight == Spec => []CountsAddUp
<1>1. Inv => CountsAddUp
  BY CountersAgree DEF Inv, TreeInv, CountsAddUp
<1> QED BY <1>1, SpecInv, PTL

\* A counter of 0 in the root of a tree that has one means a full tree, and only a full
\* tree has the size of its net: what Size and AllocateRandom rely on.
THEOREM RootTells == Spec => []RootZeroMeansFull
<1> DEFINE full == \A a \in Address(Height) : \E p \in Leaves(trie) : IsPrefix(p, a)
<1>1. Inv => RootZeroMeansFull
  <2> SUFFICES ASSUME Inv PROVE RootZeroMeansFull
    OBVIOUS
  <2>1. /\ Sound(trie) /\ trie.height = Height /\ Height \in Nat
        /\ Leaves(trie) \subseteq Path(Height)
    BY Widths DEF Inv, TreeInv, Sound, Closed, Leaves
  <2>2. <<>> \in Path(Height) /\ Height - Len(<<>>) = Height /\ Hosts(Height, <<>>) = Address(Height)
    BY <2>1, RootIs
  <2>3. full <=> Used(Height, Leaves(trie), <<>>) = Hosts(Height, <<>>)
    <3>1. \A p \in Leaves(trie), a \in Address(Height) : IsPrefix(p, a) <=> Over(p, a)
      BY <2>1, PathIs, PrefixIs
    <3> QED BY <2>2, <3>1 DEF Used
  <2>4. UsedAddrs(trie) = 2^Height <=> full
    <3>1. UsedAddrs(trie) = Cardinality(Used(Height, Leaves(trie), <<>>))
      BY <2>1, UsedAddrsIs
    <3>2. Cardinality(Used(Height, Leaves(trie), <<>>)) = 2^Height <=>
            Used(Height, Leaves(trie), <<>>) = Hosts(Height, <<>>)
      BY <2>1, <2>2, UsedCount
    <3> QED BY <2>3, <3>1, <3>2
  <2>5. trie.nodes # {} /\ trie.cnt[<<>>] = 0 => full
    BY <2>1, <2>4, UsedAddrsIs
  <2> HIDE DEF full
  <2> QED
    <3> USE DEF full
    <3> QED BY <2>4, <2>5 DEF RootZeroMeansFull
<1> QED BY <1>1, SpecInv, PTL

\* Every call on the tree is one on the set of prefixes, with the same answer.
LEMMA StepIsPoolStep ==
  ASSUME Fixed # {} \/ Height < SizeBits, Inv, [Next]_vars
  PROVE  [Pool!Next]_(Pool!vars)
<1>1. /\ TreeInv /\ Sound(trie) /\ trie.height = Height /\ Height \in Nat
      /\ Fixed \subseteq Leaves(trie) /\ Leaves(trie) \subseteq trie.nodes
  BY Widths DEF Inv, TreeInv, Leaves
<1>2. \A p \in Path(Height) : Blocked(trie, p) <=> ~Clear(Leaves(trie), p)
  BY <1>1, BlockedIs
<1>3. \A a : Pool!Answer(a) = Answer(a)
  BY DEF Pool!Answer, Answer
<1>4. UNCHANGED trie => UNCHANGED Leaves(trie)
  OBVIOUS
<1>5. ASSUME NEW p \in Path(Height), Put(p) PROVE Pool!Put(p)
  <2>1. CASE ~Blocked(trie, p) /\ trie' = Inserted(trie, p) /\ ret' = Answer("true")
    <3>1. Leaves(trie)' = Leaves(trie) \cup {p} /\ Clear(Leaves(trie), p)
      BY <1>1, <2>1, PutIs
    <3> QED BY <1>3, <2>1, <3>1, SameWords DEF Pool!Put
  <2>2. CASE Blocked(trie, p) /\ ret' = Answer("false") /\ UNCHANGED trie
    BY <1>2, <1>3, <1>4, <2>2, SameWords DEF Pool!Put
  <2> QED BY <1>5, <2>1, <2>2 DEF Put
<1>6. ASSUME NEW p \in Path(Height), Delete(p) PROVE Pool!Delete(p)
  <2>1. p \notin Fixed
    BY <1>6 DEF Delete
  <2>2. CASE p \in Leaves(trie) /\ trie' = Removed(trie, p) /\ ret' = Answer("true")
    <3>1. Leaves(trie)' = Leaves(trie) \ {p}
      BY <1>1, <2>1, <2>2, DeleteIs
    <3> QED BY <1>3, <2>1, <2>2, <3>1 DEF Pool!Delete
  <2>3. CASE p \notin Leaves(trie) /\ ret' = Answer("false") /\ UNCHANGED trie
    <3>1. Leaves(trie)' = Leaves(trie) \ {p}
      BY <1>4, <2>3
    <3> QED BY <1>3, <2>1, <2>3, <3>1 DEF Pool!Delete
  <2> QED BY <1>6, <2>2, <2>3 DEF Delete
<1>7. ASSUME NEW p \in Path(Height), Overlaps(p) PROVE Pool!Overlaps(p)
  BY <1>2, <1>3, <1>4, <1>7, SameWords DEF Overlaps, Pool!Overlaps
<1>8. FreeAddrs(trie, SizeBits) = Cardinality(Pool!Free) /\ IsFiniteSet(Pool!Free)
  <2>1. trie.nodes # {} \/ Height < SizeBits
    BY <1>1
  <2>2. FreeAddrs(trie, SizeBits) = Cardinality(FreeHosts(trie, <<>>))
    BY <1>1, <2>1, FreeAddrsIs, Widths
  <2>3. IsFiniteSet(FreeHosts(trie, <<>>))
    BY <1>1, RootIs, FreeCount
  <2> QED BY <1>1, <2>2, <2>3, PoolFreeIs
<1>9. ASSUME NEW n \in 0..FreeAddrs(trie, SizeBits) - 1, PutNthFree(n) PROVE Pool!AllocateRandom
  <2>1. PICK a : a = NthFree(trie, n)
    OBVIOUS
  <2>2. /\ a \in Address(Height) /\ a \in Path(Height) /\ ~Blocked(trie, a)
        /\ a \in Pool!Free /\ Pool!Rank(a) = n
    BY <1>1, <2>1, DrawIs, PathIs
  <2>3. trie' = Inserted(trie, a) /\ ret' = [answer |-> "addr", addr |-> a]
    BY <1>9, <2>1, <2>2 DEF PutNthFree
  <2>4. Leaves(trie)' = Leaves(trie) \cup {a}
    BY <1>1, <2>2, <2>3, PutIs
  <2>5. Pool!PutNthFree(n)
    BY <2>2, <2>3, <2>4 DEF Pool!PutNthFree
  <2>6. n \in 0..Pool!Cardinality(Pool!Free) - 1
    BY <1>8, PoolCardinality
  <2> QED BY <2>5, <2>6 DEF Pool!AllocateRandom
<1>10. ASSUME FreeAddrs(trie, SizeBits) = 0, ret' = Answer("ErrNoFreeAddr"), UNCHANGED trie
       PROVE  Pool!AllocateRandom
  <2>1. Pool!Free = {}
    BY <1>8, <1>10, FS_EmptySet
  <2> QED BY <1>3, <1>4, <1>10, <2>1 DEF Pool!AllocateRandom
<1>11. ASSUME UNCHANGED vars PROVE UNCHANGED Pool!vars
  BY <1>11 DEF vars, Pool!vars
<1> QED
  BY <1>5, <1>6, <1>7, <1>9, <1>10, <1>11, SameWords DEF Next, AllocateRandom, Pool!Next

\* The trie is the set of disjoint prefixes that the package's random test compares it
\* with: Put, Delete and Overlaps answer alike, AllocateRandom draws each free address
\* for one number, never panics and fails only when no address is free.  An empty tree
\* whose size needs SizeBits + 1 bits is excluded; the trees of nettree/ip.go hold host 0.
THEOREM TreeIsPool ==
  ASSUME Fixed # {} \/ Height < SizeBits
  PROVE  Spec => ImplementsPool
<1>1. Init => Pool!Init
  <2> SUFFICES ASSUME Init PROVE Pool!Init
    OBVIOUS
  <2>1. Leaves(trie) = Fixed
    BY NewTreeIsFixed DEF Init
  <2> QED BY <2>1 DEF Init, Pool!Init, Answer, Pool!Answer
<1>2. Inv /\ [Next]_vars => [Pool!Next]_(Pool!vars)
  BY StepIsPoolStep
<1> QED BY <1>1, <1>2, SpecInv, PTL DEF Spec, ImplementsPool, Pool!Spec
=============================================================================
