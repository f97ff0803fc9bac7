------------------------------ MODULE AddrPool ------------------------------
(***************************************************************************)
(* What package nettree promises its callers: a set of disjoint prefixes   *)
(* of one net.  The package's own random test states it with dumbUintTree, *)
(* a list of ranges and one flag for each address.                         *)
(***************************************************************************)
EXTENDS IPPrefix, FiniteSets, Integers

CONSTANTS
  Height,   \* host bits of the net
  Fixed     \* the prefixes a new tree reserves, never to be deleted

VARIABLES
  taken,    \* the prefixes in the pool
  ret       \* what the last call returned

Answer(a) == [answer |-> a, addr |-> <<>>]

vars == <<taken, ret>>

Free == { a \in Address(Height) : Clear(taken, a) }

\* The order of addresses as numbers.
Below(a, b) ==
  \E i \in 1..Height : a[i] < b[i] /\ \A j \in 1..i - 1 : a[j] = b[j]

Rank(a) == Cardinality({ b \in Free : Below(b, a) })

Init == taken = Fixed /\ ret = Answer("none")

Put(p) ==
  IF Clear(taken, p)
  THEN taken' = taken \cup {p} /\ ret' = Answer("true")
  ELSE ret' = Answer("false") /\ UNCHANGED taken

Delete(p) ==
  /\ p \notin Fixed
  /\ taken' = taken \ {p}
  /\ ret' = Answer(IF p \in taken THEN "true" ELSE "false")

Overlaps(p) ==
  ret' = Answer(IF Clear(taken, p) THEN "false" ELSE "true") /\ UNCHANGED taken

PutNthFree(n) ==
  \E a \in Free : Rank(a) = n /\ taken' = taken \cup {a} /\ ret' = [answer |-> "addr", addr |-> a]

AllocateRandom ==
  \/ \E n \in 0..Cardinality(Free) - 1 : PutNthFree(n)
  \/ Free = {} /\ ret' = Answer("ErrNoFreeAddr") /\ UNCHANGED taken

Next ==
  \/ \E p \in Path(Height) : Put(p) \/ Delete(p) \/ Overlaps(p)
  \/ AllocateRandom

Spec == Init /\ [][Next]_vars

=============================================================================
