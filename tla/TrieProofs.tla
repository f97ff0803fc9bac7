----------------------------- MODULE TrieProofs -----------------------------
(***************************************************************************)
(* Proofs about the trie of nettree/tree.go, for nets with any number of   *)
(* host bits and counters of any width that is not smaller.  Inductions    *)
(* are over sets of numbers.                                               *)
(***************************************************************************)
EXTENDS Trie, SequenceTheorems, FunctionTheorems, FiniteSetTheorems, WellFoundedInduction, TLAPS

-----------------------------------------------------------------------------
(* Numbers                                                                 *)

\* Induction, for a set of numbers.
LEMMA NatsAreAll ==
  ASSUME NEW S \in SUBSET Nat, 0 \in S, \A n \in S : n + 1 \in S
  PROVE  \A n \in Nat : n \in S
<1> SUFFICES ASSUME Nat \ S # {} PROVE FALSE
  OBVIOUS
<1>1. PICK n \in Nat \ S : \A m \in Nat \ S : ~(<<m, n>> \in OpToRel(<, Nat))
  BY NatLessThanWellFounded, WFMin
<1>2. n # 0 /\ n - 1 \in Nat
  OBVIOUS
<1>3. n - 1 \in S
  <2>1. <<n - 1, n>> \in OpToRel(<, Nat)
    BY <1>2 DEF OpToRel
  <2> QED BY <1>1, <1>2, <2>1
<1> QED BY <1>2, <1>3

\* The same up to a bound.
LEMMA NatsUpTo ==
  ASSUME NEW h \in Nat, NEW S, 0 \in S, \A n \in 0..h - 1 : n \in S => n + 1 \in S
  PROVE  \A n \in 0..h : n \in S
<1> DEFINE T == { n \in Nat : n <= h => n \in S }
<1>1. 0 \in T /\ \A n \in T : n + 1 \in T
  OBVIOUS
<1>2. \A n \in Nat : n \in T
  <2> HIDE DEF T
  <2> QED BY <1>1, NatsAreAll DEF T
<1> QED BY <1>2

\* A power of two is how many subsets a set of that many elements has.
LEMMA PowerOfTwo ==
  ASSUME NEW n \in Nat
  PROVE  /\ 2^n \in Nat \ {0}
         /\ 2^(n + 1) = 2 * 2^n
<1>1. IsFiniteSet(1..n) /\ Cardinality(1..n) = n
      /\ IsFiniteSet(1..n + 1) /\ Cardinality(1..n + 1) = n + 1
  BY FS_Interval
<1> DEFINE A == SUBSET (1..n)
           B == { s \cup {n + 1} : s \in A }
           f == [s \in A |-> s \cup {n + 1}]
<1>2. IsFiniteSet(A) /\ Cardinality(A) = 2^n /\ Cardinality(SUBSET (1..n + 1)) = 2^(n + 1)
  BY <1>1, FS_SUBSET
<1>3. 2^n \in Nat /\ 2^n # 0
  <2>1. Cardinality(A) \in Nat
    BY <1>2, FS_CardinalityType
  <2>2. Cardinality(A) # 0
    <3>1. {} \in A
      OBVIOUS
    <3> HIDE DEF A
    <3> QED BY <1>2, <3>1, FS_EmptySet
  <2> QED BY <1>2, <2>1, <2>2
<1>4. f \in Bijection(A, B)
  <2>1. \A s, t \in A : f[s] = f[t] => s = t
    <3> SUFFICES ASSUME NEW s \in A, NEW t \in A, s \cup {n + 1} = t \cup {n + 1} PROVE s = t
      OBVIOUS
    <3>1. n + 1 \notin s /\ n + 1 \notin t
      BY SMT
    <3> QED BY <3>1
  <2> QED BY <2>1, Fun_IsBij
<1>5. IsFiniteSet(B) /\ Cardinality(B) = 2^n
  BY <1>2, <1>4, FS_Bijection DEF ExistsBijection
<1>6. A \cap B = {}
  <2>1. \A s \in A : n + 1 \notin s
    BY SMT
  <2> QED BY <2>1
<1>7. A \cup B = SUBSET (1..n + 1)
  <2>1. A \cup B \subseteq SUBSET (1..n + 1)
    <3>1. 1..n \subseteq 1..n + 1 /\ n + 1 \in 1..n + 1
      BY SMT
    <3> QED BY <3>1, Zenon
  <2>2. ASSUME NEW s \in SUBSET (1..n + 1) PROVE s \in A \cup B
    <3>1. s \ {n + 1} \in A
      <4>1. 1..n + 1 \subseteq (1..n) \cup {n + 1}
        BY SMT
      <4> QED BY <4>1
    <3>2. CASE n + 1 \in s
      <4>1. s = (s \ {n + 1}) \cup {n + 1}
        BY <3>2
      <4> QED BY <3>1, <4>1
    <3>3. CASE n + 1 \notin s
      <4>1. s = s \ {n + 1}
        BY <3>3
      <4> QED BY <3>1, <4>1
    <3> QED BY <3>2, <3>3
  <2> QED BY <2>1, <2>2
<1>8. Cardinality(A \cup B) = 2^n + 2^n
  <2>1. Cardinality(A \cap B) = 0
    BY <1>6, FS_EmptySet
  <2>2. Cardinality(A \cup B) = Cardinality(A) + Cardinality(B) - Cardinality(A \cap B)
    <3> HIDE DEF A, B
    <3> QED BY <1>2, <1>5, FS_Union
  <2> QED BY <1>2, <1>3, <1>5, <2>1, <2>2
<1> QED
  <2>1. 2^(n + 1) = 2^n + 2^n
    BY <1>2, <1>7, <1>8
  <2> QED BY <1>3, <2>1

\* There is one host without host bits.
LEMMA PowerZero == 2^0 = 1
OBVIOUS

\* Powers grow, and a larger one is a multiple of a smaller one.
LEMMA PowerMultiple ==
  ASSUME NEW m \in Nat, NEW n \in Nat, m <= n
  PROVE  /\ 2^m <= 2^n
         /\ \E k \in Nat \ {0} : 2^n = k * 2^m
<1> DEFINE S == { d \in Nat : \E k \in Nat \ {0} : 2^(m + d) = k * 2^m }
<1>1. 2^m \in Nat \ {0}
  BY PowerOfTwo
<1>2. 0 \in S
  <2>1. m + 0 = m /\ 2^m = 1 * 2^m
    BY <1>1
  <2> QED BY <2>1
<1>3. ASSUME NEW d \in S PROVE d + 1 \in S
  <2>1. PICK k \in Nat \ {0} : 2^(m + d) = k * 2^m
    OBVIOUS
  <2>2. m + (d + 1) = (m + d) + 1 /\ m + d \in Nat
    OBVIOUS
  <2>3. 2^(m + (d + 1)) = 2 * 2^(m + d)
    BY <2>2, PowerOfTwo
  <2>4. 2 * (k * 2^m) = (2 * k) * 2^m /\ 2 * k \in Nat \ {0}
    <3>1. \A p \in Nat : 2 * (k * p) = (2 * k) * p
      OBVIOUS
    <3> QED BY <1>1, <3>1
  <2>5. 2^(m + (d + 1)) = (2 * k) * 2^m
    BY <2>1, <2>3, <2>4
  <2>6. \E j \in Nat \ {0} : 2^(m + (d + 1)) = j * 2^m
    <3> HIDE DEF S
    <3> QED BY <2>4, <2>5, Zenon
  <2> QED BY <2>6
<1>4. n - m \in S
  <2>1. \A d \in Nat : d \in S
    <3> HIDE DEF S
    <3>1. S \in SUBSET Nat
      BY DEF S
    <3> QED BY <1>2, <1>3, <3>1, NatsAreAll
  <2> QED BY <2>1
<1>5. PICK k \in Nat \ {0} : 2^n = k * 2^m
  <2>1. m + (n - m) = n
    OBVIOUS
  <2> QED BY <1>4, <2>1
<1>6. k * 2^m >= 2^m
  BY <1>1
<1> QED BY <1>5, <1>6

\* Division with remainder.
LEMMA Division ==
  ASSUME NEW a \in Int, NEW m \in Nat \ {0}
  PROVE  /\ a \div m \in Int /\ a % m \in 0..m - 1
         /\ a = (a \div m) * m + (a % m)
<1>1. a \div m \in Int /\ a % m \in 0..m - 1
  OBVIOUS
<1>2. PICK d \in Int, r \in Int : d = a \div m /\ r = a % m
  BY <1>1
<1>3. a = d * m + r
  BY <1>2
<1> QED BY <1>1, <1>2, <1>3

\* What division and remainder give back.
LEMMA DivisionIs ==
  ASSUME NEW m \in Nat \ {0}, NEW d \in Int, NEW r \in 0..m - 1
  PROVE  (d * m + r) \div m = d /\ (d * m + r) % m = r
OBVIOUS

\* A fact about products that the provers do not find by themselves.
LEMMA Distributes == \A j, k, m \in Int : (j + k) * m = j * m + k * m
OBVIOUS

\* A multiple of the modulus counts for nothing.
LEMMA ModuloMultiple ==
  ASSUME NEW m \in Nat \ {0}, NEW k \in Int, NEW a \in Int
  PROVE  (k * m + a) % m = a % m
<1>1. PICK d \in Int, r \in 0..m - 1 : a = d * m + r
  BY Division
<1>2. k * m + a = (k + d) * m + r
  BY <1>1, Distributes
<1> QED BY <1>1, <1>2, DivisionIs

\* A remainder can be taken before adding.
LEMMA ModuloSum ==
  ASSUME NEW m \in Nat \ {0}, NEW a \in Int, NEW b \in Int
  PROVE  ((a % m) + b) % m = (a + b) % m
<1>1. PICK d \in Int, r \in 0..m - 1 : a = d * m + r /\ r = a % m
  BY Division
<1>2. a + b = d * m + (r + b)
  <2>1. PICK p \in Int : p = d * m
    OBVIOUS
  <2> QED BY <1>1, <2>1
<1>3. (d * m + (r + b)) % m = (r + b) % m
  <2>1. r + b \in Int
    OBVIOUS
  <2> QED BY <2>1, ModuloMultiple
<1> QED BY <1>1, <1>2, <1>3

\* What a counter of some width holds.
LEMMA WrapType ==
  ASSUME NEW n \in Int, NEW bits \in Nat
  PROVE  Wrap(n, bits) \in 0..2^bits - 1 /\ Wrap(n, bits) \in Nat
<1>1. PICK m \in Nat \ {0} : m = 2^bits
  BY PowerOfTwo
<1> QED BY <1>1, Division DEF Wrap

\* A number that fits is kept.
LEMMA WrapSmall ==
  ASSUME NEW bits \in Nat, NEW n \in 0..2^bits - 1
  PROVE  Wrap(n, bits) = n
<1>1. PICK m \in Nat \ {0} : m = 2^bits
  BY PowerOfTwo
<1> QED BY <1>1 DEF Wrap

\* The first number that does not fit becomes 0: the counter of a full tree.
LEMMA WrapFull ==
  ASSUME NEW bits \in Nat
  PROVE  Wrap(2^bits, bits) = 0
<1>1. PICK m \in Nat \ {0} : m = 2^bits
  BY PowerOfTwo
<1>2. (1 * m + 0) % m = 0
  BY DivisionIs
<1> QED BY <1>1, <1>2 DEF Wrap

\* Wrapping early makes no difference to a sum or a difference.
LEMMA WrapSum ==
  ASSUME NEW a \in Int, NEW b \in Int, NEW bits \in Nat
  PROVE  /\ Wrap(Wrap(a, bits) + b, bits) = Wrap(a + b, bits)
         /\ Wrap(Wrap(a, bits) - b, bits) = Wrap(a - b, bits)
         /\ Wrap(a + Wrap(b, bits), bits) = Wrap(a + b, bits)
         /\ Wrap(a - Wrap(b, bits), bits) = Wrap(a - b, bits)
<1>1. PICK m \in Nat \ {0} : m = 2^bits
  BY PowerOfTwo
<1>2. ((a % m) + b) % m = (a + b) % m /\ ((a % m) - b) % m = (a - b) % m
  <2>1. -b \in Int /\ a % m \in Int
    BY Division
  <2>2. ((a % m) + (-b)) % m = (a + (-b)) % m
    BY <2>1, ModuloSum
  <2> QED BY <2>1, <2>2, ModuloSum
<1>3. (a + (b % m)) % m = (a + b) % m
  <2>1. ((b % m) + a) % m = (b + a) % m
    BY ModuloSum
  <2>2. PICK r \in Int : r = b % m
    BY Division
  <2>3. r + a = a + r /\ b + a = a + b
    BY <2>2
  <2> QED BY <2>1, <2>2, <2>3
<1>4. (a - (b % m)) % m = (a - b) % m
  <2>1. PICK d \in Int, r \in 0..m - 1 : b = d * m + r /\ r = b % m
    BY Division
  <2>2. a - (b % m) = d * m + (a - b)
    <3>1. PICK p \in Int : p = d * m
      OBVIOUS
    <3> QED BY <2>1, <3>1
  <2>3. a - b \in Int
    OBVIOUS
  <2>4. (d * m + (a - b)) % m = (a - b) % m
    BY <2>3, ModuloMultiple
  <2> QED BY <2>2, <2>4
<1> QED BY <1>1, <1>2, <1>3, <1>4 DEF Wrap

\* The same, for the sums and differences the trie computes.
LEMMA WrapCounts ==
  ASSUME NEW n \in Nat, NEW k \in Nat, NEW bits \in Nat
  PROVE  /\ Wrap(Wrap(n, bits) + k, bits) = Wrap(n + k, bits)
         /\ Wrap(Wrap(n + k, bits) - k, bits) = Wrap(n, bits)
         /\ Wrap(Wrap(n, bits) + Wrap(k, bits), bits) = Wrap(n + k, bits)
<1>1. \A a, b \in Int : /\ Wrap(Wrap(a, bits) + b, bits) = Wrap(a + b, bits)
                        /\ Wrap(Wrap(a, bits) - b, bits) = Wrap(a - b, bits)
                        /\ Wrap(a + Wrap(b, bits), bits) = Wrap(a + b, bits)
  BY WrapSum
<1>2. n \in Int /\ k \in Int /\ n + k \in Int /\ (n + k) - k = n /\ Wrap(k, bits) \in Int
  BY WrapType
<1>3. Wrap(Wrap(n + k, bits) - k, bits) = Wrap((n + k) - k, bits)
  BY <1>1, <1>2, Zenon
<1>4. Wrap(Wrap(n, bits) + k, bits) = Wrap(n + k, bits)
  BY <1>1, <1>2, Zenon
<1>5. Wrap(Wrap(n, bits) + Wrap(k, bits), bits) = Wrap(n + Wrap(k, bits), bits)
  BY <1>1, <1>2, Zenon
<1>6. Wrap(n + Wrap(k, bits), bits) = Wrap(n + k, bits)
  BY <1>1, <1>2, Zenon
<1> QED BY <1>2, <1>3, <1>4, <1>5, <1>6, Zenon
-----------------------------------------------------------------------------
(* Prefixes                                                                *)

\* IsPrefix, bit for bit.
Over(q, p) == Len(q) <= Len(p) /\ \A i \in 1..Len(q) : q[i] = p[i]

\* A path is a sequence of at most h bits.
LEMMA PathIs ==
  ASSUME NEW h \in Nat
  PROVE  /\ \A p \in Path(h) : /\ Len(p) \in 0..h /\ p \in Seq(Bit)
                               /\ p \in [1..Len(p) -> Bit]
                               /\ \A i \in 1..Len(p) : p[i] \in Bit
         /\ \A n \in 0..h : \A p \in [1..n -> Bit] : p \in Path(h) /\ Len(p) = n
         /\ \A a \in Address(h) : a \in Path(h) /\ Len(a) = h
         /\ \A p \in Path(h) : Len(p) = h => p \in Address(h)
<1>1. \A n \in 0..h : \A p \in [1..n -> Bit] : Len(p) = n /\ p \in Seq(Bit)
  OBVIOUS
<1>2. \A p \in Path(h) : \E n \in 0..h : p \in [1..n -> Bit]
  BY DEF Path, Address
<1>3. \A n \in 0..h : \A p \in [1..n -> Bit] : p \in Path(h)
  BY DEF Path, Address
<1>4. ASSUME NEW p \in Path(h)
      PROVE  /\ Len(p) \in 0..h /\ p \in Seq(Bit)
             /\ p \in [1..Len(p) -> Bit]
             /\ \A i \in 1..Len(p) : p[i] \in Bit
             /\ Len(p) = h => p \in Address(h)
  <2>1. PICK n \in 0..h : p \in [1..n -> Bit]
    BY <1>2
  <2>2. Len(p) = n /\ p \in Seq(Bit)
    BY <1>1, <2>1
  <2> QED BY <2>1, <2>2 DEF Address
<1>5. \A a \in Address(h) : a \in Path(h) /\ Len(a) = h
  BY <1>1, <1>3 DEF Address
<1> QED BY <1>1, <1>3, <1>4, <1>5

\* Two paths with the same bits are one.
LEMMA SamePath ==
  ASSUME NEW h \in Nat, NEW p \in Path(h), NEW q \in Path(h), Len(p) = Len(q),
         \A i \in 1..Len(p) : p[i] = q[i]
  PROVE  p = q
<1>1. p \in [1..Len(p) -> Bit] /\ q \in [1..Len(p) -> Bit]
  BY PathIs
<1> QED BY <1>1

\* The first n bits of a path.
LEMMA CutIs ==
  ASSUME NEW h \in Nat, NEW p \in Path(h), NEW n \in 0..Len(p)
  PROVE  /\ SubSeq(p, 1, n) \in Path(h) /\ Len(SubSeq(p, 1, n)) = n
         /\ \A i \in 1..n : SubSeq(p, 1, n)[i] = p[i]
<1>1. Len(p) \in 0..h /\ p \in Seq(Bit) /\ \A i \in 1..Len(p) : p[i] \in Bit
  BY PathIs
<1>2. PICK s : s = SubSeq(p, 1, n)
  OBVIOUS
<1>3. s = [i \in 1..n |-> p[i]]
  BY <1>1, <1>2
<1>4. s \in [1..n -> Bit] /\ n \in 0..h /\ \A i \in 1..n : s[i] = p[i]
  BY <1>1, <1>3
<1> QED BY <1>2, <1>4, PathIs

\* The two ways in which the modules say that a path lies over another.
LEMMA PrefixIs ==
  ASSUME NEW h \in Nat, NEW q \in Path(h), NEW p \in Path(h)
  PROVE  (IsPrefix(q, p) <=> Over(q, p)) /\ (q \in Prefixes(p) <=> Over(q, p))
<1>1. /\ Len(q) \in 0..h /\ Len(p) \in 0..h
      /\ SubSeq(q, 1, Len(q)) \in Path(h) /\ Len(SubSeq(q, 1, Len(q))) = Len(q)
      /\ \A i \in 1..Len(q) : SubSeq(q, 1, Len(q))[i] = q[i]
  <2>1. Len(q) \in 0..h /\ Len(p) \in 0..h /\ Len(q) \in 0..Len(q)
    BY PathIs
  <2> QED BY <2>1, CutIs
<1>2. SubSeq(q, 1, Len(q)) = q
  BY <1>1, SamePath
<1>3. ASSUME Over(q, p) PROVE SubSeq(p, 1, Len(q)) = q /\ Len(q) \in 0..Len(p)
  <2>1. Len(q) \in 0..Len(p)
    BY <1>1, <1>3 DEF Over
  <2>2. /\ SubSeq(p, 1, Len(q)) \in Path(h) /\ Len(SubSeq(p, 1, Len(q))) = Len(q)
        /\ \A i \in 1..Len(q) : SubSeq(p, 1, Len(q))[i] = p[i]
    BY <2>1, CutIs
  <2>3. SubSeq(p, 1, Len(q)) = q
    BY <1>3, <2>2, SamePath DEF Over
  <2> QED BY <2>1, <2>3
<1>4. ASSUME NEW n \in 0..Len(p), q = SubSeq(p, 1, n) PROVE Over(q, p)
  <2>1. Len(q) = n /\ \A i \in 1..n : q[i] = p[i]
    BY <1>4, CutIs
  <2> QED BY <1>1, <2>1 DEF Over
<1>5. IsPrefix(q, p) <=> Over(q, p)
  <2>1. ASSUME IsPrefix(q, p) PROVE Over(q, p)
    <3>1. Len(q) \in 0..Len(p) /\ q = SubSeq(p, 1, Len(q))
      BY <1>1, <1>2, <2>1 DEF IsPrefix
    <3> QED BY <1>4, <3>1
  <2>2. ASSUME Over(q, p) PROVE IsPrefix(q, p)
    BY <1>2, <1>3, <2>2 DEF IsPrefix, Over
  <2> QED BY <2>1, <2>2
<1>6. q \in Prefixes(p) <=> Over(q, p)
  BY <1>3, <1>4 DEF Prefixes
<1> QED BY <1>5, <1>6

\* What Put and Delete walk along: the paths over p.
LEMMA PrefixesArePaths ==
  ASSUME NEW h \in Nat, NEW p \in Path(h)
  PROVE  Prefixes(p) = { q \in Path(h) : Over(q, p) }
<1>1. Prefixes(p) \subseteq Path(h)
  BY CutIs DEF Prefixes
<1> QED BY <1>1, PrefixIs

\* The path to a child.
LEMMA ChildIs ==
  ASSUME NEW h \in Nat, NEW q \in Path(h), Len(q) < h, NEW b \in Bit
  PROVE  /\ Append(q, b) \in Path(h) /\ Len(Append(q, b)) = Len(q) + 1
         /\ Append(q, b)[Len(q) + 1] = b
         /\ \A i \in 1..Len(q) : Append(q, b)[i] = q[i]
         /\ Over(q, Append(q, b))
<1>1. Len(q) \in 0..h /\ q \in Seq(Bit) /\ \A i \in 1..Len(q) : q[i] \in Bit
  BY PathIs
<1>2. /\ Len(Append(q, b)) = Len(q) + 1
      /\ Append(q, b)[Len(q) + 1] = b
      /\ \A i \in 1..Len(q) : Append(q, b)[i] = q[i]
      /\ Append(q, b) \in Seq(Bit)
  BY <1>1
<1>3. PICK s : s = Append(q, b)
  OBVIOUS
<1>4. s \in [1..Len(q) + 1 -> Bit]
  <2>1. s \in [1..Len(s) -> Bit]
    BY <1>2, <1>3, LenProperties
  <2> QED BY <1>2, <1>3, <2>1
<1>5. s \in Path(h) /\ Over(q, s)
  <2>1. Len(q) + 1 \in 0..h
    BY <1>1
  <2>2. s \in Path(h)
    BY <1>4, <2>1, PathIs
  <2> QED BY <1>1, <1>2, <1>3, <2>2 DEF Over
<1> QED BY <1>2, <1>3, <1>5

\* Containment is an order, and the prefixes of a path form a chain.
LEMMA OverOrder ==
  ASSUME NEW h \in Nat, NEW p \in Path(h), NEW q \in Path(h), NEW r \in Path(h)
  PROVE  /\ Over(p, p)
         /\ Over(p, q) /\ Over(q, r) => Over(p, r)
         /\ Over(p, q) /\ Over(q, p) => p = q
         /\ Over(p, q) /\ Len(p) = Len(q) => p = q
         /\ Over(p, r) /\ Over(q, r) => Over(p, q) \/ Over(q, p)
         /\ Over(p, q) /\ p # q => Len(p) < Len(q)
<1>1. Len(p) \in Nat /\ Len(q) \in Nat /\ Len(r) \in Nat
  BY PathIs
<1>2. Over(p, q) /\ Len(p) = Len(q) => p = q
  BY SamePath DEF Over
<1>3. Over(p, q) /\ Over(q, p) => Len(p) = Len(q)
  BY <1>1 DEF Over
<1>4. Over(p, p) /\ (Over(p, q) /\ Over(q, r) => Over(p, r))
  BY <1>1 DEF Over
<1>5. Over(p, r) /\ Over(q, r) => Over(p, q) \/ Over(q, p)
  BY <1>1 DEF Over
<1>6. Over(p, q) => Len(p) <= Len(q)
  BY DEF Over
<1> QED BY <1>1, <1>2, <1>3, <1>4, <1>5, <1>6

\* What lies under a path lies under the child with its next bit.
LEMMA OverChild ==
  ASSUME NEW h \in Nat, NEW q \in Path(h), NEW p \in Path(h), Len(q) < h
  PROVE  /\ Over(q, p) /\ q # p => p[Len(q) + 1] \in Bit /\ Over(Append(q, p[Len(q) + 1]), p)
         /\ \A b \in Bit : Over(Append(q, b), p) => /\ Over(q, p) /\ q # p
                                                    /\ p[Len(q) + 1] = b
         /\ \A b \in Bit : Over(p, Append(q, b)) <=> Over(p, q) \/ p = Append(q, b)
<1>1. /\ Len(q) \in Nat /\ Len(p) \in Nat
      /\ \A i \in 1..Len(p) : p[i] \in Bit
  BY PathIs
<1>2. \A b \in Bit : /\ Append(q, b) \in Path(h) /\ Len(Append(q, b)) = Len(q) + 1
                     /\ Append(q, b)[Len(q) + 1] = b
                     /\ \A i \in 1..Len(q) : Append(q, b)[i] = q[i]
                     /\ Over(q, Append(q, b))
  BY ChildIs
<1>3. ASSUME Over(q, p), q # p
      PROVE  p[Len(q) + 1] \in Bit /\ Over(Append(q, p[Len(q) + 1]), p)
  <2>1. Len(q) < Len(p)
    BY <1>3, OverOrder
  <2>2. PICK b \in Bit : b = p[Len(q) + 1]
    BY <1>1, <2>1
  <2>3. Len(Append(q, b)) <= Len(p)
    BY <1>1, <1>2, <2>1
  <2>4. \A i \in 1..Len(Append(q, b)) : Append(q, b)[i] = p[i]
    BY <1>1, <1>2, <1>3, <2>2 DEF Over
  <2> QED BY <2>2, <2>3, <2>4 DEF Over
<1>4. ASSUME NEW b \in Bit, Over(Append(q, b), p)
      PROVE  Over(q, p) /\ q # p /\ p[Len(q) + 1] = b
  <2>1. Over(q, p)
    BY <1>2, <1>4, OverOrder
  <2>2. Len(p) >= Len(q) + 1 /\ p[Len(q) + 1] = b
    BY <1>1, <1>2, <1>4 DEF Over
  <2> QED BY <1>1, <2>1, <2>2
<1>5. ASSUME NEW b \in Bit
      PROVE  Over(p, Append(q, b)) <=> Over(p, q) \/ p = Append(q, b)
  <2>1. Over(p, q) => Over(p, Append(q, b))
    BY <1>2, OverOrder
  <2>2. p = Append(q, b) => Over(p, Append(q, b))
    BY OverOrder
  <2>3. ASSUME Over(p, Append(q, b)), p # Append(q, b) PROVE Over(p, q)
    <3>1. Len(p) < Len(q) + 1
      <4>1. PICK c \in Path(h) : c = Append(q, b)
        BY <1>2
      <4>2. Len(p) < Len(c)
        BY <2>3, <4>1, OverOrder
      <4> QED BY <1>2, <4>1, <4>2
    <3> QED BY <1>1, <1>2, <2>3, <3>1 DEF Over
  <2> QED BY <2>1, <2>2, <2>3
<1> QED BY <1>3, <1>4, <1>5

-----------------------------------------------------------------------------
(* Addresses under a path                                                  *)

Hosts(h, q) == { a \in Address(h) : Over(q, a) }

\* The addresses under q that prefixes of L take.
Used(h, L, q) == { a \in Hosts(h, q) : \E l \in L : Over(l, a) }

\* The two children of a node.
LEMMA ZeroOrOne == 0 \in Bit /\ 1 \in Bit /\ \A b \in Bit : b = 0 \/ b = 1
BY DEF Bit

\* Half of the addresses are left, the others right.
LEMMA HostsSplit ==
  ASSUME NEW h \in Nat, NEW q \in Path(h), Len(q) < h
  PROVE  /\ Hosts(h, q) = Hosts(h, Append(q, 0)) \cup Hosts(h, Append(q, 1))
         /\ Hosts(h, Append(q, 0)) \cap Hosts(h, Append(q, 1)) = {}
<1>1. \A a \in Address(h) : a \in Path(h) /\ Len(a) = h
  BY PathIs
<1>2. ASSUME NEW a \in Address(h)
      PROVE  /\ Over(q, a) <=> Over(Append(q, 0), a) \/ Over(Append(q, 1), a)
             /\ ~(Over(Append(q, 0), a) /\ Over(Append(q, 1), a))
  <2>1. a \in Path(h) /\ q # a
    BY <1>1
  <2>2. /\ Over(q, a) => a[Len(q) + 1] \in Bit /\ Over(Append(q, a[Len(q) + 1]), a)
        /\ \A b \in Bit : Over(Append(q, b), a) => Over(q, a) /\ a[Len(q) + 1] = b
    BY <2>1, OverChild
  <2> QED BY <2>2, ZeroOrOne
<1> QED BY <1>2 DEF Hosts

\* An address has one host, a net with one host bit more has twice as many.
LEMMA HostsCount ==
  ASSUME NEW h \in Nat, NEW q \in Path(h)
  PROVE  /\ IsFiniteSet(Hosts(h, q)) /\ Cardinality(Hosts(h, q)) = 2^(h - Len(q))
         /\ Hosts(h, q) # {}
<1> DEFINE S == { n \in 0..h : \A p \in Path(h) : Len(p) = h - n =>
                     IsFiniteSet(Hosts(h, p)) /\ Cardinality(Hosts(h, p)) = 2^n }
<1>1. 0 \in S
  <2> SUFFICES ASSUME NEW p \in Path(h), Len(p) = h
               PROVE  IsFiniteSet(Hosts(h, p)) /\ Cardinality(Hosts(h, p)) = 1
    BY PowerZero
  <2>1. p \in Address(h)
    BY PathIs
  <2>2. Hosts(h, p) = {p}
    BY <2>1, PathIs, OverOrder DEF Hosts
  <2> QED BY <2>2, FS_Singleton
<1>2. ASSUME NEW n \in 0..h - 1, n \in S PROVE n + 1 \in S
  <2> SUFFICES ASSUME NEW p \in Path(h), Len(p) = h - (n + 1)
               PROVE  IsFiniteSet(Hosts(h, p)) /\ Cardinality(Hosts(h, p)) = 2^(n + 1)
    OBVIOUS
  <2>1. Len(p) < h
    OBVIOUS
  <2>2. ASSUME NEW b \in Bit
        PROVE  IsFiniteSet(Hosts(h, Append(p, b))) /\ Cardinality(Hosts(h, Append(p, b))) = 2^n
    <3>1. Append(p, b) \in Path(h) /\ Len(Append(p, b)) = h - n
      BY <2>1, ChildIs
    <3> QED BY <1>2, <3>1
  <2>3. PICK A, B : A = Hosts(h, Append(p, 0)) /\ B = Hosts(h, Append(p, 1))
    OBVIOUS
  <2>4. /\ IsFiniteSet(A) /\ IsFiniteSet(B) /\ Cardinality(A) = 2^n /\ Cardinality(B) = 2^n
        /\ Hosts(h, p) = A \cup B /\ A \cap B = {}
    <3>1. Hosts(h, p) = A \cup B /\ A \cap B = {}
      BY <2>1, <2>3, HostsSplit
    <3> QED BY <2>2, <2>3, <3>1, ZeroOrOne
  <2>5. IsFiniteSet(A \cup B) /\ Cardinality(A \cup B) = 2^n + 2^n - 0
    <3>1. Cardinality(A \cap B) = 0
      BY <2>4, FS_EmptySet
    <3>2. /\ IsFiniteSet(A \cup B)
          /\ Cardinality(A \cup B) = Cardinality(A) + Cardinality(B) - Cardinality(A \cap B)
      BY <2>4, FS_Union
    <3> QED BY <2>4, <3>1, <3>2
  <2>6. 2^(n + 1) = 2^n + 2^n - 0
    BY PowerOfTwo
  <2> QED BY <2>4, <2>5, <2>6
<1>3. \A n \in 0..h : n \in S
  <2> HIDE DEF S
  <2> QED BY <1>1, <1>2, NatsUpTo
<1>4. h - Len(q) \in 0..h /\ Len(q) = h - (h - Len(q))
  BY PathIs
<1>5. IsFiniteSet(Hosts(h, q)) /\ Cardinality(Hosts(h, q)) = 2^(h - Len(q))
  BY <1>3, <1>4
<1>6. 2^(h - Len(q)) # 0
  BY <1>4, PowerOfTwo
<1> QED BY <1>5, <1>6, FS_EmptySet

\* Two prefixes share an address iff one contains the other, and then they share all
\* of the smaller one.
LEMMA HostsShared ==
  ASSUME NEW h \in Nat, NEW p \in Path(h), NEW q \in Path(h)
  PROVE  /\ Overlap(p, q) <=> Over(p, q) \/ Over(q, p)
         /\ Over(q, p) => Hosts(h, p) \subseteq Hosts(h, q)
         /\ ~Overlap(p, q) => Hosts(h, p) \cap Hosts(h, q) = {}
<1>1. Overlap(p, q) <=> Over(p, q) \/ Over(q, p)
  BY PrefixIs DEF Overlap
<1>2. \A a \in Address(h) : a \in Path(h)
  BY PathIs
<1> QED BY <1>1, <1>2, OverOrder DEF Hosts

\* What is taken under a path is taken in one of its halves.
LEMMA UsedSplit ==
  ASSUME NEW h \in Nat, NEW L, NEW q \in Path(h), Len(q) < h
  PROVE  /\ Used(h, L, q) = Used(h, L, Append(q, 0)) \cup Used(h, L, Append(q, 1))
         /\ Used(h, L, Append(q, 0)) \cap Used(h, L, Append(q, 1)) = {}
BY HostsSplit DEF Used

\* How many addresses under a path can be taken, and what the extremes mean.
LEMMA UsedCount ==
  ASSUME NEW h \in Nat, NEW L, NEW q \in Path(h)
  PROVE  /\ IsFiniteSet(Used(h, L, q)) /\ Cardinality(Used(h, L, q)) \in 0..2^(h - Len(q))
         /\ Cardinality(Used(h, L, q)) = 2^(h - Len(q)) <=> Used(h, L, q) = Hosts(h, q)
         /\ Cardinality(Used(h, L, q)) = 0 <=> Used(h, L, q) = {}
<1>1. Used(h, L, q) \in SUBSET Hosts(h, q)
  BY DEF Used
<1>2. IsFiniteSet(Hosts(h, q)) /\ Cardinality(Hosts(h, q)) = 2^(h - Len(q))
  BY HostsCount
<1>3. IsFiniteSet(Used(h, L, q)) /\ Cardinality(Used(h, L, q)) <= 2^(h - Len(q))
      /\ (Cardinality(Used(h, L, q)) = 2^(h - Len(q)) => Used(h, L, q) = Hosts(h, q))
  BY <1>1, <1>2, FS_Subset
<1>4. Cardinality(Used(h, L, q)) \in Nat /\ 2^(h - Len(q)) \in Nat
  BY <1>2, <1>3, FS_CardinalityType
<1> QED BY <1>2, <1>3, <1>4, FS_EmptySet

\* A prefix that is clear of L adds its addresses to those of the paths over it.
LEMMA UsedMore ==
  ASSUME NEW h \in Nat, NEW L \in SUBSET Path(h), NEW p \in Path(h), Clear(L, p), NEW q \in Path(h)
  PROVE  /\ Over(q, p) => Cardinality(Used(h, L \cup {p}, q)) =
                            Cardinality(Used(h, L, q)) + 2^(h - Len(p))
         /\ ~Overlap(p, q) => Used(h, L \cup {p}, q) = Used(h, L, q)
<1>1. \A a \in Address(h) : a \in Path(h)
  BY PathIs
<1>2. ASSUME Over(q, p)
      PROVE  Cardinality(Used(h, L \cup {p}, q)) = Cardinality(Used(h, L, q)) + 2^(h - Len(p))
  <2>1. Hosts(h, p) \subseteq Hosts(h, q)
    BY <1>2, HostsShared
  <2>2. Used(h, L \cup {p}, q) = Used(h, L, q) \cup Hosts(h, p)
    BY <2>1 DEF Used, Hosts
  <2>3. Used(h, L, q) \cap Hosts(h, p) = {}
    <3>1. \A l \in L : ~Over(l, p) /\ ~Over(p, l)
      BY HostsShared DEF Clear
    <3> QED BY <1>1, <3>1, OverOrder DEF Used, Hosts
  <2>4. PICK A, B : A = Used(h, L, q) /\ B = Hosts(h, p)
    OBVIOUS
  <2>5. IsFiniteSet(A) /\ IsFiniteSet(B) /\ Cardinality(B) = 2^(h - Len(p)) /\ A \cap B = {}
    BY <2>3, <2>4, UsedCount, HostsCount
  <2>6. Cardinality(A \cap B) = 0
    BY <2>5, FS_EmptySet
  <2>7. Cardinality(A \cup B) = Cardinality(A) + Cardinality(B) - Cardinality(A \cap B)
    BY <2>5, FS_Union
  <2>8. PICK n \in Nat, m \in Nat : n = Cardinality(A) /\ m = 2^(h - Len(p))
    BY <2>5, FS_CardinalityType
  <2>9. Cardinality(A \cup B) = n + m
    BY <2>5, <2>6, <2>7, <2>8
  <2> QED BY <2>2, <2>4, <2>8, <2>9
<1>3. ASSUME ~Overlap(p, q) PROVE Used(h, L \cup {p}, q) = Used(h, L, q)
  <2>1. Hosts(h, p) \cap Hosts(h, q) = {}
    BY <1>3, HostsShared
  <2> QED BY <2>1 DEF Used, Hosts
<1> QED BY <1>2, <1>3


-----------------------------------------------------------------------------
(* The trie as a value                                                     *)

Closed(h, N) ==
  /\ N \subseteq Path(h)
  /\ \A q \in N : \A p \in Path(h) : Over(p, q) => p \in N

Ends(N) == { p \in N : IsLeaf(N, p) }

\* Every node but the root has its parent, and counts the addresses that the leaves
\* below it take.
Sound(t) ==
  /\ t = [height |-> t.height, width |-> t.width, nodes |-> t.nodes, cnt |-> t.cnt]
  /\ t.height \in Nat /\ t.width \in Nat /\ t.height <= t.width
  /\ Closed(t.height, t.nodes)
  /\ t.cnt = [q \in t.nodes |-> Wrap(Cardinality(Used(t.height, Leaves(t), q)), t.width)]

\* Under every node there is a leaf.
LEMMA LeafBelow ==
  ASSUME NEW h \in Nat, NEW N \in SUBSET Path(h), NEW q \in N
  PROVE  \E l \in Ends(N) : Over(q, l)
<1> DEFINE S == { n \in 0..h : \A p \in N : Len(p) = h - n => \E l \in Ends(N) : Over(p, l) }
<1>1. 0 \in S
  <2> SUFFICES ASSUME NEW p \in N, Len(p) = h PROVE \E l \in Ends(N) : Over(p, l)
    OBVIOUS
  <2>1. \A b \in Bit : Append(p, b) \notin N
    <3> SUFFICES ASSUME NEW b \in Bit, Append(p, b) \in N PROVE FALSE
      OBVIOUS
    <3>1. p \in Seq(Bit) /\ Len(Append(p, b)) \in 0..h
      BY PathIs
    <3>2. Len(Append(p, b)) = h + 1
      BY <3>1
    <3> QED BY <3>1, <3>2
  <2>2. p \in Ends(N)
    BY <2>1 DEF Ends, IsLeaf
  <2>3. Over(p, p)
    BY OverOrder
  <2> QED BY <2>2, <2>3
<1>2. ASSUME NEW n \in 0..h - 1, n \in S PROVE n + 1 \in S
  <2> SUFFICES ASSUME NEW p \in N, Len(p) = h - (n + 1) PROVE \E l \in Ends(N) : Over(p, l)
    OBVIOUS
  <2>1. CASE p \in Ends(N)
    <3>1. Over(p, p)
      BY OverOrder
    <3> QED BY <2>1, <3>1
  <2>2. CASE p \notin Ends(N)
    <3>1. PICK b \in Bit : Append(p, b) \in N
      BY <2>2 DEF Ends, IsLeaf
    <3>2. Len(Append(p, b)) = h - n /\ Over(p, Append(p, b)) /\ Append(p, b) \in Path(h)
      BY ChildIs
    <3>3. PICK l \in Ends(N) : Over(Append(p, b), l)
      BY <1>2, <3>1, <3>2
    <3>4. l \in Path(h)
      BY DEF Ends
    <3>5. Over(p, l)
      BY <3>2, <3>3, <3>4, OverOrder
    <3> QED BY <3>5
  <2> QED BY <2>1, <2>2
<1>3. \A n \in 0..h : n \in S
  <2> HIDE DEF S
  <2> QED BY <1>1, <1>2, NatsUpTo
<1>4. h - Len(q) \in 0..h /\ Len(q) = h - (h - Len(q))
  BY PathIs
<1> QED BY <1>3, <1>4

\* Under a leaf there is no other node.
LEMMA LeafEnds ==
  ASSUME NEW h \in Nat, NEW N, Closed(h, N), NEW l \in Ends(N), NEW r \in N, Over(l, r)
  PROVE  r = l
<1> SUFFICES ASSUME r # l PROVE FALSE
  OBVIOUS
<1>1. l \in Path(h) /\ r \in Path(h)
  BY DEF Ends, Closed
<1>2. Len(l) < Len(r) /\ Len(r) \in 0..h /\ Len(l) \in 0..h
  BY <1>1, OverOrder, PathIs
<1>3. PICK b \in Bit : Over(Append(l, b), r)
  BY <1>1, <1>2, OverChild
<1>4. Append(l, b) \in Path(h)
  BY <1>1, <1>2, ChildIs
<1>5. Append(l, b) \in N
  BY <1>3, <1>4 DEF Closed
<1> QED BY <1>5 DEF Ends, IsLeaf

\* Put refuses a prefix iff it overlaps one that is there.
LEMMA BlockedIs ==
  ASSUME NEW t, Sound(t), NEW p \in Path(t.height)
  PROVE  Blocked(t, p) <=> ~Clear(Leaves(t), p)
<1> DEFINE h == t.height
           N == t.nodes
<1>1. h \in Nat /\ Closed(h, N) /\ N \in SUBSET Path(h) /\ Leaves(t) = Ends(N)
  BY DEF Sound, Closed, Leaves, Ends
<1>2. ASSUME p \in N PROVE ~Clear(Leaves(t), p)
  <2>1. PICK l \in Ends(N) : Over(p, l)
    BY <1>1, <1>2, LeafBelow
  <2>2. l \in Path(h)
    BY <1>1 DEF Ends
  <2> QED BY <1>1, <2>1, <2>2, HostsShared DEF Clear
<1>3. ASSUME NEW q \in Prefixes(p), IsLeaf(N, q) PROVE ~Clear(Leaves(t), p)
  <2>1. q \in Path(h) /\ Over(q, p) /\ q \in Ends(N)
    BY <1>1, <1>3, PrefixesArePaths DEF IsLeaf, Ends
  <2> QED BY <1>1, <2>1, HostsShared DEF Clear
<1>4. ASSUME NEW l \in Ends(N), Overlap(p, l) PROVE Blocked(t, p)
  <2>1. l \in Path(h) /\ l \in N /\ IsLeaf(N, l)
    BY <1>1 DEF Ends
  <2>2. Over(l, p) \/ Over(p, l)
    BY <1>1, <1>4, <2>1, HostsShared
  <2>3. Over(l, p) => l \in Prefixes(p)
    BY <1>1, <2>1, PrefixesArePaths
  <2>4. Over(p, l) => p \in N
    BY <1>1, <2>1 DEF Closed
  <2> QED BY <2>1, <2>2, <2>3, <2>4 DEF Blocked
<1>5. Blocked(t, p) => ~Clear(Leaves(t), p)
  BY <1>2, <1>3 DEF Blocked
<1>6. ASSUME ~Clear(Leaves(t), p) PROVE Blocked(t, p)
  <2>1. PICK l \in Leaves(t) : Overlap(p, l)
    BY <1>6 DEF Clear
  <2> QED BY <1>1, <1>4, <2>1
<1> QED BY <1>5, <1>6

\* What is taken under a path.
LEMMA UsedIs ==
  ASSUME NEW h \in Nat, NEW N, Closed(h, N), NEW q \in Path(h)
  PROVE  /\ \A l \in Ends(N) : Over(l, q) => Used(h, Ends(N), q) = Hosts(h, q)
         /\ q \notin N /\ (\A l \in Ends(N) : ~Over(l, q)) => Used(h, Ends(N), q) = {}
         /\ q \in N => Used(h, Ends(N), q) # {}
<1>1. Ends(N) \subseteq Path(h) /\ Ends(N) \subseteq N /\ N \in SUBSET Path(h)
  BY DEF Ends, Closed
<1>2. \A a \in Address(h) : a \in Path(h)
  BY PathIs
<1>3. ASSUME NEW l \in Ends(N), Over(l, q) PROVE Used(h, Ends(N), q) = Hosts(h, q)
  <2>1. \A a \in Hosts(h, q) : Over(l, a)
    BY <1>1, <1>2, <1>3, OverOrder DEF Hosts
  <2> QED BY <2>1 DEF Used
<1>4. ASSUME q \notin N, \A l \in Ends(N) : ~Over(l, q) PROVE Used(h, Ends(N), q) = {}
  <2> SUFFICES ASSUME NEW a \in Address(h), Over(q, a), NEW l \in Ends(N), Over(l, a)
               PROVE  FALSE
    BY DEF Used, Hosts
  <2>1. Over(q, l) \/ Over(l, q)
    BY <1>1, <1>2, OverOrder
  <2> QED BY <1>1, <1>4, <2>1 DEF Closed
<1>5. ASSUME q \in N PROVE Used(h, Ends(N), q) # {}
  <2>1. PICK l \in Ends(N) : Over(q, l)
    BY <1>1, <1>5, LeafBelow
  <2>2. PICK a : a \in Hosts(h, l)
    BY <1>1, HostsCount
  <2>3. a \in Used(h, Ends(N), q)
    BY <1>1, <1>2, <2>1, <2>2, OverOrder DEF Used, Hosts
  <2> QED BY <2>3
<1> QED BY <1>3, <1>4, <1>5

\* Put adds the prefix to the leaves.
LEMMA InsertedIs ==
  ASSUME NEW t, Sound(t), NEW p \in Path(t.height), Clear(Leaves(t), p)
  PROVE  /\ Sound(Inserted(t, p))
         /\ Leaves(Inserted(t, p)) = Leaves(t) \cup {p}
         /\ Inserted(t, p).height = t.height /\ Inserted(t, p).width = t.width
<1> DEFINE h == t.height
           w == t.width
           N == t.nodes
           L == Leaves(t)
           M == N \cup Prefixes(p)
           u == Inserted(t, p)
           cnt(q) == Wrap((IF q \in N THEN t.cnt[q] ELSE 0)
                          + (IF q \in Prefixes(p) THEN Size(t, p) ELSE 0), w)
<1>1. /\ h \in Nat /\ w \in Nat /\ h <= w /\ Closed(h, N) /\ N \in SUBSET Path(h)
      /\ L = Ends(N) /\ L \subseteq Path(h) /\ L \subseteq N
  BY DEF Sound, Closed, Leaves, Ends
<1>2. u = [height |-> h, width |-> w, nodes |-> M, cnt |-> [q \in M |-> cnt(q)]]
  <2>1. PICK r : r = t
    OBVIOUS
  <2>2. r = [height |-> h, width |-> w, nodes |-> N, cnt |-> t.cnt]
    BY <2>1 DEF Sound
  <2>3. PICK c : c = [q \in M |-> cnt(q)]
    OBVIOUS
  <2>4. u = [r EXCEPT !.nodes = M, !.cnt = c]
    BY <2>1, <2>3, Zenon DEF Inserted
  <2>5. u = [height |-> h, width |-> w, nodes |-> M, cnt |-> c]
    <3> HIDE DEF u, M, N, h, w
    <3> QED BY <2>2, <2>4
  <2> QED BY <2>3, <2>5
<1>3. \A q \in Path(h) : q \in Prefixes(p) <=> Over(q, p)
  BY <1>1, PrefixesArePaths
<1>4. Prefixes(p) \subseteq Path(h) /\ p \in Prefixes(p)
  BY <1>1, PrefixesArePaths, OverOrder
<1>5. \A l \in L : ~Over(l, p) /\ ~Over(p, l)
  BY <1>1, HostsShared DEF Clear
<1>6. p \notin N
  BY <1>1, <1>5, LeafBelow
<1>7. Closed(h, M)
  <2>1. ASSUME NEW q \in M, NEW r \in Path(h), Over(r, q) PROVE r \in M
    <3>1. CASE q \in N
      BY <1>1, <2>1, <3>1 DEF Closed
    <3>2. CASE q \in Prefixes(p)
      BY <1>1, <1>3, <1>4, <2>1, <3>2, OverOrder
    <3> QED BY <3>1, <3>2
  <2> QED BY <1>1, <1>4, <2>1 DEF Closed
<1>8. Ends(M) = L \cup {p}
  <2>1. ASSUME NEW r \in Ends(M), r # p PROVE r \in L
    <3>1. r \in Path(h) /\ r \in M /\ \A b \in Bit : Append(r, b) \notin M
      BY <1>1, <1>4 DEF Ends, IsLeaf
    <3>2. r \notin Prefixes(p)
      <4> SUFFICES ASSUME Over(r, p) PROVE FALSE
        BY <1>3, <3>1
      <4>1. Len(r) < Len(p) /\ Len(p) \in 0..h /\ Len(r) \in 0..h
        BY <1>1, <2>1, <3>1, OverOrder, PathIs
      <4>2. PICK b \in Bit : Over(Append(r, b), p)
        BY <1>1, <2>1, <3>1, <4>1, OverChild
      <4>3. Append(r, b) \in Path(h)
        BY <1>1, <3>1, <4>1, ChildIs
      <4> QED BY <1>3, <3>1, <4>2, <4>3
    <3> QED BY <1>1, <3>1, <3>2 DEF Ends, IsLeaf
  <2>2. ASSUME NEW r \in L PROVE r \in Ends(M)
    <3>1. r \in N /\ r \in Path(h) /\ \A b \in Bit : Append(r, b) \notin N
      BY <1>1 DEF Ends, IsLeaf
    <3>2. ASSUME NEW b \in Bit, Append(r, b) \in Prefixes(p) PROVE FALSE
      <4>1. Append(r, b) \in Path(h) /\ Over(Append(r, b), p)
        BY <1>3, <1>4, <3>2
      <4>2. Len(r) < h
        <5>1. r \in Seq(Bit) /\ Len(Append(r, b)) \in 0..h
          BY <1>1, <3>1, <4>1, PathIs
        <5>2. Len(Append(r, b)) = Len(r) + 1 /\ Len(r) \in Nat
          BY <5>1
        <5> QED BY <1>1, <5>1, <5>2
      <4>3. Over(r, p)
        BY <1>1, <3>1, <4>1, <4>2, OverChild
      <4> QED BY <1>5, <4>3
    <3> QED BY <3>1, <3>2 DEF Ends, IsLeaf
  <2>3. p \in Ends(M)
    <3> SUFFICES ASSUME NEW b \in Bit, Append(p, b) \in M PROVE FALSE
      BY <1>4 DEF Ends, IsLeaf
    <3>1. Append(p, b) \in Path(h) /\ p \in Seq(Bit) /\ Len(p) \in Nat
      BY <1>1, <1>4, PathIs
    <3>2. Len(Append(p, b)) = Len(p) + 1 /\ Len(Append(p, b)) \in 0..h
      <4>1. Len(Append(p, b)) = Len(p) + 1
        BY <3>1
      <4> QED BY <1>1, <3>1, <4>1, PathIs
    <3>3. Over(p, Append(p, b))
      BY <1>1, <3>1, <3>2, ChildIs
    <3>4. Append(p, b) \notin N
      BY <1>1, <1>6, <3>3 DEF Closed
    <3>5. ~Over(Append(p, b), p)
      BY <3>1, <3>2 DEF Over
    <3> QED BY <1>3, <3>1, <3>4, <3>5
  <2> QED BY <2>1, <2>2, <2>3
<1>9. ASSUME NEW q \in M PROVE cnt(q) = Wrap(Cardinality(Used(h, L \cup {p}, q)), w)
  <2>1. q \in Path(h)
    BY <1>1, <1>4
  <2>2. PICK n \in Nat : n = Cardinality(Used(h, L, q))
    BY <1>1, <2>1, UsedCount
  <2>3. q \in N => t.cnt[q] = Wrap(n, w)
    BY <2>2 DEF Sound
  <2>4. PICK k \in Nat : k = Size(t, p) /\ k = 2^(h - Len(p))
    <3>1. h - Len(p) \in Nat
      BY <1>1, PathIs
    <3> QED BY <3>1, PowerOfTwo DEF Size
  <2>5. CASE Over(q, p)
    <3>1. Cardinality(Used(h, L \cup {p}, q)) = n + k
      BY <1>1, <2>1, <2>2, <2>4, <2>5, UsedMore
    <3>2. CASE q \in N
      <4>1. cnt(q) = Wrap(Wrap(n, w) + k, w)
        <5>1. q \in Prefixes(p)
          BY <1>3, <2>1, <2>5
        <5> QED BY <2>3, <2>4, <3>2, <5>1, Zenon
      <4>2. Wrap(Wrap(n, w) + k, w) = Wrap(n + k, w)
        <5>1. w \in Nat
          BY <1>1
        <5> QED BY <5>1, WrapCounts, Zenon
      <4> HIDE DEF cnt
      <4> QED BY <3>1, <4>1, <4>2, Zenon
    <3>3. CASE q \notin N
      <4>1. \A l \in L : ~Over(l, q)
        BY <1>1, <1>5, <2>1, <2>5, OverOrder
      <4>2. n = 0
        BY <1>1, <2>1, <2>2, <3>3, <4>1, UsedIs, UsedCount
      <4> QED BY <1>3, <2>1, <2>4, <2>5, <3>1, <3>3, <4>2
    <3> QED BY <3>2, <3>3
  <2>6. CASE ~Over(q, p)
    <3>1. q \in N
      BY <1>3, <2>1, <2>6
    <3>2. ~Over(p, q)
      BY <1>1, <1>6, <3>1 DEF Closed
    <3>3. Used(h, L \cup {p}, q) = Used(h, L, q)
      <4>1. ~Overlap(p, q)
        BY <1>1, <2>1, <2>6, <3>2, HostsShared
      <4> QED BY <1>1, <2>1, <4>1, UsedMore
    <3>4. cnt(q) = Wrap(Wrap(n, w) + 0, w)
      BY <1>3, <2>1, <2>3, <2>6, <3>1
    <3>5. Wrap(Wrap(n, w) + 0, w) = Wrap(n + 0, w) /\ n + 0 = n
      <4>1. w \in Nat /\ 0 \in Nat /\ n + 0 = n
        BY <1>1
      <4> QED BY <4>1, WrapCounts, Zenon
    <3> QED BY <2>2, <3>3, <3>4, <3>5, Zenon
  <2> QED BY <2>5, <2>6
<1>10. u.height = h /\ u.width = w /\ u.nodes = M /\ u.cnt = [q \in M |-> cnt(q)]
  <2> HIDE DEF u, M, cnt
  <2> QED BY <1>2
<1>11. Leaves(u) = L \cup {p}
  BY <1>8, <1>10 DEF Leaves, Ends
<1>12. [q \in M |-> cnt(q)] = [q \in M |-> Wrap(Cardinality(Used(h, L \cup {p}, q)), w)]
  <2> HIDE DEF M, cnt
  <2> QED BY <1>9
<1>13. Sound(u)
  <2> HIDE DEF u, M, cnt, L, N, h, w
  <2> QED BY <1>1, <1>2, <1>7, <1>10, <1>11, <1>12 DEF Sound
<1> QED BY <1>10, <1>11, <1>13

\* Delete takes the leaf out, and with it every node that has no leaf below any more.
LEMMA RemovedIs ==
  ASSUME NEW t, Sound(t), NEW p \in Leaves(t)
  PROVE  /\ Sound(Removed(t, p))
         /\ Leaves(Removed(t, p)) = Leaves(t) \ {p}
         /\ Removed(t, p).height = t.height /\ Removed(t, p).width = t.width
<1> DEFINE h == t.height
           w == t.width
           N == t.nodes
           L == Leaves(t)
           K == L \ {p}
           M == Pruned(N, p)
           u == Removed(t, p)
           cnt(q) == IF q \in Prefixes(p) THEN Wrap(t.cnt[q] - Size(t, p), w) ELSE t.cnt[q]
<1>1. /\ h \in Nat /\ w \in Nat /\ h <= w /\ Closed(h, N) /\ N \in SUBSET Path(h)
      /\ L = Ends(N) /\ L \subseteq Path(h) /\ L \subseteq N /\ p \in Path(h) /\ p \in N
  BY DEF Sound, Closed, Leaves, Ends
<1>2. u = [height |-> h, width |-> w, nodes |-> M, cnt |-> [q \in M |-> cnt(q)]]
  <2>1. PICK r : r = t
    OBVIOUS
  <2>2. r = [height |-> h, width |-> w, nodes |-> N, cnt |-> t.cnt]
    BY <2>1 DEF Sound
  <2>3. PICK c : c = [q \in M |-> cnt(q)]
    OBVIOUS
  <2>4. u = [r EXCEPT !.nodes = M, !.cnt = c]
    BY <2>1, <2>3, Zenon DEF Removed
  <2>5. u = [height |-> h, width |-> w, nodes |-> M, cnt |-> c]
    <3> HIDE DEF u, M, N, h, w
    <3> QED BY <2>2, <2>4
  <2> QED BY <2>3, <2>5
<1>3. \A q \in Path(h) : q \in Prefixes(p) <=> Over(q, p)
  BY <1>1, PrefixesArePaths
<1>4. M = { q \in N : \E r \in N : ~Over(r, p) /\ Over(q, r) }
  <2>1. \A q \in N, r \in N : IsPrefix(q, r) <=> Over(q, r)
    BY <1>1, PrefixIs
  <2>2. M = { q \in N : \E r \in N \ Prefixes(p) : IsPrefix(q, r) }
    BY DEF Pruned
  <2>3. \A r : r \in N \ Prefixes(p) <=> r \in N /\ ~Over(r, p)
    BY <1>1, <1>3
  <2> HIDE DEF M
  <2> QED BY <2>1, <2>2, <2>3
<1>5. \A l \in L : Over(l, p) \/ Over(p, l) => l = p
  BY <1>1, LeafEnds
<1>6. Closed(h, M)
  <2>1. ASSUME NEW q \in M, NEW r \in Path(h), Over(r, q) PROVE r \in M
    <3>1. PICK s \in N : ~Over(s, p) /\ Over(q, s)
      BY <1>4
    <3>2. q \in N /\ q \in Path(h) /\ s \in Path(h)
      BY <1>1, <1>4
    <3>3. Over(r, s)
      BY <1>1, <2>1, <3>1, <3>2, OverOrder
    <3>4. r \in N
      BY <1>1, <2>1, <3>2 DEF Closed
    <3> QED BY <1>4, <3>1, <3>3, <3>4
  <2>2. M \subseteq Path(h)
    BY <1>1, <1>4
  <2> HIDE DEF M
  <2> QED BY <2>1, <2>2 DEF Closed
<1>7. Ends(M) = K
  <2>1. ASSUME NEW l \in K PROVE l \in Ends(M)
    <3>1. l \in N /\ l \in Path(h) /\ (\A b \in Bit : Append(l, b) \notin N) /\ ~Over(l, p)
      BY <1>1, <1>5 DEF Ends, IsLeaf
    <3>2. Over(l, l)
      BY <1>1, <3>1, OverOrder
    <3>3. l \in M
      BY <1>4, <3>1, <3>2
    <3>4. \A b \in Bit : Append(l, b) \notin M
      BY <1>4, <3>1
    <3> QED BY <3>3, <3>4 DEF Ends, IsLeaf
  <2>2. ASSUME NEW l \in Ends(M) PROVE l \in K
    <3>1. l \in M /\ \A b \in Bit : Append(l, b) \notin M
      BY DEF Ends, IsLeaf
    <3>2. PICK r \in N : ~Over(r, p) /\ Over(l, r)
      BY <1>4, <3>1
    <3>3. l \in Path(h) /\ r \in Path(h) /\ l \in N
      BY <1>1, <1>4, <3>1
    <3>4. ASSUME NEW b \in Bit, NEW s \in N, ~Over(s, p), Over(Append(l, b), s), Len(l) < h
          PROVE  FALSE
      <4>1. Append(l, b) \in N
        <5>1. Append(l, b) \in Path(h)
          BY <1>1, <3>3, <3>4, ChildIs
        <5> QED BY <1>1, <3>4, <5>1 DEF Closed
      <4>2. Append(l, b) \in M
        BY <1>4, <3>4, <4>1
      <4> QED BY <3>1, <4>2
    <3>5. l = r
      <4> SUFFICES ASSUME l # r PROVE FALSE
        OBVIOUS
      <4>1. Len(l) < Len(r) /\ Len(r) \in 0..h /\ Len(l) \in 0..h
        BY <1>1, <3>2, <3>3, OverOrder, PathIs
      <4>2. PICK b \in Bit : Over(Append(l, b), r)
        BY <1>1, <3>2, <3>3, <4>1, OverChild
      <4> QED BY <1>1, <3>2, <3>4, <4>1, <4>2
    <3>6. ASSUME NEW b \in Bit, Append(l, b) \in N PROVE FALSE
      <4>1. Append(l, b) \in Path(h) /\ l \in Seq(Bit) /\ Len(l) \in 0..h
        BY <1>1, <3>3, <3>6, PathIs
      <4>2. Len(Append(l, b)) = Len(l) + 1
        BY <4>1
      <4>3. Len(Append(l, b)) \in 0..h
        BY <1>1, <4>1, PathIs
      <4>4. Len(l) < h
        BY <1>1, <4>1, <4>2, <4>3
      <4>5. Over(Append(l, b), Append(l, b)) /\ Over(l, Append(l, b))
        BY <1>1, <3>3, <4>1, <4>4, OverOrder, ChildIs
      <4>6. ~Over(Append(l, b), p)
        BY <1>1, <3>2, <3>3, <3>5, <4>1, <4>5, OverOrder
      <4> QED BY <3>4, <3>6, <4>4, <4>5, <4>6
    <3>7. l # p
      BY <1>1, <3>2, <3>5, OverOrder
    <3> QED BY <1>1, <3>3, <3>6, <3>7 DEF Ends, IsLeaf
  <2> HIDE DEF M, K
  <2> QED BY <2>1, <2>2
<1>8. K \in SUBSET Path(h) /\ L = K \cup {p} /\ Clear(K, p)
  BY <1>1, <1>5, HostsShared DEF Clear
<1>9. ASSUME NEW q \in M PROVE cnt(q) = Wrap(Cardinality(Used(h, K, q)), w)
  <2>1. q \in Path(h) /\ q \in N
    BY <1>1, <1>4
  <2>2. PICK n \in Nat : n = Cardinality(Used(h, K, q))
    BY <1>1, <2>1, UsedCount
  <2>3. t.cnt[q] = Wrap(Cardinality(Used(h, L, q)), w)
    BY <2>1 DEF Sound
  <2>4. PICK k \in Nat : k = Size(t, p) /\ k = 2^(h - Len(p))
    <3>1. h - Len(p) \in Nat
      BY <1>1, PathIs
    <3> QED BY <3>1, PowerOfTwo DEF Size
  <2>5. CASE Over(q, p)
    <3>1. t.cnt[q] = Wrap(n + k, w)
      <4>1. Cardinality(Used(h, K \cup {p}, q)) = n + k
        <5>1. h \in Nat /\ K \in SUBSET Path(h) /\ p \in Path(h) /\ Clear(K, p)
          BY <1>1, <1>8
        <5> HIDE DEF K, h
        <5>2. Cardinality(Used(h, K \cup {p}, q)) = Cardinality(Used(h, K, q)) + 2^(h - Len(p))
          BY <2>1, <2>5, <5>1, UsedMore
        <5> QED BY <2>2, <2>4, <5>2
      <4> QED BY <1>8, <2>3, <4>1
    <3>2. cnt(q) = Wrap(Wrap(n + k, w) - k, w)
      BY <1>3, <2>1, <2>4, <2>5, <3>1
    <3>3. Wrap(Wrap(n + k, w) - k, w) = Wrap(n, w)
      <4>1. w \in Nat
        BY <1>1
      <4> QED BY <4>1, WrapCounts, Zenon
    <3> QED BY <2>2, <3>2, <3>3, Zenon
  <2>6. CASE ~Over(q, p)
    <3>1. ~Overlap(p, q)
      <4>1. Over(p, q) => q = p
        BY <1>1, <2>1, LeafEnds
      <4> QED BY <1>1, <2>1, <2>6, <4>1, OverOrder, HostsShared
    <3>2. Used(h, K \cup {p}, q) = Used(h, K, q)
      <4> HIDE DEF K
      <4> QED BY <1>1, <1>8, <2>1, <3>1, UsedMore
    <3>3. cnt(q) = t.cnt[q]
      BY <1>3, <2>1, <2>6
    <3> QED BY <1>8, <2>3, <3>2, <3>3, Zenon
  <2> QED BY <2>5, <2>6
<1>10. u.height = h /\ u.width = w /\ u.nodes = M /\ u.cnt = [q \in M |-> cnt(q)]
  <2> HIDE DEF u, M, cnt
  <2> QED BY <1>2
<1>11. Leaves(u) = K
  BY <1>7, <1>10 DEF Leaves, Ends
<1>12. [q \in M |-> cnt(q)] = [q \in M |-> Wrap(Cardinality(Used(h, K, q)), w)]
  <2> HIDE DEF M, cnt
  <2> QED BY <1>9
<1>13. Sound(u)
  <2> HIDE DEF u, M, cnt, L, N, h, w
  <2> QED BY <1>1, <1>2, <1>6, <1>10, <1>11, <1>12 DEF Sound
<1> QED BY <1>10, <1>11, <1>13

\* The counters add up whenever each counts the addresses taken below its node.
LEMMA CountersAgree ==
  ASSUME NEW t, Sound(t)
  PROVE  CountersAddUp(t)
<1> DEFINE h == t.height
           w == t.width
           N == t.nodes
           L == Leaves(t)
           Of(q, b) == IF Append(q, b) \in N THEN t.cnt[Append(q, b)] ELSE 0
<1>1. /\ h \in Nat /\ w \in Nat /\ Closed(h, N) /\ N \in SUBSET Path(h)
      /\ L = Ends(N) /\ L \subseteq Path(h) /\ L \subseteq N
  BY DEF Sound, Closed, Leaves, Ends
<1>2. \A q \in N : t.cnt[q] = Wrap(Cardinality(Used(h, L, q)), w)
  BY DEF Sound
<1>3. ASSUME NEW q \in N, IsLeaf(N, q) PROVE t.cnt[q] = Wrap(Size(t, q), w)
  <2>1. q \in Path(h) /\ q \in Ends(N) /\ Over(q, q)
    BY <1>1, <1>3, OverOrder DEF Ends
  <2>2. Used(h, L, q) = Hosts(h, q)
    BY <1>1, <2>1, UsedIs
  <2>3. Cardinality(Used(h, L, q)) = 2^(h - Len(q))
    BY <1>1, <2>1, <2>2, HostsCount
  <2> QED BY <1>2, <2>3 DEF Size
<1>4. ASSUME NEW q \in N, ~IsLeaf(N, q)
      PROVE  t.cnt[q] = Wrap(Of(q, 0) + Of(q, 1), w)
  <2>1. q \in Path(h) /\ Len(q) < h
    <3>1. PICK b \in Bit : Append(q, b) \in N
      BY <1>4 DEF IsLeaf
    <3>2. q \in Path(h) /\ q \in Seq(Bit) /\ Len(q) \in 0..h /\ Len(Append(q, b)) \in 0..h
      BY <1>1, <3>1, PathIs
    <3>3. Len(Append(q, b)) = Len(q) + 1
      BY <3>2
    <3> QED BY <1>1, <3>2, <3>3
  <2>2. ASSUME NEW b \in Bit
        PROVE  /\ Of(q, b) = Wrap(Cardinality(Used(h, L, Append(q, b))), w)
               /\ IsFiniteSet(Used(h, L, Append(q, b)))
    <3>1. Append(q, b) \in Path(h)
      BY <1>1, <2>1, ChildIs
    <3>2. CASE Append(q, b) \in N
      BY <1>1, <1>2, <1>4, <3>1, <3>2, UsedCount
    <3>3. CASE Append(q, b) \notin N
      <4>1. \A l \in L : ~Over(l, Append(q, b))
        <5> SUFFICES ASSUME NEW l \in L, Over(l, Append(q, b)) PROVE FALSE
          OBVIOUS
        <5>1. l \in Path(h) /\ l \in N /\ l # Append(q, b)
          BY <1>1, <3>3
        <5>2. Over(l, q)
          BY <1>1, <2>1, <5>1, OverChild
        <5>3. q = l
          BY <1>1, <5>1, <5>2, LeafEnds
        <5> QED BY <1>1, <1>4, <5>3 DEF Ends
      <4>2. Used(h, L, Append(q, b)) = {}
        BY <1>1, <3>1, <3>3, <4>1, UsedIs
      <4>3. Cardinality(Used(h, L, Append(q, b))) = 0 /\ IsFiniteSet(Used(h, L, Append(q, b)))
        BY <4>2, FS_EmptySet
      <4>4. Wrap(0, w) = 0
        BY <1>1, PowerOfTwo, WrapSmall
      <4> QED BY <3>3, <4>3, <4>4
    <3> QED BY <3>2, <3>3
  <2>3. PICK A, B : A = Used(h, L, Append(q, 0)) /\ B = Used(h, L, Append(q, 1))
    OBVIOUS
  <2>4. /\ IsFiniteSet(A) /\ IsFiniteSet(B) /\ A \cap B = {} /\ Used(h, L, q) = A \cup B
        /\ Of(q, 0) = Wrap(Cardinality(A), w) /\ Of(q, 1) = Wrap(Cardinality(B), w)
    BY <1>1, <2>1, <2>2, <2>3, UsedSplit, ZeroOrOne
  <2>5. PICK m \in Nat, n \in Nat : m = Cardinality(A) /\ n = Cardinality(B)
    BY <2>4, FS_CardinalityType
  <2>6. Cardinality(A \cup B) = m + n
    <3>1. Cardinality(A \cap B) = 0
      BY <2>4, FS_EmptySet
    <3>2. Cardinality(A \cup B) = Cardinality(A) + Cardinality(B) - Cardinality(A \cap B)
      BY <2>4, FS_Union
    <3> QED BY <2>5, <3>1, <3>2
  <2>7. Wrap(Wrap(m, w) + Wrap(n, w), w) = Wrap(m + n, w)
    <3>1. w \in Nat
      BY <1>1
    <3> QED BY <3>1, WrapCounts, Zenon
  <2>8. t.cnt[q] = Wrap(m + n, w)
    BY <1>2, <2>4, <2>6
  <2> QED BY <2>4, <2>5, <2>7, <2>8
<1> QED BY <1>3, <1>4 DEF CountersAddUp

\* A new tree is empty.
LEMMA NewTrieIs ==
  ASSUME NEW h \in Nat, NEW w \in Nat, h <= w
  PROVE  /\ Sound(NewTrie(h, w)) /\ Leaves(NewTrie(h, w)) = {}
         /\ NewTrie(h, w).height = h /\ NewTrie(h, w).width = w
<1> DEFINE t == NewTrie(h, w)
<1>1. /\ t = [height |-> t.height, width |-> t.width, nodes |-> t.nodes, cnt |-> t.cnt]
      /\ t.height = h /\ t.width = w /\ t.nodes = {} /\ t.cnt = <<>>
  BY DEF NewTrie
<1>2. Leaves(t) = {}
  BY <1>1 DEF Leaves
<1>3. Closed(h, {})
  BY DEF Closed
<1>4. <<>> = [q \in {} |-> Wrap(Cardinality(Used(h, {}, q)), w)]
  OBVIOUS
<1> QED BY <1>1, <1>2, <1>3, <1>4, Zenon DEF Sound

\* The root of a net, and the addresses under it.
LEMMA RootIs ==
  ASSUME NEW h \in Nat
  PROVE  /\ <<>> \in Path(h) /\ Len(<<>>) = 0
         /\ \A p \in Path(h) : Over(<<>>, p)
         /\ Hosts(h, <<>>) = Address(h)
<1>1. Len(<<>>) = 0 /\ <<>> \in [1..0 -> Bit]
  OBVIOUS
<1>2. <<>> \in Path(h)
  <2>1. 0 \in 0..h
    OBVIOUS
  <2> QED BY <1>1, <2>1, PathIs
<1>3. \A p \in Path(h) : Over(<<>>, p)
  <2> SUFFICES ASSUME NEW p \in Path(h) PROVE Over(<<>>, p)
    OBVIOUS
  <2>1. Len(p) \in Nat
    BY PathIs
  <2> QED BY <1>1, <2>1 DEF Over
<1>4. Hosts(h, <<>>) = Address(h)
  BY <1>3, PathIs DEF Hosts
<1> QED BY <1>1, <1>2, <1>3, <1>4

\* The root's counter, and Size: it is 0 only if every address is taken, and Size
\* is the number of addresses taken.
LEMMA UsedAddrsIs ==
  ASSUME NEW t, Sound(t)
  PROVE  /\ UsedAddrs(t) = Cardinality(Used(t.height, Leaves(t), <<>>))
         /\ UsedAddrs(t) \in 0..2^t.height
         /\ t.nodes # {} => UsedAddrs(t) # 0
         /\ t.nodes # {} /\ t.cnt[<<>>] = 0 => UsedAddrs(t) = 2^t.height
<1> DEFINE h == t.height
           w == t.width
           N == t.nodes
           L == Leaves(t)
<1>1. /\ h \in Nat /\ w \in Nat /\ h <= w /\ Closed(h, N) /\ N \in SUBSET Path(h)
      /\ L = Ends(N)
  BY DEF Sound, Closed, Leaves, Ends
<1>2. <<>> \in Path(h) /\ \A p \in Path(h) : Over(<<>>, p)
  BY <1>1, RootIs
<1>3. h - Len(<<>>) = h
  BY <1>1, RootIs
<1>4. PICK n \in Nat : n = Cardinality(Used(h, L, <<>>)) /\ n \in 0..2^h
  BY <1>1, <1>2, <1>3, UsedCount
<1>5. PICK a \in Nat \ {0}, b \in Nat \ {0} : a = 2^h /\ b = 2^w /\ a <= b
  BY <1>1, PowerOfTwo, PowerMultiple
<1>6. CASE N = {}
  <2>1. Used(h, L, <<>>) = {}
    BY <1>1, <1>6 DEF Used, Ends
  <2>2. n = 0
    BY <1>4, <2>1, FS_EmptySet
  <2> QED BY <1>4, <1>6, <2>2 DEF UsedAddrs
<1>7. CASE N # {}
  <2>1. <<>> \in N
    BY <1>1, <1>2, <1>7 DEF Closed
  <2>2. t.cnt[<<>>] = Wrap(n, w)
    BY <1>4, <2>1 DEF Sound
  <2>3. n # 0
    BY <1>1, <1>2, <1>4, <2>1, UsedIs, UsedCount
  <2>4. n < b => Wrap(n, w) = n
    BY <1>1, <1>5, WrapSmall
  <2>5. n >= b => n = a /\ a = b
    BY <1>4, <1>5
  <2>6. n >= b => Wrap(n, w) = 0
    BY <1>1, <1>5, <2>5, WrapFull
  <2>7. UsedAddrs(t) = IF Wrap(n, w) = 0 THEN a ELSE Wrap(n, w)
    BY <1>5, <1>7, <2>2 DEF UsedAddrs
  <2>8. UsedAddrs(t) = n
    BY <1>5, <2>3, <2>4, <2>5, <2>6, <2>7
  <2>9. Wrap(n, w) = 0 => n = a
    BY <1>5, <2>3, <2>4, <2>5
  <2> QED BY <1>4, <1>5, <2>2, <2>3, <2>8, <2>9
<1> QED BY <1>6, <1>7

\* The addresses that are not taken.
FreeHosts(t, q) == Hosts(t.height, q) \ Used(t.height, Leaves(t), q)

\* There are as many free addresses under a path as are missing to all of them.
LEMMA FreeCount ==
  ASSUME NEW t, Sound(t), NEW q \in Path(t.height)
  PROVE  /\ IsFiniteSet(FreeHosts(t, q))
         /\ Cardinality(FreeHosts(t, q)) =
              2^(t.height - Len(q)) - Cardinality(Used(t.height, Leaves(t), q))
         /\ Cardinality(FreeHosts(t, q)) \in Nat
<1> DEFINE h == t.height
           H == Hosts(h, q)
           U == Used(h, Leaves(t), q)
<1>1. h \in Nat
  BY DEF Sound
<1>2. IsFiniteSet(H) /\ IsFiniteSet(U) /\ U \subseteq H /\ Cardinality(H) = 2^(h - Len(q))
  BY <1>1, HostsCount, UsedCount DEF Used
<1>4. IsFiniteSet(H \ U) /\ Cardinality(H \ U) = Cardinality(H) - Cardinality(H \cap U)
  <2> HIDE DEF H, U
  <2> QED BY <1>2, FS_Difference
<1>5. H \cap U = U
  BY <1>2
<1>6. Cardinality(H \ U) \in Nat
  BY <1>4, FS_CardinalityType
<1> QED BY <1>2, <1>4, <1>5, <1>6 DEF FreeHosts

\* A free address is one that no leaf covers.
LEMMA FreeIs ==
  ASSUME NEW t, Sound(t)
  PROVE  { a \in Address(t.height) : Clear(Leaves(t), a) } = FreeHosts(t, <<>>)
<1> DEFINE h == t.height
           L == Leaves(t)
<1>1. h \in Nat /\ L \subseteq Path(h)
  BY DEF Sound, Closed, Leaves
<1>2. Hosts(h, <<>>) = Address(h) /\ Used(h, L, <<>>) = { a \in Address(h) : \E l \in L : Over(l, a) }
  BY <1>1, RootIs DEF Used
<1>3. ASSUME NEW a \in Address(h) PROVE Clear(L, a) <=> ~\E l \in L : Over(l, a)
  <2>1. a \in Path(h) /\ Len(a) = h
    BY <1>1, PathIs
  <2>2. \A l \in L : Overlap(a, l) <=> Over(l, a)
    <3> SUFFICES ASSUME NEW l \in L, Over(a, l) PROVE Over(l, a)
      BY <1>1, <2>1, HostsShared
    <3>1. Len(l) <= h /\ Len(a) <= Len(l) /\ Len(l) \in Nat
      BY <1>1, <2>1, PathIs DEF Over
    <3>2. a = l
      BY <1>1, <2>1, <3>1, OverOrder
    <3> QED BY <1>1, <3>2, OverOrder
  <2> QED BY <2>2 DEF Clear
<1> QED BY <1>2, <1>3 DEF FreeHosts

\* AllocateRandom's size is the number of free addresses, unless the tree is empty and
\* that number does not fit.
LEMMA FreeAddrsIs ==
  ASSUME NEW t, Sound(t), NEW bits \in Nat, t.height <= bits,
         t.nodes # {} \/ t.height < bits
  PROVE  FreeAddrs(t, bits) = Cardinality(FreeHosts(t, <<>>))
<1> DEFINE h == t.height
<1>1. h \in Nat
  BY DEF Sound
<1>2. PICK n \in Nat, a \in Nat \ {0}, b \in Nat \ {0} :
        n = UsedAddrs(t) /\ a = 2^h /\ b = 2^bits /\ a <= b /\ n <= a
  BY <1>1, UsedAddrsIs, PowerOfTwo, PowerMultiple
<1>3. a - n < b
  <2>1. CASE t.nodes # {}
    BY <1>2, <2>1, UsedAddrsIs
  <2>2. CASE h < bits
    <3>1. 2^(h + 1) = 2 * a /\ 2^(h + 1) <= b
      BY <1>1, <1>2, <2>2, PowerOfTwo, PowerMultiple
    <3> QED BY <1>2, <3>1
  <2> QED BY <2>1, <2>2
<1>4. FreeAddrs(t, bits) = Wrap(a - Wrap(n, bits), bits)
  BY <1>2 DEF FreeAddrs
<1>5. Wrap(a - Wrap(n, bits), bits) = Wrap(a - n, bits)
  <2>1. a \in Int /\ n \in Int
    OBVIOUS
  <2> QED BY <2>1, WrapSum, Zenon
<1>6. Wrap(a - n, bits) = a - n
  BY <1>2, <1>3, WrapSmall
<1>7. Cardinality(FreeHosts(t, <<>>)) = a - n
  <2>1. <<>> \in Path(h) /\ h - Len(<<>>) = h
    BY <1>1, RootIs
  <2> QED BY <1>2, <2>1, FreeCount, UsedAddrsIs
<1> QED BY <1>4, <1>5, <1>6, <1>7

-----------------------------------------------------------------------------
(* The order of addresses                                                  *)

Before(h, a, b) == \E i \in 1..h : a[i] < b[i] /\ \A j \in 1..i - 1 : a[j] = b[j]

\* The addresses of F under q that come before a.
Ahead(h, F, q, a) == { b \in F \cap Hosts(h, q) : Before(h, b, a) }

\* The addresses on the left come before those on the right.
LEMMA LeftFirst ==
  ASSUME NEW h \in Nat, NEW q \in Path(h), Len(q) < h,
         NEW a \in Hosts(h, Append(q, 0)), NEW b \in Hosts(h, Append(q, 1))
  PROVE  Before(h, a, b) /\ ~Before(h, b, a)
<1>1. PICK k \in 0..h - 1 : k = Len(q)
  BY PathIs
<1>2. a \in Path(h) /\ b \in Path(h) /\ Over(Append(q, 0), a) /\ Over(Append(q, 1), b)
  BY PathIs DEF Hosts
<1>3. a[k + 1] = 0 /\ b[k + 1] = 1 /\ Over(q, a) /\ Over(q, b)
  BY <1>1, <1>2, OverChild, ZeroOrOne
<1>4. \A i \in 1..k : a[i] = b[i]
  BY <1>1, <1>3 DEF Over
<1>5. Before(h, a, b)
  <2>1. k + 1 \in 1..h /\ a[k + 1] < b[k + 1] /\ \A j \in 1..(k + 1) - 1 : a[j] = b[j]
    BY <1>3, <1>4
  <2> QED BY <2>1 DEF Before
<1>6. ~Before(h, b, a)
  <2> SUFFICES ASSUME NEW i \in 1..h, b[i] < a[i], \A j \in 1..i - 1 : b[j] = a[j] PROVE FALSE
    BY DEF Before
  <2>1. \A j \in 1..h : a[j] \in Bit /\ b[j] \in Bit
    BY DEF Hosts, Address
  <2>2. ~(k + 1 \in 1..i - 1)
    BY <1>3
  <2>3. ~(i \in 1..k)
    BY <1>4, <2>1 DEF Bit
  <2>4. i = k + 1
    BY <2>2, <2>3
  <2> QED BY <1>3, <2>4
<1> QED BY <1>5, <1>6

\* Before an address in the right half come all those in the left.
LEMMA AheadSplit ==
  ASSUME NEW h \in Nat, NEW q \in Path(h), Len(q) < h, NEW F \in SUBSET Address(h), NEW a
  PROVE  /\ a \in Hosts(h, Append(q, 0)) => Ahead(h, F, q, a) = Ahead(h, F, Append(q, 0), a)
         /\ a \in Hosts(h, Append(q, 1)) =>
              Cardinality(Ahead(h, F, q, a)) =
                Cardinality(F \cap Hosts(h, Append(q, 0))) + Cardinality(Ahead(h, F, Append(q, 1), a))
<1>1. /\ Hosts(h, q) = Hosts(h, Append(q, 0)) \cup Hosts(h, Append(q, 1))
      /\ Hosts(h, Append(q, 0)) \cap Hosts(h, Append(q, 1)) = {}
  BY HostsSplit
<1>2. ASSUME a \in Hosts(h, Append(q, 0)) PROVE Ahead(h, F, q, a) = Ahead(h, F, Append(q, 0), a)
  BY <1>1, <1>2, LeftFirst DEF Ahead
<1>3. ASSUME a \in Hosts(h, Append(q, 1))
      PROVE  Cardinality(Ahead(h, F, q, a)) =
               Cardinality(F \cap Hosts(h, Append(q, 0))) + Cardinality(Ahead(h, F, Append(q, 1), a))
  <2>1. PICK A, B : A = F \cap Hosts(h, Append(q, 0)) /\ B = Ahead(h, F, Append(q, 1), a)
    OBVIOUS
  <2>2. Ahead(h, F, q, a) = A \cup B /\ A \cap B = {}
    BY <1>1, <1>3, <2>1, LeftFirst DEF Ahead
  <2>3. IsFiniteSet(A) /\ IsFiniteSet(B)
    <3>1. \A b \in Bit : IsFiniteSet(Hosts(h, Append(q, b)))
      BY ChildIs, HostsCount
    <3>2. A \subseteq Hosts(h, Append(q, 0)) /\ B \subseteq Hosts(h, Append(q, 1))
      BY <2>1 DEF Ahead
    <3> QED BY <3>1, <3>2, FS_Subset, ZeroOrOne
  <2>4. Cardinality(A \cap B) = 0
    BY <2>2, FS_EmptySet
  <2>5. Cardinality(A \cup B) = Cardinality(A) + Cardinality(B) - Cardinality(A \cap B)
    BY <2>3, FS_Union
  <2>6. Cardinality(A) \in Nat /\ Cardinality(B) \in Nat
    BY <2>3, FS_CardinalityType
  <2> QED BY <2>1, <2>2, <2>4, <2>5, <2>6
<1> QED BY <1>2, <1>3

\* No address comes before itself.
LEMMA NoneBeforeItself ==
  ASSUME NEW h \in Nat, NEW a \in Address(h)
  PROVE  ~Before(h, a, a)
<1>1. \A i \in 1..h : a[i] \in Int
  BY DEF Address, Bit
<1> QED BY <1>1 DEF Before

-----------------------------------------------------------------------------
(* The n-th address of a subnet                                            *)

\* A bit of a number does not see what is added far above it.
LEMMA BitBelow ==
  ASSUME NEW n \in Nat, NEW k \in Nat, k < n, NEW m \in Nat
  PROVE  ((2^n + m) \div 2^k) % 2 = (m \div 2^k) % 2
<1>1. PICK p \in Nat \ {0}, c \in Nat \ {0} : p = 2^k /\ 2^n = c * (2 * p)
  <2>1. PICK p \in Nat \ {0} : p = 2^k
    BY PowerOfTwo
  <2>2. k + 1 \in Nat /\ k + 1 <= n /\ 2^(k + 1) = 2 * p
    BY <2>1, PowerOfTwo
  <2>3. PICK c \in Nat \ {0} : 2^n = c * 2^(k + 1)
    BY <2>2, PowerMultiple
  <2> QED BY <2>1, <2>2, <2>3
<1>2. PICK d \in Int, r \in 0..p - 1 : m = d * p + r /\ d = m \div p
  BY Division
<1>3. 2^n + m = (c * 2 + d) * p + r
  <2>1. c * (2 * p) = (c * 2) * p
    BY <1>1
  <2>2. (c * 2 + d) * p = (c * 2) * p + d * p
    <3>1. c * 2 \in Int
      OBVIOUS
    <3> QED BY <3>1, Distributes
  <2>3. PICK x \in Int, y \in Int : x = (c * 2) * p /\ y = d * p
    OBVIOUS
  <2>4. 2^n = x /\ m = y + r /\ (c * 2 + d) * p = x + y
    BY <1>1, <1>2, <2>1, <2>2, <2>3
  <2>5. PICK z \in Int : z = 2^n
    BY <2>3, <2>4
  <2> QED BY <2>4, <2>5
<1>4. (2^n + m) \div p = c * 2 + d
  <2>1. c * 2 + d \in Int
    OBVIOUS
  <2> QED BY <1>3, <2>1, DivisionIs
<1>5. (c * 2 + d) % 2 = d % 2
  BY ModuloMultiple
<1> QED BY <1>1, <1>2, <1>4, <1>5

\* Host numbers addresses of the subnet.
LEMMA HostType ==
  ASSUME NEW t, t.height \in Nat, NEW q \in Path(t.height), NEW m \in Nat
  PROVE  Host(t, q, m) \in Hosts(t.height, q)
<1> DEFINE h == t.height
<1>1. Len(q) \in 0..h /\ \A i \in 1..Len(q) : q[i] \in Bit
  BY PathIs
<1>2. \A i \in 1..h : (m \div 2^(h - i)) % 2 \in Bit
  <2> SUFFICES ASSUME NEW i \in 1..h PROVE (m \div 2^(h - i)) % 2 \in Bit
    OBVIOUS
  <2>1. PICK p \in Nat \ {0} : p = 2^(h - i)
    <3>1. h - i \in Nat
      OBVIOUS
    <3> QED BY <3>1, PowerOfTwo
  <2>2. m \div p \in Int
    BY Division
  <2> QED BY <2>1, <2>2 DEF Bit
<1>3. Host(t, q, m) \in Address(h)
  BY <1>1, <1>2 DEF Host, Address
<1>4. Over(q, Host(t, q, m))
  <2>1. Len(Host(t, q, m)) = h
    BY <1>3, PathIs
  <2> QED BY <1>1, <2>1 DEF Host, Over
<1> QED BY <1>3, <1>4 DEF Hosts

\* The first half of the addresses is left.
LEMMA HostHalf ==
  ASSUME NEW t, t.height \in Nat, NEW q \in Path(t.height), NEW n \in Nat,
         Len(q) + n + 1 = t.height, NEW m \in Nat
  PROVE  /\ m < 2^n => Host(t, q, m) = Host(t, Append(q, 0), m)
         /\ m < 2^n => Host(t, q, 2^n + m) = Host(t, Append(q, 1), m)
<1> DEFINE h == t.height
<1>1. /\ Len(q) \in Nat /\ Len(q) < h
      /\ \A b \in Bit : /\ Len(Append(q, b)) = Len(q) + 1
                        /\ Append(q, b)[Len(q) + 1] = b
                        /\ \A i \in 1..Len(q) : Append(q, b)[i] = q[i]
  BY PathIs, ChildIs
<1>2. PICK p \in Nat \ {0} : p = 2^n
  BY PowerOfTwo
<1>3. ASSUME m < p PROVE (m \div 2^n) % 2 = 0 /\ ((2^n + m) \div 2^n) % 2 = 1
  <2>1. m \in 0..p - 1
    BY <1>3
  <2>2. (0 * p + m) \div p = 0 /\ (1 * p + m) \div p = 1
    <3>1. \A d \in Int : (d * p + m) \div p = d
      BY <2>1, DivisionIs
    <3> QED BY <3>1
  <2>3. 0 * p + m = m /\ 1 * p + m = p + m
    OBVIOUS
  <2> QED BY <1>2, <2>2, <2>3
<1>4. ASSUME m < p, NEW i \in 1..h
      PROVE  /\ Host(t, q, m)[i] = Host(t, Append(q, 0), m)[i]
             /\ Host(t, q, p + m)[i] = Host(t, Append(q, 1), m)[i]
  <2>1. CASE i <= Len(q)
    BY <1>1, <2>1, ZeroOrOne DEF Host
  <2>2. CASE i = Len(q) + 1
    <3>1. h - i = n /\ ~(i <= Len(q))
      BY <1>1, <2>2
    <3>2. /\ Host(t, q, m)[i] = (m \div 2^(h - i)) % 2
          /\ Host(t, q, p + m)[i] = ((p + m) \div 2^(h - i)) % 2
      BY <3>1 DEF Host
    <3>3. Host(t, Append(q, 0), m)[i] = 0 /\ Host(t, Append(q, 1), m)[i] = 1
      BY <1>1, <2>2, ZeroOrOne DEF Host
    <3> QED BY <1>2, <1>3, <1>4, <3>1, <3>2, <3>3
  <2>3. CASE i > Len(q) + 1
    <3>1. h - i \in Nat /\ h - i < n
      BY <1>1, <2>3
    <3>2. PICK k \in Nat : k = h - i /\ k < n
      BY <3>1
    <3>3. ((2^n + m) \div 2^k) % 2 = (m \div 2^k) % 2
      BY <3>2, BitBelow
    <3>4. ~(i <= Len(q)) /\ \A b \in Bit : ~(i <= Len(Append(q, b)))
      BY <1>1, <2>3
    <3>5. \A b \in Bit : Host(t, Append(q, b), m)[i] = (m \div 2^k) % 2
      BY <3>2, <3>4 DEF Host
    <3>6. Host(t, q, m)[i] = (m \div 2^k) % 2 /\ Host(t, q, p + m)[i] = ((p + m) \div 2^k) % 2
      BY <3>2, <3>4 DEF Host
    <3> QED BY <1>2, <3>3, <3>5, <3>6, ZeroOrOne
  <2> QED BY <1>1, <2>1, <2>2, <2>3
<1>5. ASSUME m < p
      PROVE  Host(t, q, m) = Host(t, Append(q, 0), m) /\ Host(t, q, p + m) = Host(t, Append(q, 1), m)
  <2>1. /\ Host(t, q, m) = [i \in 1..h |-> Host(t, q, m)[i]]
        /\ Host(t, Append(q, 0), m) = [i \in 1..h |-> Host(t, Append(q, 0), m)[i]]
        /\ Host(t, q, p + m) = [i \in 1..h |-> Host(t, q, p + m)[i]]
        /\ Host(t, Append(q, 1), m) = [i \in 1..h |-> Host(t, Append(q, 1), m)[i]]
    BY DEF Host
  <2>2. \A i \in 1..h : /\ Host(t, q, m)[i] = Host(t, Append(q, 0), m)[i]
                        /\ Host(t, q, p + m)[i] = Host(t, Append(q, 1), m)[i]
    BY <1>4, <1>5
  <2>3. PICK a, b, c, d : /\ a = Host(t, q, m) /\ b = Host(t, Append(q, 0), m)
                          /\ c = Host(t, q, p + m) /\ d = Host(t, Append(q, 1), m)
    OBVIOUS
  <2> QED BY <2>1, <2>2, <2>3
<1> QED BY <1>2, <1>5

\* Host numbers the addresses under q in their order.
LEMMA HostIs ==
  ASSUME NEW h \in Nat, NEW t, t.height = h, NEW q \in Path(h), NEW m \in 0..2^(h - Len(q)) - 1
  PROVE  Cardinality(Ahead(h, Address(h), q, Host(t, q, m))) = m
<1> DEFINE F == Address(h)
           S == { n \in 0..h : \A p \in Path(h) : Len(p) = h - n =>
                    \A k \in 0..2^n - 1 : Cardinality(Ahead(h, F, p, Host(t, p, k))) = k }
<1>0. F \in SUBSET Address(h)
  OBVIOUS
<1>1. 0 \in S
  <2> SUFFICES ASSUME NEW p \in Path(h), Len(p) = h, NEW k \in 0..2^0 - 1
               PROVE  Cardinality(Ahead(h, F, p, Host(t, p, k))) = k
    OBVIOUS
  <2>1. k = 0
    BY PowerZero
  <2>2. p \in Address(h)
    BY PathIs
  <2>3. Hosts(h, p) = {p}
    BY <2>2, PathIs, OverOrder DEF Hosts
  <2>4. Host(t, p, k) = p
    BY <2>1, <2>3, HostType
  <2>5. Ahead(h, F, p, Host(t, p, k)) = {}
    BY <2>2, <2>3, <2>4, NoneBeforeItself DEF Ahead
  <2> QED BY <2>1, <2>5, FS_EmptySet
<1>2. ASSUME NEW n \in 0..h - 1, n \in S PROVE n + 1 \in S
  <2> SUFFICES ASSUME NEW p \in Path(h), Len(p) = h - (n + 1), NEW k \in 0..2^(n + 1) - 1
               PROVE  Cardinality(Ahead(h, F, p, Host(t, p, k))) = k
    OBVIOUS
  <2>1. Len(p) < h /\ Len(p) + n + 1 = h /\ n \in Nat
    OBVIOUS
  <2>2. PICK w \in Nat \ {0} : w = 2^n /\ 2^(n + 1) = 2 * w
    BY PowerOfTwo
  <2>3. \A b \in Bit : Append(p, b) \in Path(h) /\ Len(Append(p, b)) = h - n
    BY <2>1, ChildIs
  <2>4. CASE k < w
    <3>1. Host(t, p, k) = Host(t, Append(p, 0), k)
      BY <2>1, <2>2, <2>4, HostHalf
    <3>2. Host(t, p, k) \in Hosts(h, Append(p, 0))
      BY <2>3, <3>1, HostType, ZeroOrOne
    <3>3. Ahead(h, F, p, Host(t, p, k)) = Ahead(h, F, Append(p, 0), Host(t, p, k))
      BY <1>0, <2>1, <3>2, AheadSplit
    <3>4. Cardinality(Ahead(h, F, Append(p, 0), Host(t, Append(p, 0), k))) = k
      <4>1. k \in 0..2^n - 1
        BY <2>2, <2>4
      <4> QED BY <1>2, <2>3, <4>1, ZeroOrOne
    <3> QED BY <3>1, <3>3, <3>4
  <2>5. CASE k >= w
    <3>1. PICK j \in 0..w - 1 : k = w + j
      <4>1. k - w \in 0..w - 1 /\ k = w + (k - w)
        BY <2>2, <2>5
      <4> QED BY <4>1
    <3>2. Host(t, p, k) = Host(t, Append(p, 1), j)
      BY <2>1, <2>2, <3>1, HostHalf
    <3>3. Host(t, p, k) \in Hosts(h, Append(p, 1))
      BY <2>3, <3>2, HostType, ZeroOrOne
    <3>4. Cardinality(Ahead(h, F, p, Host(t, p, k))) =
            Cardinality(F \cap Hosts(h, Append(p, 0)))
            + Cardinality(Ahead(h, F, Append(p, 1), Host(t, p, k)))
      BY <1>0, <2>1, <3>3, AheadSplit
    <3>5. Cardinality(Ahead(h, F, Append(p, 1), Host(t, Append(p, 1), j))) = j
      BY <1>2, <2>2, <2>3, ZeroOrOne
    <3>6. Cardinality(F \cap Hosts(h, Append(p, 0))) = w
      <4>1. F \cap Hosts(h, Append(p, 0)) = Hosts(h, Append(p, 0))
        BY DEF Hosts
      <4>2. h - (h - n) = n
        OBVIOUS
      <4> QED BY <2>2, <2>3, <4>1, <4>2, HostsCount, ZeroOrOne
    <3> QED BY <3>1, <3>2, <3>4, <3>5, <3>6
  <2> QED BY <2>2, <2>4, <2>5
<1>3. \A n \in 0..h : n \in S
  <2> HIDE DEF S
  <2> QED BY <1>1, <1>2, NatsUpTo
<1>4. h - Len(q) \in 0..h /\ Len(q) = h - (h - Len(q))
  BY PathIs
<1> QED BY <1>3, <1>4

-----------------------------------------------------------------------------
(* The walk to the n-th free address                                       *)

\* One level of the walk, on top of what f does a level below.
Turn(t, q, f) ==
  [m \in 0..2^t.height - 1 |->
     CASE q \notin t.nodes -> Host(t, q, m)
       [] q \in t.nodes /\ Len(q) = t.height -> q
       [] q \in t.nodes /\ Len(q) < t.height /\ m < LeftFree(t, q) -> f[Append(q, 0)][m]
       [] OTHER -> f[Append(q, 1)][Wrap(m - LeftFree(t, q), t.width)]]

IsWalk(t, f) == f = [q \in Path(t.height) |-> Turn(t, q, f)]

\* A level of the walk looks no further than the next one.
LEMMA TurnIs ==
  ASSUME NEW t, NEW q \in Path(t.height), NEW f, NEW g,
         t.height \in Nat,
         \A b \in Bit : Len(q) < t.height => f[Append(q, b)] = g[Append(q, b)]
  PROVE  Turn(t, q, f) = Turn(t, q, g)
<1>1. Len(q) \in 0..t.height
  BY PathIs
<1>2. CASE q \notin t.nodes \/ Len(q) = t.height
  BY <1>2 DEF Turn
<1>3. CASE q \in t.nodes /\ Len(q) < t.height
  <2>1. f[Append(q, 0)] = g[Append(q, 0)] /\ f[Append(q, 1)] = g[Append(q, 1)]
    BY <1>3, ZeroOrOne
  <2> QED BY <2>1 DEF Turn
<1> QED BY <1>1, <1>2, <1>3

\* The walk is a function: every level has one, built on that of the level below.
LEMMA WalkExists ==
  ASSUME NEW t, t.height \in Nat
  PROVE  \E f : IsWalk(t, f)
<1> DEFINE h == t.height
           Step(g) == [q \in Path(h) |-> Turn(t, q, g)]
           S == { n \in 0..h : \E f : /\ f = [q \in Path(h) |-> f[q]]
                                      /\ \A q \in Path(h) : Len(q) >= h - n => f[q] = Turn(t, q, f) }
<1>1. 0 \in S
  <2> DEFINE f == Step(<<>>)
  <2>1. f = [q \in Path(h) |-> f[q]] /\ \A q \in Path(h) : f[q] = Turn(t, q, <<>>)
    OBVIOUS
  <2>2. ASSUME NEW q \in Path(h), Len(q) >= h PROVE Turn(t, q, <<>>) = Turn(t, q, f)
    <3>1. ~(Len(q) < h)
      BY <2>2, PathIs
    <3> HIDE DEF f
    <3> QED BY <3>1, TurnIs
  <2>3. \A q \in Path(h) : Len(q) >= h - 0 => f[q] = Turn(t, q, f)
    <3>1. h - 0 = h
      OBVIOUS
    <3> HIDE DEF f
    <3> QED BY <2>1, <2>2, <3>1
  <2> HIDE DEF f
  <2> QED BY <2>1, <2>3
<1>2. ASSUME NEW n \in 0..h - 1, n \in S PROVE n + 1 \in S
  <2>1. PICK f : /\ f = [q \in Path(h) |-> f[q]]
                 /\ \A q \in Path(h) : Len(q) >= h - n => f[q] = Turn(t, q, f)
    BY <1>2
  <2> DEFINE g == Step(f)
  <2>2. g = [q \in Path(h) |-> g[q]] /\ \A q \in Path(h) : g[q] = Turn(t, q, f)
    OBVIOUS
  <2>3. ASSUME NEW q \in Path(h), Len(q) >= h - (n + 1) PROVE g[q] = Turn(t, q, g)
    <3>1. ASSUME NEW b \in Bit, Len(q) < h PROVE f[Append(q, b)] = g[Append(q, b)]
      <4>1. Append(q, b) \in Path(h) /\ Len(Append(q, b)) = Len(q) + 1
        BY <3>1, ChildIs
      <4>2. Len(q) \in Nat
        BY PathIs
      <4>3. Len(Append(q, b)) >= h - n
        BY <2>3, <4>1, <4>2
      <4> HIDE DEF g
      <4> QED BY <2>1, <2>2, <4>1, <4>3
    <3>2. Turn(t, q, f) = Turn(t, q, g)
      <4> HIDE DEF g
      <4> QED BY <3>1, TurnIs
    <3> HIDE DEF g
    <3> QED BY <2>2, <3>2
  <2>4. n + 1 \in 0..h
    OBVIOUS
  <2> HIDE DEF g
  <2> QED BY <2>2, <2>3, <2>4
<1>3. \A n \in 0..h : n \in S
  <2> HIDE DEF S
  <2> QED BY <1>1, <1>2, NatsUpTo
<1>4. PICK f : /\ f = [q \in Path(h) |-> f[q]]
               /\ \A q \in Path(h) : Len(q) >= h - h => f[q] = Turn(t, q, f)
  BY <1>3
<1>5. \A q \in Path(h) : f[q] = Turn(t, q, f)
  <2>1. \A q \in Path(h) : Len(q) >= h - h
    BY PathIs
  <2> QED BY <1>4, <2>1
<1>6. f = [q \in Path(h) |-> Turn(t, q, f)]
  BY <1>4, <1>5
<1> QED BY <1>6 DEF IsWalk

\* NthFree is the walk from the root.
LEMMA NthFreeIs ==
  ASSUME NEW t, t.height \in Nat, NEW n
  PROVE  \E f : IsWalk(t, f) /\ NthFree(t, n) = f[<<>>][n]
<1> DEFINE f == CHOOSE f : f = [q \in Path(t.height) |-> Turn(t, q, f)]
<1>1. f = [q \in Path(t.height) |-> Turn(t, q, f)]
  BY WalkExists, Zenon DEF IsWalk
<1>2. NthFree(t, n) = f[<<>>][n]
  BY Zenon DEF NthFree, Turn
<1> QED BY <1>1, <1>2, Zenon DEF IsWalk

\* The counters tell how many addresses are free on the left.
LEMMA LeftFreeIs ==
  ASSUME NEW t, Sound(t), NEW q \in t.nodes, ~IsLeaf(t.nodes, q), Len(q) < t.height
  PROVE  LeftFree(t, q) = Cardinality(FreeHosts(t, Append(q, 0)))
<1> DEFINE h == t.height
           w == t.width
           N == t.nodes
           L == Leaves(t)
           l == Append(q, 0)
<1>1. /\ h \in Nat /\ w \in Nat /\ h <= w /\ Closed(h, N) /\ q \in Path(h)
      /\ L = Ends(N) /\ L \subseteq Path(h) /\ L \subseteq N
  BY DEF Sound, Closed, Leaves, Ends
<1>2. l \in Path(h) /\ Len(l) = Len(q) + 1 /\ Len(q) \in Nat
  BY <1>1, ChildIs, PathIs, ZeroOrOne
<1>3. PICK k \in Nat : k = h - Len(l) /\ k = h - Len(q) - 1 /\ k < w
  BY <1>1, <1>2
<1>4. PICK a \in Nat \ {0} : a = 2^k /\ a < 2^w /\ 2^w \in Nat
  <2>1. PICK a \in Nat \ {0}, b \in Nat \ {0} : a = 2^k /\ b = 2^w
    BY <1>1, PowerOfTwo
  <2>2. 2^(k + 1) = 2 * a
    BY <2>1, PowerOfTwo
  <2>3. 2^(k + 1) <= b
    <3>1. k + 1 \in Nat /\ k + 1 <= w
      BY <1>1, <1>3
    <3> QED BY <1>1, <2>1, <3>1, PowerMultiple
  <2> QED BY <2>1, <2>2, <2>3
<1>5. PICK u \in 0..a : u = Cardinality(Used(h, L, l))
  BY <1>1, <1>2, <1>3, <1>4, UsedCount
<1>6. Cardinality(FreeHosts(t, l)) = a - u
  BY <1>1, <1>2, <1>3, <1>4, <1>5, FreeCount
<1>7. (IF l \in N THEN t.cnt[l] ELSE 0) = Wrap(u, w)
  <2>1. CASE l \in N
    BY <1>5, <2>1 DEF Sound
  <2>2. CASE l \notin N
    <3>1. \A k1 \in L : ~Over(k1, l)
      <4> SUFFICES ASSUME NEW k1 \in L, Over(k1, l) PROVE FALSE
        OBVIOUS
      <4>1. k1 \in Path(h) /\ k1 # l
        BY <1>1, <2>2
      <4>2. Over(k1, q)
        BY <1>1, <4>1, OverChild, ZeroOrOne
      <4>3. q = k1
        BY <1>1, <4>2, LeafEnds
      <4> QED BY <1>1, <4>3 DEF Ends
    <3>2. Used(h, L, l) = {}
      BY <1>1, <1>2, <2>2, <3>1, UsedIs
    <3>3. u = 0
      BY <1>5, <3>2, FS_EmptySet
    <3>4. Wrap(0, w) = 0
      BY <1>1, <1>4, WrapSmall
    <3> QED BY <2>2, <3>3, <3>4
  <2> QED BY <2>1, <2>2
<1>8. LeftFree(t, q) = Wrap(a - Wrap(u, w), w)
  BY <1>3, <1>4, <1>7, Zenon DEF LeftFree
<1>9. Wrap(a - Wrap(u, w), w) = Wrap(a - u, w)
  <2>1. a \in Int /\ u \in Int /\ w \in Nat
    BY <1>1
  <2> QED BY <2>1, WrapSum, Zenon
<1>10. Wrap(a - u, w) = a - u
  <2>1. a - u \in 0..2^w - 1
    BY <1>4
  <2> QED BY <1>1, <2>1, WrapSmall
<1> QED BY <1>6, <1>8, <1>9, <1>10

\* What is free under a path is free in one of its halves.
LEMMA FreeSplit ==
  ASSUME NEW t, Sound(t), NEW q \in Path(t.height)
  PROVE  /\ FreeHosts(t, q) = FreeHosts(t, <<>>) \cap Hosts(t.height, q)
         /\ FreeHosts(t, <<>>) \in SUBSET Address(t.height)
         /\ Len(q) < t.height =>
              Cardinality(FreeHosts(t, q)) = Cardinality(FreeHosts(t, Append(q, 0)))
                                             + Cardinality(FreeHosts(t, Append(q, 1)))
<1> DEFINE h == t.height
           L == Leaves(t)
<1>1. h \in Nat
  BY DEF Sound
<1>2. Hosts(h, <<>>) = Address(h) /\ Hosts(h, q) \subseteq Address(h)
  BY <1>1, RootIs DEF Hosts
<1>3. FreeHosts(t, q) = FreeHosts(t, <<>>) \cap Hosts(h, q)
  BY <1>2 DEF FreeHosts, Used
<1>4. FreeHosts(t, <<>>) \in SUBSET Address(h)
  BY <1>2 DEF FreeHosts
<1>5. ASSUME Len(q) < h
      PROVE  Cardinality(FreeHosts(t, q)) = Cardinality(FreeHosts(t, Append(q, 0)))
                                            + Cardinality(FreeHosts(t, Append(q, 1)))
  <2>1. Append(q, 0) \in Path(h) /\ Append(q, 1) \in Path(h)
    BY <1>1, <1>5, ChildIs, ZeroOrOne
  <2>2. PICK A, B : A = FreeHosts(t, Append(q, 0)) /\ B = FreeHosts(t, Append(q, 1))
    OBVIOUS
  <2>3. FreeHosts(t, q) = A \cup B /\ A \cap B = {}
    <3>1. /\ Hosts(h, q) = Hosts(h, Append(q, 0)) \cup Hosts(h, Append(q, 1))
          /\ Hosts(h, Append(q, 0)) \cap Hosts(h, Append(q, 1)) = {}
      BY <1>1, <1>5, HostsSplit
    <3> QED BY <2>2, <3>1 DEF FreeHosts, Used
  <2>4. IsFiniteSet(A) /\ IsFiniteSet(B) /\ Cardinality(A) \in Nat /\ Cardinality(B) \in Nat
    BY <2>1, <2>2, FreeCount
  <2>5. Cardinality(A \cap B) = 0
    BY <2>3, FS_EmptySet
  <2>6. Cardinality(A \cup B) = Cardinality(A) + Cardinality(B) - Cardinality(A \cap B)
    BY <2>4, FS_Union
  <2> QED BY <2>2, <2>3, <2>4, <2>5, <2>6
<1> QED BY <1>3, <1>4, <1>5

\* With m free addresses to skip the walk ends at a free address that has m before it.
LEMMA WalkFinds ==
  ASSUME NEW t, Sound(t), NEW f, IsWalk(t, f),
         NEW q \in Path(t.height), NEW m \in Nat, m < Cardinality(FreeHosts(t, q))
  PROVE  /\ f[q][m] \in FreeHosts(t, q)
         /\ Cardinality(Ahead(t.height, FreeHosts(t, <<>>), q, f[q][m])) = m
<1> DEFINE h == t.height
           w == t.width
           N == t.nodes
           L == Leaves(t)
           F == FreeHosts(t, <<>>)
           Found(p, k) == /\ f[p][k] \in FreeHosts(t, p)
                          /\ Cardinality(Ahead(h, F, p, f[p][k])) = k
           S == { n \in 0..h : \A p \in Path(h) : Len(p) = h - n =>
                    \A k \in Nat : k < Cardinality(FreeHosts(t, p)) => Found(p, k) }
<1>1. /\ h \in Nat /\ w \in Nat /\ h <= w /\ Closed(h, N) /\ N \in SUBSET Path(h)
      /\ L = Ends(N) /\ L \subseteq Path(h) /\ L \subseteq N
  BY DEF Sound, Closed, Leaves, Ends
<1>2. F \in SUBSET Address(h) /\ \A p \in Path(h) : FreeHosts(t, p) = F \cap Hosts(h, p)
  <2>1. <<>> \in Path(h)
    BY <1>1, RootIs
  <2> QED BY <2>1, FreeSplit
<1>3. \A p \in Path(h) : f[p] = Turn(t, p, f)
  BY DEF IsWalk
<1>4. PICK H \in Nat \ {0}, W \in Nat \ {0} : H = 2^h /\ W = 2^w /\ H <= W
  BY <1>1, PowerOfTwo, PowerMultiple
<1>5. ASSUME NEW p \in Path(h), NEW k \in Nat, k < Cardinality(FreeHosts(t, p))
      PROVE  /\ k \in 0..H - 1 /\ k \in 0..2^(h - Len(p)) - 1
             /\ \A l \in L : ~Over(l, p)
  <2>1. PICK c \in Nat, a \in Nat \ {0} :
          c = Cardinality(Used(h, L, p)) /\ a = 2^(h - Len(p)) /\ a <= H
    <3>1. h - Len(p) \in Nat /\ h - Len(p) <= h
      BY <1>1, PathIs
    <3>2. 2^(h - Len(p)) \in Nat \ {0}
      BY <3>1, PowerOfTwo
    <3>3. 2^(h - Len(p)) <= 2^h
      BY <1>1, <3>1, PowerMultiple
    <3>4. Cardinality(Used(h, L, p)) \in Nat
      BY <1>1, UsedCount
    <3> QED BY <1>4, <3>2, <3>3, <3>4
  <2>2. Cardinality(FreeHosts(t, p)) = a - c
    BY <2>1, FreeCount
  <2>3. \A l \in L : ~Over(l, p)
    <3> SUFFICES ASSUME NEW l \in L, Over(l, p) PROVE FALSE
      OBVIOUS
    <3>1. Used(h, L, p) = Hosts(h, p)
      BY <1>1, UsedIs
    <3>2. c = a
      BY <1>1, <2>1, <3>1, HostsCount
    <3> QED BY <1>5, <2>2, <3>2
  <2> QED BY <1>5, <2>1, <2>2, <2>3
<1>6. ASSUME NEW p \in Path(h), p \notin N, NEW k \in Nat, k < Cardinality(FreeHosts(t, p))
      PROVE  Found(p, k)
  <2>1. k \in 0..H - 1 /\ k \in 0..2^(h - Len(p)) - 1 /\ \A l \in L : ~Over(l, p)
    BY <1>5, <1>6
  <2>2. f[p][k] = Host(t, p, k)
    BY <1>3, <1>4, <1>6, <2>1 DEF Turn
  <2>3. FreeHosts(t, p) = Hosts(h, p)
    BY <1>1, <1>6, <2>1, UsedIs DEF FreeHosts
  <2>4. Host(t, p, k) \in Hosts(h, p)
    BY <1>1, HostType
  <2>5. F \cap Hosts(h, p) = Address(h) \cap Hosts(h, p)
    <3> HIDE DEF F
    <3> QED BY <1>2, <2>3 DEF Hosts
  <2>6. Ahead(h, F, p, Host(t, p, k)) = Ahead(h, Address(h), p, Host(t, p, k))
    <3> HIDE DEF F
    <3> QED BY <2>5 DEF Ahead
  <2>7. Cardinality(Ahead(h, Address(h), p, Host(t, p, k))) = k
    BY <1>1, <2>1, HostIs
  <2> QED BY <2>2, <2>3, <2>4, <2>6, <2>7
<1>7. 0 \in S
  <2> SUFFICES ASSUME NEW p \in Path(h), Len(p) = h, NEW k \in Nat, k < Cardinality(FreeHosts(t, p))
               PROVE  Found(p, k)
    BY <1>1
  <2>1. p \notin N
    <3> SUFFICES ASSUME p \in N PROVE FALSE
      OBVIOUS
    <3>1. PICK l \in Ends(N) : Over(p, l)
      BY <1>1, LeafBelow
    <3>2. l = p
      <4>1. l \in Path(h) /\ Len(l) <= h /\ Len(p) <= Len(l) /\ Len(l) \in Nat
        BY <1>1, <3>1, PathIs DEF Over
      <4> QED BY <1>1, <3>1, <4>1, OverOrder
    <3> QED BY <1>1, <1>5, <3>1, <3>2
  <2> QED BY <1>6, <2>1
<1>8. ASSUME NEW n \in 0..h - 1, n \in S PROVE n + 1 \in S
  <2> SUFFICES ASSUME NEW p \in Path(h), Len(p) = h - (n + 1),
                      NEW k \in Nat, k < Cardinality(FreeHosts(t, p))
               PROVE  Found(p, k)
    BY <1>1
  <2>1. Len(p) < h /\ k \in 0..H - 1 /\ \A l \in L : ~Over(l, p)
    BY <1>1, <1>5
  <2>2. ASSUME NEW b \in Bit
        PROVE  /\ Append(p, b) \in Path(h)
               /\ \A j \in Nat : j < Cardinality(FreeHosts(t, Append(p, b))) => Found(Append(p, b), j)
               /\ FreeHosts(t, Append(p, b)) \subseteq FreeHosts(t, p)
               /\ FreeHosts(t, Append(p, b)) \subseteq Hosts(h, Append(p, b))
    <3>1. Append(p, b) \in Path(h) /\ Len(Append(p, b)) = h - n
      BY <1>1, <2>1, ChildIs
    <3>2. Hosts(h, Append(p, b)) \subseteq Hosts(h, p)
      BY <1>1, <2>1, HostsSplit, ZeroOrOne
    <3>3. FreeHosts(t, Append(p, b)) \subseteq FreeHosts(t, p)
      BY <1>2, <3>1, <3>2
    <3>4. FreeHosts(t, Append(p, b)) \subseteq Hosts(h, Append(p, b))
      BY DEF FreeHosts
    <3> QED BY <1>8, <3>1, <3>3, <3>4
  <2>3. CASE p \notin N
    BY <1>6, <2>3
  <2>4. CASE p \in N
    <3>1. ~IsLeaf(N, p)
      BY <1>1, <2>1, <2>4, OverOrder DEF Ends
    <3>2. PICK c \in Nat : c = LeftFree(t, p) /\ c = Cardinality(FreeHosts(t, Append(p, 0)))
      <4>1. LeftFree(t, p) = Cardinality(FreeHosts(t, Append(p, 0)))
        BY <2>1, <2>4, <3>1, LeftFreeIs
      <4> QED BY <2>2, <4>1, FreeCount, ZeroOrOne
    <3>3. Cardinality(FreeHosts(t, p)) = c + Cardinality(FreeHosts(t, Append(p, 1)))
      BY <2>1, <3>2, FreeSplit
    <3>4. CASE k < c
      <4>1. f[p][k] = f[Append(p, 0)][k]
        <5>1. ~(Len(p) = h)
          BY <1>1, <2>1
        <5>2. k \in 0..2^t.height - 1 /\ k < LeftFree(t, p) /\ Len(p) < t.height
          BY <1>4, <2>1, <3>2, <3>4
        <5>3. Turn(t, p, f)[k] = f[Append(p, 0)][k]
          BY <2>4, <5>1, <5>2 DEF Turn
        <5> QED BY <1>3, <5>3
      <4>2. Found(Append(p, 0), k)
        BY <2>2, <3>2, <3>4, ZeroOrOne
      <4>3. f[p][k] \in Hosts(h, Append(p, 0)) /\ f[p][k] \in FreeHosts(t, p)
        BY <2>2, <4>1, <4>2, ZeroOrOne
      <4>4. Ahead(h, F, p, f[p][k]) = Ahead(h, F, Append(p, 0), f[p][k])
        <5>1. PICK x : x = f[p][k]
          OBVIOUS
        <5>2. h \in Nat /\ Len(p) < h /\ F \in SUBSET Address(h) /\ x \in Hosts(h, Append(p, 0))
          BY <1>1, <1>2, <2>1, <4>3, <5>1
        <5> HIDE DEF F
        <5> QED BY <5>1, <5>2, AheadSplit
      <4> QED BY <4>1, <4>2, <4>3, <4>4
    <3>5. CASE k >= c
      <4>1. PICK j \in Nat : k = c + j /\ j < Cardinality(FreeHosts(t, Append(p, 1)))
        <5>1. k - c \in Nat /\ k = c + (k - c)
          BY <3>5
        <5>2. PICK r \in Nat : r = Cardinality(FreeHosts(t, Append(p, 1)))
          BY <2>2, FreeCount, ZeroOrOne
        <5>3. k - c < r
          BY <3>3, <5>1, <5>2
        <5> QED BY <5>1, <5>2, <5>3
      <4>2. Wrap(k - c, w) = j
        <5>1. k - c = j /\ j \in 0..2^w - 1
          <6>1. k - c = j /\ j <= k
            BY <4>1
          <6>2. k < W /\ W = 2^w
            BY <1>4, <2>1
          <6> QED BY <6>1, <6>2
        <5>2. w \in Nat
          BY <1>1
        <5>3. Wrap(j, w) = j
          BY <5>1, <5>2, WrapSmall, Zenon
        <5> QED BY <5>1, <5>3
      <4>3. f[p][k] = f[Append(p, 1)][j]
        <5>1. ~(Len(p) = h) /\ ~(k < c)
          BY <1>1, <2>1, <3>5
        <5>2. k \in 0..2^t.height - 1 /\ ~(k < LeftFree(t, p))
          BY <1>4, <2>1, <3>2, <5>1
        <5>3. Turn(t, p, f)[k] = f[Append(p, 1)][Wrap(k - LeftFree(t, p), w)]
          <6> PICK i : i = k
            OBVIOUS
          <6>1. i \in 0..2^t.height - 1 /\ p \in N /\ Len(p) # h /\ ~(i < LeftFree(t, p))
            BY <2>4, <5>1, <5>2
          <6>2. Turn(t, p, f)[i] = f[Append(p, 1)][Wrap(i - LeftFree(t, p), w)]
            BY <6>1, Zenon DEF Turn
          <6> QED BY <6>2
        <5> QED BY <1>3, <3>2, <4>2, <5>3
      <4>4. Found(Append(p, 1), j)
        BY <2>2, <4>1, ZeroOrOne
      <4>5. f[p][k] \in Hosts(h, Append(p, 1)) /\ f[p][k] \in FreeHosts(t, p)
        BY <2>2, <4>3, <4>4, ZeroOrOne
      <4>6. Cardinality(Ahead(h, F, p, f[p][k])) =
              Cardinality(F \cap Hosts(h, Append(p, 0)))
              + Cardinality(Ahead(h, F, Append(p, 1), f[p][k]))
        <5>1. PICK x : x = f[p][k]
          OBVIOUS
        <5>2. h \in Nat /\ Len(p) < h /\ F \in SUBSET Address(h) /\ x \in Hosts(h, Append(p, 1))
          BY <1>1, <1>2, <2>1, <4>5, <5>1
        <5> HIDE DEF F
        <5> QED BY <5>1, <5>2, AheadSplit
      <4>7. Cardinality(F \cap Hosts(h, Append(p, 0))) = c
        BY <1>2, <2>2, <3>2, ZeroOrOne
      <4> HIDE DEF F
      <4> QED BY <4>1, <4>3, <4>4, <4>5, <4>6, <4>7
    <3> QED BY <2>2, <3>2, <3>4, <3>5
  <2> QED BY <2>3, <2>4
<1>9. \A n \in 0..h : n \in S
  <2> HIDE DEF S
  <2> QED BY <1>1, <1>7, <1>8, NatsUpTo
<1>10. h - Len(q) \in 0..h /\ Len(q) = h - (h - Len(q))
  BY <1>1, PathIs
<1> QED BY <1>9, <1>10

\* What AllocateRandom draws: the free address with n free addresses before it.
LEMMA NthFreeFinds ==
  ASSUME NEW t, Sound(t), NEW n \in Nat, n < Cardinality(FreeHosts(t, <<>>))
  PROVE  /\ NthFree(t, n) \in FreeHosts(t, <<>>)
         /\ Cardinality({ b \in FreeHosts(t, <<>>) : Before(t.height, b, NthFree(t, n)) }) = n
<1> DEFINE h == t.height
           F == FreeHosts(t, <<>>)
<1>1. h \in Nat
  BY DEF Sound
<1>2. <<>> \in Path(h)
  BY <1>1, RootIs
<1>3. PICK f : IsWalk(t, f) /\ NthFree(t, n) = f[<<>>][n]
  BY <1>1, NthFreeIs
<1>4. f[<<>>][n] \in F /\ Cardinality(Ahead(h, F, <<>>, f[<<>>][n])) = n
  BY <1>2, <1>3, WalkFinds
<1>5. F = F \cap Hosts(h, <<>>)
  BY DEF FreeHosts
<1>6. Ahead(h, F, <<>>, f[<<>>][n]) = { b \in F : Before(h, b, f[<<>>][n]) }
  <2> HIDE DEF F
  <2> QED BY <1>5 DEF Ahead
<1> QED BY <1>3, <1>4, <1>6

-----------------------------------------------------------------------------
(* The new tree                                                            *)

\* Two hosts are clear of each other.
LEMMA HostsAreApart ==
  ASSUME NEW h \in Nat, NEW H \in SUBSET Address(h), NEW a \in Address(h), a \notin H
  PROVE  Clear(H, a)
<1> SUFFICES ASSUME NEW b \in H, Overlap(a, b) PROVE FALSE
  BY DEF Clear
<1>1. a \in Path(h) /\ b \in Path(h) /\ Len(a) = h /\ Len(b) = h
  BY PathIs
<1>2. Over(a, b) \/ Over(b, a)
  BY <1>1, HostsShared
<1> QED BY <1>1, <1>2, OverOrder

\* Hosts can be counted.
LEMMA HostsFinite ==
  ASSUME NEW h \in Nat, NEW F \in SUBSET Address(h)
  PROVE  IsFiniteSet(F)
<1>1. IsFiniteSet(Address(h))
  BY RootIs, HostsCount
<1> QED BY <1>1, FS_Subset

\* The tree that the hosts s have been put into, g doing it for smaller sets.
PutAll(h, w, s, g) ==
  IF s = {} THEN NewTrie(h, w)
  ELSE LET x == CHOOSE x \in s : TRUE IN Inserted(g[s \ {x}], x)

IsPutAll(h, w, F, g) == g = [s \in SUBSET F |-> PutAll(h, w, s, g)]

\* There is such a function, built for larger and larger sets.
LEMMA PutAllExists ==
  ASSUME NEW h, NEW w, NEW F, IsFiniteSet(F)
  PROVE  \E g : IsPutAll(h, w, F, g)
<1> PICK N \in Nat : N = Cardinality(F)
  BY FS_CardinalityType
<1> DEFINE Step(g) == [s \in SUBSET F |-> PutAll(h, w, s, g)]
           S == { n \in 0..N : \E g : /\ g = [s \in SUBSET F |-> g[s]]
                                      /\ \A s \in SUBSET F : Cardinality(s) <= n => g[s] = PutAll(h, w, s, g) }
<1>1. \A s \in SUBSET F : /\ IsFiniteSet(s) /\ Cardinality(s) \in 0..N
                          /\ Cardinality(s) = 0 <=> s = {}
                          /\ \A x \in s : Cardinality(s \ {x}) = Cardinality(s) - 1
  <2> SUFFICES ASSUME NEW s \in SUBSET F
               PROVE  /\ IsFiniteSet(s) /\ Cardinality(s) \in 0..N
                      /\ Cardinality(s) = 0 <=> s = {}
                      /\ \A x \in s : Cardinality(s \ {x}) = Cardinality(s) - 1
    OBVIOUS
  <2>1. IsFiniteSet(s) /\ Cardinality(s) <= N
    BY FS_Subset
  <2> QED BY <2>1, FS_CardinalityType, FS_EmptySet, FS_RemoveElement
<1>2. 0 \in S
  <2> DEFINE g == Step(<<>>)
  <2>1. g = [s \in SUBSET F |-> g[s]] /\ \A s \in SUBSET F : g[s] = PutAll(h, w, s, <<>>)
    OBVIOUS
  <2>2. \A s \in SUBSET F : Cardinality(s) <= 0 => g[s] = PutAll(h, w, s, g)
    <3> SUFFICES ASSUME NEW s \in SUBSET F, Cardinality(s) <= 0 PROVE g[s] = PutAll(h, w, s, g)
      OBVIOUS
    <3>1. Cardinality(s) \in 0..N /\ (Cardinality(s) = 0 <=> s = {})
      BY <1>1, Zenon
    <3>2. s = {}
      BY <3>1
    <3> HIDE DEF g
    <3> QED BY <2>1, <3>2 DEF PutAll
  <2>3. 0 \in 0..N
    OBVIOUS
  <2> HIDE DEF g
  <2> QED BY <2>1, <2>2, <2>3
<1>3. ASSUME NEW n \in 0..N - 1, n \in S PROVE n + 1 \in S
  <2>1. PICK f : /\ f = [s \in SUBSET F |-> f[s]]
                 /\ \A s \in SUBSET F : Cardinality(s) <= n => f[s] = PutAll(h, w, s, f)
    BY <1>3
  <2> DEFINE g == Step(f)
  <2>2. g = [s \in SUBSET F |-> g[s]] /\ \A s \in SUBSET F : g[s] = PutAll(h, w, s, f)
    OBVIOUS
  <2>3. ASSUME NEW s \in SUBSET F, Cardinality(s) <= n + 1 PROVE g[s] = PutAll(h, w, s, g)
    <3>1. CASE s = {}
      <4> HIDE DEF g
      <4> QED BY <2>2, <3>1 DEF PutAll
    <3>2. CASE s # {}
      <4>1. PICK x \in s : x = CHOOSE y \in s : TRUE
        BY <3>2
      <4>2. s \ {x} \in SUBSET F /\ Cardinality(s \ {x}) <= n
        <5>1. Cardinality(s) \in 0..N /\ Cardinality(s \ {x}) = Cardinality(s) - 1
          BY <1>1, Zenon
        <5> QED BY <2>3, <5>1
      <4> HIDE DEF g
      <4>3. f[s \ {x}] = g[s \ {x}]
        BY <2>1, <2>2, <4>2
      <4> QED BY <2>2, <3>2, <4>1, <4>3 DEF PutAll
    <3> QED BY <3>1, <3>2
  <2>4. n + 1 \in 0..N
    OBVIOUS
  <2> HIDE DEF g
  <2> QED BY <2>2, <2>3, <2>4
<1>4. \A n \in 0..N : n \in S
  <2> HIDE DEF S
  <2> QED BY <1>2, <1>3, NatsUpTo
<1>5. PICK g : /\ g = [s \in SUBSET F |-> g[s]]
               /\ \A s \in SUBSET F : Cardinality(s) <= N => g[s] = PutAll(h, w, s, g)
  <2>1. N \in S
    <3> HIDE DEF S
    <3> QED BY <1>4
  <2> QED BY <2>1
<1>6. \A s \in SUBSET F : g[s] = PutAll(h, w, s, g)
  <2> SUFFICES ASSUME NEW s \in SUBSET F PROVE g[s] = PutAll(h, w, s, g)
    OBVIOUS
  <2>1. Cardinality(s) <= N
    BY <1>1
  <2> QED BY <1>5, <2>1
<1>7. g = [s \in SUBSET F |-> PutAll(h, w, s, g)]
  BY <1>5, <1>6
<1> QED BY <1>7 DEF IsPutAll

\* An empty trie with the hosts F put into it: NewAddrTree4 and NewAddrTree6.
Planted(h, w, F) == FoldSet(LAMBDA a, t : Inserted(t, a), NewTrie(h, w), F)

\* The new tree is what has been put into it.
LEMMA PutAllFolds ==
  ASSUME NEW h, NEW w, NEW F, IsFiniteSet(F)
  PROVE  \E g : IsPutAll(h, w, F, g) /\ Planted(h, w, F) = g[F]
<1> DEFINE g == CHOOSE g : g = [s \in SUBSET F |-> PutAll(h, w, s, g)]
<1>1. g = [s \in SUBSET F |-> PutAll(h, w, s, g)]
  <2>1. \E f : IsPutAll(h, w, F, f)
    BY PutAllExists
  <2>2. \E f : f = [s \in SUBSET F |-> PutAll(h, w, s, f)]
    BY <2>1, Zenon DEF IsPutAll
  <2> QED BY <2>2, Zenon
<1>2. Planted(h, w, F) = g[F]
  BY Zenon DEF Planted, FoldSet, MapThenFoldSet, PutAll
<1> QED BY <1>1, <1>2, Zenon DEF IsPutAll

\* Induction, for a set of finite sets: one element less at a time.
LEMMA SubsetsAreAll ==
  ASSUME NEW S, IsFiniteSet(S), NEW T, {} \in T,
         \A s \in SUBSET S : s # {} /\ s \ {CHOOSE x \in s : TRUE} \in T => s \in T
  PROVE  S \in T
<1> PICK N \in Nat : N = Cardinality(S)
  BY FS_CardinalityType
<1>1. \A s \in SUBSET S : IsFiniteSet(s)
  BY FS_Subset
<1> DEFINE M == { n \in 0..N : \A s \in SUBSET S : Cardinality(s) = n => s \in T }
<1>2. 0 \in M
  <2>1. ASSUME NEW s \in SUBSET S, Cardinality(s) = 0 PROVE s \in T
    BY <1>1, <2>1, FS_EmptySet
  <2> QED BY <2>1
<1>3. ASSUME NEW n \in 0..N - 1, n \in M PROVE n + 1 \in M
  <2>1. ASSUME NEW s \in SUBSET S, Cardinality(s) = n + 1 PROVE s \in T
    <3>1. s # {}
      <4>1. n + 1 # 0
        OBVIOUS
      <4> QED BY <2>1, <4>1, FS_EmptySet
    <3>2. PICK x \in s : x = CHOOSE y \in s : TRUE
      BY <3>1
    <3>3. Cardinality(s \ {x}) = n
      <4>1. IsFiniteSet(s)
        BY <1>1
      <4>2. Cardinality(s \ {x}) = Cardinality(s) - 1
        BY <4>1, FS_RemoveElement
      <4> QED BY <2>1, <4>2
    <3>4. s \ {x} \in SUBSET S
      OBVIOUS
    <3>5. s \ {x} \in T
      BY <1>3, <3>3, <3>4
    <3> QED BY <3>1, <3>2, <3>5
  <2> QED BY <2>1
<1>4. \A n \in 0..N : n \in M
  <2> HIDE DEF M
  <2> QED BY <1>2, <1>3, NatsUpTo
<1>5. N \in M
  <2> HIDE DEF M
  <2> QED BY <1>4
<1> QED BY <1>5

\* One after the other, the hosts become its leaves.
LEMMA PutAllIs ==
  ASSUME NEW h \in Nat, NEW w \in Nat, h <= w, NEW F \in SUBSET Address(h),
         NEW g, IsPutAll(h, w, F, g)
  PROVE  /\ Sound(g[F]) /\ g[F].height = h /\ g[F].width = w
         /\ Leaves(g[F]) = F
<1> DEFINE Good(s) == /\ Sound(g[s]) /\ g[s].height = h /\ g[s].width = w
                      /\ Leaves(g[s]) = s
           T == { s \in SUBSET F : Good(s) }
<1>1. \A s \in SUBSET F : g[s] = PutAll(h, w, s, g)
  BY DEF IsPutAll
<1>2. {} \in T
  <2>1. g[{}] = NewTrie(h, w)
    BY <1>1 DEF PutAll
  <2> QED BY <2>1, NewTrieIs
<1>3. ASSUME NEW s \in SUBSET F, s # {}, s \ {CHOOSE x \in s : TRUE} \in T PROVE s \in T
  <2>1. PICK x \in s : x = CHOOSE y \in s : TRUE
    BY <1>3
  <2>2. PICK r \in SUBSET F : r = s \ {x}
    OBVIOUS
  <2>3. PICK u : u = g[r]
    OBVIOUS
  <2>4. Sound(u) /\ u.height = h /\ u.width = w /\ Leaves(u) = r
    BY <1>3, <2>1, <2>2, <2>3
  <2>5. g[s] = Inserted(u, x)
    BY <1>1, <1>3, <2>1, <2>2, <2>3 DEF PutAll
  <2>6. x \in Path(h) /\ Clear(r, x)
    <3>1. x \in Address(h) /\ r \in SUBSET Address(h) /\ x \notin r
      BY <2>2
    <3> QED BY <3>1, HostsAreApart, PathIs
  <2>7. /\ Sound(Inserted(u, x)) /\ Leaves(Inserted(u, x)) = r \cup {x}
        /\ Inserted(u, x).height = h /\ Inserted(u, x).width = w
    BY <2>4, <2>6, InsertedIs
  <2>8. s = r \cup {x}
    BY <2>2
  <2> QED BY <2>5, <2>7, <2>8
<1>4. IsFiniteSet(F)
  BY HostsFinite
<1>5. F \in T
  <2> HIDE DEF T
  <2> QED BY <1>2, <1>3, <1>4, SubsetsAreAll
<1> QED BY <1>5

\* The leaves of a new tree are the hosts put into it.
LEMMA NewTree ==
  ASSUME NEW h \in Nat, NEW w \in Nat, h <= w, NEW F \in SUBSET Address(h)
  PROVE  /\ Sound(Planted(h, w, F)) /\ Leaves(Planted(h, w, F)) = F
         /\ Planted(h, w, F).height = h /\ Planted(h, w, F).width = w
<1>1. IsFiniteSet(F)
  BY HostsFinite
<1>2. PICK g : IsPutAll(h, w, F, g) /\ Planted(h, w, F) = g[F]
  BY <1>1, PutAllFolds
<1> QED BY <1>2, PutAllIs
=============================================================================
