------------------------- MODULE SubnetServiceProofs -------------------------
(***************************************************************************)
(* Proofs about SubnetService: with addresses and counters of any width    *)
(* and any settings of WG_ALLOC_NETS, the tries hold what the table says,  *)
(* across restarts, and the service does what SubnetPool does.             *)
(***************************************************************************)
EXTENDS SubnetService, TrieProofs

-----------------------------------------------------------------------------
(* Prefixes and nets                                                       *)

\* A prefix has as many bits as an address of its version.
LEMMA PrefixType ==
  ASSUME NEW p \in AllPrefixes(Width)
  PROVE  /\ p.v \in {4, 6} /\ Width[p.v] \in Nat /\ p.len \in 0..Width[p.v]
         /\ p.addr \in Address(Width[p.v]) /\ Len(p.addr) = Width[p.v]
         /\ p.addr \in Path(Width[p.v]) /\ p.addr \in Seq(Bit)
<1>1. PICK v \in {4, 6} : p \in [v : {v}, addr : Address(Width[v]), len : 0..Width[v]]
  BY WidthAssumption DEF AllPrefixes
<1>2. Width[v] \in Nat
  BY WidthAssumption
<1> QED BY <1>1, <1>2, PathIs

\* A net contains the prefixes that have its bits.
LEMMA WithinIs ==
  ASSUME NEW net \in AllPrefixes(Width), NEW p \in AllPrefixes(Width)
  PROVE  /\ NetContains(net, p) <=>
              net.v = p.v /\ \A k \in 1..net.len : net.addr[k] = p.addr[k]
         /\ Within(net, p) <=> NetContains(net, p) /\ net.len <= p.len
<1>1. CASE net.v = p.v
  <2> DEFINE h == Width[p.v]
  <2>1. /\ h \in Nat /\ net.addr \in Path(h) /\ Len(net.addr) = h /\ net.len \in 0..h
        /\ p.addr \in Path(h) /\ Len(p.addr) = h
    BY <1>1, PrefixType
  <2> HIDE DEF h
  <2>2. PICK m : m = SubSeq(net.addr, 1, net.len)
    OBVIOUS
  <2>3. m \in Path(h) /\ Len(m) = net.len /\ \A k \in 1..net.len : m[k] = net.addr[k]
    BY <2>1, <2>2, CutIs
  <2>4. IsPrefix(m, p.addr) <=> Over(m, p.addr)
    BY <2>1, <2>3, PrefixIs
  <2> QED BY <1>1, <2>1, <2>2, <2>3, <2>4 DEF NetContains, Masked, Within, Over
<1>2. CASE net.v # p.v
  BY <1>2 DEF NetContains, Within
<1> QED BY <1>1, <1>2

\* To lie within is an order, and the prefixes around one prefix form a chain.
LEMMA WithinOrder ==
  ASSUME NEW a \in AllPrefixes(Width), NEW b \in AllPrefixes(Width), NEW c \in AllPrefixes(Width)
  PROVE  /\ Within(a, a)
         /\ Within(a, b) /\ Within(b, c) => Within(a, c)
         /\ Within(a, c) /\ Within(b, c) => Within(a, b) \/ Within(b, a)
<1>1. a.len \in Int /\ b.len \in Int /\ c.len \in Int
  BY PrefixType
<1> QED BY <1>1, WithinIs

\* A prefix lies in one of the nets at most.
LEMMA OneNet ==
  ASSUME NEW ns \in Seq(AllPrefixes(Width)), ParsedNets(ns),
         NEW i \in DOMAIN ns, NEW j \in DOMAIN ns, NEW p \in AllPrefixes(Width),
         Within(ns[i], p), Within(ns[j], p)
  PROVE  i = j
<1>1. ns[i] \in AllPrefixes(Width) /\ ns[j] \in AllPrefixes(Width)
  OBVIOUS
<1>2. Within(ns[i], ns[j]) \/ Within(ns[j], ns[i])
  BY <1>1, WithinOrder
<1>3. NetContains(ns[i], ns[j]) \/ NetContains(ns[j], ns[i])
  BY <1>2 DEF Within
<1> QED BY <1>3 DEF ParsedNets

\* A stretch of a sequence of bits.
LEMMA SliceIs ==
  ASSUME NEW q \in Seq(Bit), NEW lo \in Nat, NEW hi \in Nat, lo <= hi, hi <= Len(q)
  PROVE  LET s == SubSeq(q, lo + 1, hi)
         IN s \in Seq(Bit) /\ Len(s) = hi - lo /\ \A k \in 1..hi - lo : s[k] = q[lo + k]
<1> PICK n \in Nat : n = hi - lo
  OBVIOUS
<1> PICK s : s = SubSeq(q, lo + 1, hi)
  OBVIOUS
<1>1. s = [k \in 1..n |-> q[lo + k]]
  OBVIOUS
<1>2. \A k \in 1..n : q[lo + k] \in Bit
  OBVIOUS
<1>3. s \in Seq(Bit) /\ Len(s) = n
  BY <1>1, <1>2
<1> QED BY <1>1, <1>3

\* The bits that a net's tree looks at.
LEMMA PathInIs ==
  ASSUME NEW net \in AllPrefixes(Width), NEW p \in AllPrefixes(Width), Within(net, p)
  PROVE  /\ HostBits(net) \in Nat /\ HostBits(net) = Width[net.v] - net.len
         /\ PathIn(net, p) \in Path(HostBits(net))
         /\ Len(PathIn(net, p)) = p.len - net.len
         /\ \A k \in 1..p.len - net.len : PathIn(net, p)[k] = p.addr[net.len + k]
<1> DEFINE h == Width[p.v]  n == p.len - net.len
<1>1. /\ net.v = p.v /\ net.len <= p.len
      /\ h \in Nat /\ net.len \in 0..h /\ p.len \in 0..h /\ Len(net.addr) = h
      /\ p.addr \in Seq(Bit) /\ Len(p.addr) = h
  BY PrefixType, WithinIs
<1> HIDE DEF h
<1>2. HostBits(net) = h - net.len /\ HostBits(net) \in Nat /\ n \in 0..HostBits(net)
  BY <1>1 DEF HostBits
<1>3. PICK s : s = PathIn(net, p)
  OBVIOUS
<1>4. s \in Seq(Bit) /\ Len(s) = n /\ \A k \in 1..n : s[k] = p.addr[net.len + k]
  <2> PICK q \in Seq(Bit), lo \in Nat, hi \in Nat : q = p.addr /\ lo = net.len /\ hi = p.len
    BY <1>1
  <2>1. s = SubSeq(q, lo + 1, hi) /\ lo <= hi /\ hi <= Len(q) /\ n = hi - lo
    BY <1>1, <1>3 DEF PathIn
  <2> HIDE DEF n
  <2> QED BY <2>1, SliceIs, ZenonT(40)
<1>5. s \in [1..n -> Bit]
  BY <1>1, <1>4
<1>6. s \in Path(HostBits(net))
  BY <1>2, <1>5, PathIs
<1> QED BY <1>1, <1>2, <1>3, <1>4, <1>6 DEF h

\* Inside a net the paths are ordered as the prefixes are.
LEMMA PathsOverlap ==
  ASSUME NEW net \in AllPrefixes(Width), NEW p \in AllPrefixes(Width), NEW q \in AllPrefixes(Width),
         Within(net, p), Within(net, q)
  PROVE  /\ Over(PathIn(net, p), PathIn(net, q)) <=> Within(p, q)
         /\ Overlap(PathIn(net, p), PathIn(net, q)) <=> Within(p, q) \/ Within(q, p)
<1>1. ASSUME NEW a \in AllPrefixes(Width), NEW b \in AllPrefixes(Width), Within(net, a), Within(net, b)
      PROVE  Over(PathIn(net, a), PathIn(net, b)) <=> Within(a, b)
  <2> PICK s, t : s = PathIn(net, a) /\ t = PathIn(net, b)
    OBVIOUS
  <2>1. /\ Len(s) = a.len - net.len /\ Len(t) = b.len - net.len
        /\ \A k \in 1..a.len - net.len : s[k] = a.addr[net.len + k]
        /\ \A k \in 1..b.len - net.len : t[k] = b.addr[net.len + k]
    BY <1>1, PathInIs
  <2>2. /\ net.len \in Nat /\ a.len \in Nat /\ b.len \in Nat
        /\ net.len <= a.len /\ net.len <= b.len /\ a.v = b.v
        /\ \A k \in 1..net.len : a.addr[k] = b.addr[k]
    BY <1>1, PrefixType, WithinIs
  <2>3. a.len <= b.len =>
          ((\A k \in 1..a.len - net.len : s[k] = t[k]) <=> \A k \in 1..a.len : a.addr[k] = b.addr[k])
    <3> SUFFICES ASSUME a.len <= b.len
                 PROVE  (\A k \in 1..a.len - net.len : s[k] = t[k])
                          <=> \A k \in 1..a.len : a.addr[k] = b.addr[k]
      OBVIOUS
    <3>1. \A k \in 1..a.len - net.len : /\ net.len + k \in 1..a.len
                                        /\ s[k] = a.addr[net.len + k] /\ t[k] = b.addr[net.len + k]
      BY <2>1, <2>2
    <3>2. \A k \in 1..a.len : k \in 1..net.len \/ (/\ k - net.len \in 1..a.len - net.len
                                                  /\ net.len + (k - net.len) = k)
      BY <2>2
    <3>3. ASSUME \A k \in 1..a.len - net.len : s[k] = t[k], NEW k \in 1..a.len
          PROVE  a.addr[k] = b.addr[k]
      <4>1. CASE k \in 1..net.len
        BY <2>2, <4>1
      <4>2. CASE k - net.len \in 1..a.len - net.len /\ net.len + (k - net.len) = k
        BY <3>1, <3>3, <4>2
      <4> QED BY <3>2, <4>1, <4>2
    <3> QED BY <3>1, <3>3
  <2>4. Within(a, b) <=> a.len <= b.len /\ \A k \in 1..a.len : a.addr[k] = b.addr[k]
    BY <2>2, WithinIs
  <2> QED BY <2>1, <2>2, <2>3, <2>4 DEF Over
<1>2. Over(PathIn(net, p), PathIn(net, q)) <=> Within(p, q)
  BY <1>1
<1>3. Over(PathIn(net, q), PathIn(net, p)) <=> Within(q, p)
  BY <1>1
<1>4. HostBits(net) \in Nat /\ PathIn(net, p) \in Path(HostBits(net)) /\ PathIn(net, q) \in Path(HostBits(net))
  BY PathInIs
<1> QED BY <1>2, <1>3, <1>4, HostsShared

\* A path is clear of the network's own hosts iff it has a bit that is not theirs.
LEMMA ClearOfHosts ==
  ASSUME NEW h \in Nat, NEW x \in Path(h), NEW broadcast \in BOOLEAN
  PROVE  Clear(NetworkHosts(h, broadcast), x) <=>
           /\ \E k \in 1..Len(x) : x[k] = 1
           /\ broadcast => \E k \in 1..Len(x) : x[k] = 0
<1>1. /\ Len(x) \in 0..h /\ \A k \in 1..Len(x) : x[k] \in Bit
      /\ \A k \in 1..Len(x) : k \in 1..h
  BY PathIs
<1>2. \A a \in Address(h) : Overlap(x, a) <=> \A k \in 1..Len(x) : x[k] = a[k]
  <2> SUFFICES ASSUME NEW a \in Address(h)
               PROVE  Overlap(x, a) <=> \A k \in 1..Len(x) : x[k] = a[k]
    OBVIOUS
  <2>1. a \in Path(h) /\ Len(a) = h
    BY PathIs
  <2>2. Over(a, x) => Over(x, a)
    BY <1>1, <2>1, OverOrder DEF Over
  <2> QED BY <1>1, <2>1, <2>2, HostsShared DEF Over
<1> DEFINE same(b) == [i \in 1..h |-> b]
<1>3. \A b \in Bit : same(b) \in Address(h) /\ \A i \in 1..h : same(b)[i] = b
  BY DEF Address
<1>4. (\E a \in NetworkHosts(h, broadcast) : \A k \in 1..Len(x) : x[k] = a[k]) <=>
        (\/ \A k \in 1..Len(x) : x[k] = 0
         \/ broadcast /\ \A k \in 1..Len(x) : x[k] = 1)
  <2>1. ASSUME NEW a \in NetworkHosts(h, broadcast), \A k \in 1..Len(x) : x[k] = a[k]
        PROVE  \/ \A k \in 1..Len(x) : x[k] = 0
               \/ broadcast /\ \A k \in 1..Len(x) : x[k] = 1
    BY <1>1, <2>1 DEF NetworkHosts
  <2>2. ASSUME \A k \in 1..Len(x) : x[k] = 0
        PROVE  \E a \in NetworkHosts(h, broadcast) : \A k \in 1..Len(x) : x[k] = a[k]
    <3>1. 0 \in Bit
      BY ZeroOrOne
    <3>2. same(0) \in NetworkHosts(h, broadcast)
      BY <1>3, <3>1 DEF NetworkHosts
    <3>3. \A k \in 1..Len(x) : x[k] = same(0)[k]
      BY <1>1, <1>3, <2>2, <3>1
    <3> HIDE DEF same
    <3> QED BY <3>2, <3>3
  <2>3. ASSUME broadcast, \A k \in 1..Len(x) : x[k] = 1
        PROVE  \E a \in NetworkHosts(h, broadcast) : \A k \in 1..Len(x) : x[k] = a[k]
    <3>1. 1 \in Bit
      BY ZeroOrOne
    <3>2. same(1) \in NetworkHosts(h, broadcast)
      BY <1>3, <2>3, <3>1 DEF NetworkHosts
    <3>3. \A k \in 1..Len(x) : x[k] = same(1)[k]
      BY <1>1, <1>3, <2>3, <3>1
    <3> HIDE DEF same
    <3> QED BY <3>2, <3>3
  <2> QED BY <2>1, <2>2, <2>3
<1>5. Clear(NetworkHosts(h, broadcast), x) <=>
        ~\E a \in NetworkHosts(h, broadcast) : \A k \in 1..Len(x) : x[k] = a[k]
  BY <1>2 DEF Clear, NetworkHosts
<1> QED BY <1>1, <1>4, <1>5, ZeroOrOne

\* A prefix finds room in a net that holds nothing but its own hosts.
Fits(net, p) ==
  Within(net, p) /\ Clear(NetworkHosts(HostBits(net), net.v = 4), PathIn(net, p))

\* It does so iff one of its bits behind the net's mask is not 0, and in an IPv4 net
\* another one is.
LEMMA FitsIs ==
  ASSUME NEW net \in AllPrefixes(Width), NEW p \in AllPrefixes(Width), Within(net, p)
  PROVE  Fits(net, p) <=>
           /\ \E k \in net.len + 1..p.len : p.addr[k] = 1
           /\ net.v = 4 => \E k \in net.len + 1..p.len : p.addr[k] = 0
<1> PICK x : x = PathIn(net, p)
  OBVIOUS
<1>1. /\ HostBits(net) \in Nat /\ x \in Path(HostBits(net)) /\ Len(x) = p.len - net.len
      /\ \A k \in 1..p.len - net.len : x[k] = p.addr[net.len + k]
  BY PathInIs
<1>2. net.len \in Nat /\ p.len \in Nat /\ net.len <= p.len
  BY PrefixType, WithinIs
<1>3. \A b : (\E k \in 1..Len(x) : x[k] = b) <=> \E k \in net.len + 1..p.len : p.addr[k] = b
  <2> SUFFICES ASSUME NEW b
               PROVE  (\E k \in 1..Len(x) : x[k] = b) <=> \E k \in net.len + 1..p.len : p.addr[k] = b
    OBVIOUS
  <2>1. \A k \in 1..Len(x) : net.len + k \in net.len + 1..p.len
    BY <1>1, <1>2
  <2>2. \A k \in net.len + 1..p.len : k - net.len \in 1..Len(x) /\ net.len + (k - net.len) = k
    BY <1>1, <1>2
  <2> QED BY <1>1, <2>1, <2>2
<1>4. Clear(NetworkHosts(HostBits(net), net.v = 4), x) <=>
        /\ \E k \in 1..Len(x) : x[k] = 1
        /\ net.v = 4 => \E k \in 1..Len(x) : x[k] = 0
  BY <1>1, ClearOfHosts
<1> QED BY <1>3, <1>4 DEF Fits

\* What fits into a net fits into every net around it: the wider net's own hosts are
\* not in the prefix either.
LEMMA FitsWider ==
  ASSUME NEW wide \in AllPrefixes(Width), NEW net \in AllPrefixes(Width), Within(wide, net),
         NEW p \in AllPrefixes(Width), Fits(net, p)
  PROVE  Fits(wide, p)
<1>1. Within(net, p) /\ Within(wide, p)
  BY WithinOrder DEF Fits
<1>2. wide.len \in Int /\ net.len \in Int /\ p.len \in Int /\ wide.len <= net.len /\ wide.v = net.v
  BY PrefixType, WithinIs
<1>3. \A k \in net.len + 1..p.len : k \in wide.len + 1..p.len
  BY <1>2
<1> QED BY <1>1, <1>2, <1>3, FitsIs

\* An address of a net is a prefix in it, found again by its path.
LEMMA HostPrefixIs ==
  ASSUME NEW net \in AllPrefixes(Width), NEW a \in Address(HostBits(net))
  PROVE  /\ HostPrefix(net, a) \in AllPrefixes(Width)
         /\ Within(net, HostPrefix(net, a)) /\ PathIn(net, HostPrefix(net, a)) = a
<1> DEFINE h == Width[net.v]  p == HostPrefix(net, a)
<1>1. /\ h \in Nat /\ net.len \in 0..h /\ net.addr \in Path(h) /\ Len(net.addr) = h
      /\ net.v \in {4, 6} /\ net.addr \in Seq(Bit)
  BY PrefixType
<1>2. HostBits(net) = h - net.len /\ HostBits(net) \in Nat
  BY <1>1 DEF HostBits
<1>3. a \in Seq(Bit) /\ Len(a) = h - net.len
  BY <1>2, PathIs
<1>4. PICK m : m = SubSeq(net.addr, 1, net.len)
  OBVIOUS
<1>5. m \in Path(h) /\ Len(m) = net.len /\ \A k \in 1..net.len : m[k] = net.addr[k]
  BY <1>1, <1>4, CutIs
<1>6. PICK s : s = m \o a
  OBVIOUS
<1>7. /\ s \in Seq(Bit) /\ Len(s) = h
      /\ \A k \in 1..net.len : s[k] = net.addr[k]
      /\ \A k \in 1..h - net.len : s[net.len + k] = a[k]
  <2>1. m \in Seq(Bit)
    BY <1>1, <1>5, PathIs
  <2>2. /\ s \in Seq(Bit) /\ Len(s) = Len(m) + Len(a)
        /\ \A k \in 1..Len(s) : s[k] = IF k <= Len(m) THEN m[k] ELSE a[k - Len(m)]
    <3>1. a \in Seq(Bit)
      BY <1>3
    <3> HIDE DEF h
    <3> QED BY <1>6, <2>1, <3>1, ConcatProperties
  <2> HIDE DEF h
  <2>3. h \in Nat /\ net.len \in 0..h /\ Len(s) = h
    BY <1>1, <1>3, <1>5, <2>2
  <2>4. \A k \in 1..net.len : k \in 1..Len(s) /\ k <= Len(m)
    BY <1>5, <2>3
  <2>5. \A k \in 1..h - net.len : /\ net.len + k \in 1..Len(s) /\ ~(net.len + k <= Len(m))
                                 /\ (net.len + k) - Len(m) = k
    BY <1>5, <2>3
  <2> QED BY <1>5, <2>2, <2>3, <2>4, <2>5
<1>8. s \in Address(h)
  BY <1>7 DEF Address
<1>9. p.v = net.v /\ p.addr = s /\ p.len = h
  BY <1>1, <1>4, <1>6 DEF HostPrefix, Masked
<1>10. p \in AllPrefixes(Width)
  <2>1. p = [v |-> net.v, addr |-> s, len |-> h]
    BY <1>1, <1>4, <1>6 DEF HostPrefix, Masked
  <2>2. h \in 0..h
    BY <1>1
  <2> QED BY <1>1, <1>8, <2>1, <2>2, WidthAssumption DEF AllPrefixes
<1> HIDE DEF p
<1>11. Within(net, p)
  BY <1>1, <1>7, <1>9, <1>10, WithinIs
<1>12. PathIn(net, p) = a
  <2> PICK x : x = PathIn(net, p)
    OBVIOUS
  <2>1. /\ x \in Path(HostBits(net)) /\ Len(x) = h - net.len
        /\ \A k \in 1..h - net.len : x[k] = s[net.len + k]
    BY <1>9, <1>10, <1>11, PathInIs
  <2>2. a \in Path(HostBits(net))
    BY <1>2, PathIs
  <2> QED BY <1>2, <1>3, <1>7, <2>1, <2>2, SamePath
<1> QED BY <1>10, <1>11, <1>12 DEF p

-----------------------------------------------------------------------------
(* The trees of the nets                                                   *)

\* Settings a service can be made of.
Usable(ns) ==
  /\ ns \in Seq(AllPrefixes(Width)) /\ ParsedNets(ns)
  /\ \A i \in DOMAIN ns : TreeFits(ns[i], CounterBits)

\* The nets of such settings have trees whose counters are wide enough.
LEMMA UsableIs ==
  ASSUME NEW ns, Usable(ns), NEW i \in DOMAIN ns
  PROVE  /\ ns[i] \in AllPrefixes(Width) /\ CounterBits \in Nat
         /\ HostBits(ns[i]) \in Nat /\ UintBits(ns[i]) \in Nat /\ 2 <= HostBits(ns[i])
         /\ HostBits(ns[i]) <= UintBits(ns[i]) /\ HostBits(ns[i]) <= CounterBits
<1>1. ns[i] \in AllPrefixes(Width) /\ TreeFits(ns[i], CounterBits)
  BY DEF Usable
<1>2. /\ ns[i].v \in {4, 6} /\ Width[ns[i].v] \in Nat /\ ns[i].len \in 0..Width[ns[i].v]
      /\ Len(ns[i].addr) = Width[ns[i].v]
  BY <1>1, PrefixType
<1> QED BY <1>1, <1>2, WidthAssumption DEF TreeFits, HostBits, UintBits

\* Settings are numbered from 1, and one net at most has a prefix.
LEMMA NetsAre ==
  ASSUME NEW ns, Usable(ns)
  PROVE  /\ Len(ns) \in Nat /\ DOMAIN ns = 1..Len(ns)
         /\ \A i, j \in DOMAIN ns : \A p \in AllPrefixes(Width) :
              Within(ns[i], p) /\ Within(ns[j], p) => i = j
<1>1. ns \in Seq(AllPrefixes(Width)) /\ ParsedNets(ns)
  BY DEF Usable
<1>2. Len(ns) \in Nat /\ DOMAIN ns = 1..Len(ns)
  BY <1>1
<1> QED BY <1>1, <1>2, OneNet

\* Every net of ns has a tree in ts, whatever is in it.
Grown(ns, ts) ==
  /\ ts = [i \in DOMAIN ns |-> ts[i]]
  /\ \A i \in DOMAIN ns : /\ Sound(ts[i])
                          /\ ts[i].height = HostBits(ns[i]) /\ ts[i].width = UintBits(ns[i])

\* A tree in the place of another one.
LEMMA GrownExcept ==
  ASSUME NEW ns, NEW ts, Grown(ns, ts), NEW i \in DOMAIN ns, NEW t,
         Sound(t), t.height = ts[i].height, t.width = ts[i].width
  PROVE  Grown(ns, [ts EXCEPT ![i] = t])
<1> PICK us : us = [ts EXCEPT ![i] = t]
  OBVIOUS
<1>1. \A j \in DOMAIN ns : us[j] = IF j = i THEN t ELSE ts[j]
  BY DEF Grown
<1>2. us = [j \in DOMAIN ns |-> us[j]]
  BY DEF Grown
<1>3. \A j \in DOMAIN ns : /\ Sound(us[j])
                           /\ us[j].height = HostBits(ns[j]) /\ us[j].width = UintBits(ns[j])
  BY <1>1 DEF Grown
<1> QED BY <1>1, <1>2, <1>3 DEF Grown

\* What the tree of a net holds when the rows R, and no others, are reserved.
Held(ns, i, R) ==
  NetworkHosts(HostBits(ns[i]), ns[i].v = 4)
    \cup { PathIn(ns[i], r.prefix) : r \in { q \in R : Within(ns[i], q.prefix) } }

\* The trees of ns after the rows R have been reserved.
Built(ns, ts, R) == Grown(ns, ts) /\ \A i \in DOMAIN ns : Leaves(ts[i]) = Held(ns, i, R)

\* NewAddrTree4 and NewAddrTree6: each net's own hosts.
LEMMA NewTreesAre ==
  ASSUME NEW ns, Usable(ns)
  PROVE  Built(ns, [i \in DOMAIN ns |-> NewAddrTree(ns[i])], {})
<1> DEFINE ts == [i \in DOMAIN ns |-> NewAddrTree(ns[i])]
<1>1. ASSUME NEW i \in DOMAIN ns
      PROVE  /\ Sound(NewAddrTree(ns[i]))
             /\ NewAddrTree(ns[i]).height = HostBits(ns[i])
             /\ NewAddrTree(ns[i]).width = UintBits(ns[i])
             /\ Leaves(NewAddrTree(ns[i])) = Held(ns, i, {})
  <2> DEFINE h == HostBits(ns[i])  w == UintBits(ns[i])
             F == NetworkHosts(HostBits(ns[i]), ns[i].v = 4)
  <2>1. NewAddrTree(ns[i]) = Planted(h, w, F)
    BY Zenon DEF NewAddrTree, Planted
  <2>2. h \in Nat /\ w \in Nat /\ h <= w
    BY UsableIs
  <2>3. F \in SUBSET Address(h)
    BY DEF NetworkHosts
  <2>4. Held(ns, i, {}) = F
    BY DEF Held
  <2> HIDE DEF h, w, F
  <2>5. /\ Sound(Planted(h, w, F)) /\ Leaves(Planted(h, w, F)) = F
        /\ Planted(h, w, F).height = h /\ Planted(h, w, F).width = w
    BY <2>2, <2>3, NewTree
  <2> QED BY <2>1, <2>4, <2>5 DEF h, w
<1>2. ts = [i \in DOMAIN ns |-> ts[i]] /\ \A i \in DOMAIN ns : ts[i] = NewAddrTree(ns[i])
  OBVIOUS
<1> HIDE DEF ts
<1>3. Built(ns, ts, {})
  BY <1>1, <1>2 DEF Built, Grown
<1> QED BY <1>3 DEF ts

-----------------------------------------------------------------------------
(* Reserve and Delete                                                      *)

\* The least number of a set.
LEMMA MinIs ==
  ASSUME NEW S \in SUBSET Nat, S # {}
  PROVE  Min(S) \in S /\ \A y \in S : Min(S) <= y
<1>1. PICK x \in S : \A y \in S : ~(<<y, x>> \in OpToRel(<, Nat))
  BY NatLessThanWellFounded, WFMin
<1>2. ASSUME NEW y \in S PROVE x <= y
  <2>1. y < x => <<y, x>> \in OpToRel(<, Nat)
    BY DEF OpToRel
  <2>2. ~(<<y, x>> \in OpToRel(<, Nat))
    BY <1>1, Zenon
  <2>3. y \in Nat /\ x \in Nat
    OBVIOUS
  <2>4. ~(y < x)
    BY <2>1, <2>2, Zenon
  <2> QED BY <2>3, <2>4
<1>3. \E z \in S : \A y \in S : z =< y
  BY <1>2
<1> QED BY <1>3 DEF Min

\* The net of a prefix is the only one whose answer is not "out of net".
LEMMA TriedIs ==
  ASSUME NEW ns, Usable(ns), NEW ts, NEW p \in AllPrefixes(Width)
  PROVE  /\ (\A i \in DOMAIN ns : ~Within(ns[i], p)) => Tried(ns, ts, p) = {}
         /\ \A i \in DOMAIN ns : Within(ns[i], p) => Tried(ns, ts, p) = {i}
<1>1. \A i \in DOMAIN ns : Within(ns[i], p) => ns[i].v = p.v
  BY DEF Within, NetContains
<1>2. Tried(ns, ts, p) = { i \in DOMAIN ns : Within(ns[i], p) }
  <2>1. ASSUME NEW i \in DOMAIN ns, ns[i].v = p.v
        PROVE  PutError(ns[i], ts[i], p) # "ErrOutOfNet" <=> Within(ns[i], p)
    <3>1. CASE Within(ns[i], p)
      <4>1. PutError(ns[i], ts[i], p) \in {"ErrOverlaps", "nil"}
        BY <2>1, <3>1 DEF PutError
      <4> QED BY <3>1, <4>1
    <3>2. CASE ~Within(ns[i], p)
      BY <2>1, <3>2 DEF PutError
    <3> QED BY <3>1, <3>2
  <2> QED BY <1>1, <2>1 DEF Tried
<1> QED BY <1>2, NetsAre

\* Reserve: no net has the prefix, or its net's tree decides.
LEMMA ReserveIs ==
  ASSUME NEW ns, Usable(ns), NEW ts, Grown(ns, ts), NEW p \in AllPrefixes(Width)
  PROVE  /\ (\A i \in DOMAIN ns : ~Within(ns[i], p)) =>
              Reserve(ns, ts, p) = [err |-> "ErrOutOfNet", trees |-> ts]
         /\ \A i \in DOMAIN ns : Within(ns[i], p) /\ ~Clear(Leaves(ts[i]), PathIn(ns[i], p)) =>
              Reserve(ns, ts, p) = [err |-> "ErrOverlaps", trees |-> ts]
         /\ \A i \in DOMAIN ns : Within(ns[i], p) /\ Clear(Leaves(ts[i]), PathIn(ns[i], p)) =>
              Reserve(ns, ts, p) =
                [err |-> "nil", trees |-> [ts EXCEPT ![i] = Inserted(ts[i], PathIn(ns[i], p))]]
<1>1. CASE \A i \in DOMAIN ns : ~Within(ns[i], p)
  BY <1>1, TriedIs DEF Reserve
<1>2. ASSUME NEW i \in DOMAIN ns, Within(ns[i], p)
      PROVE  Reserve(ns, ts, p) =
               IF Clear(Leaves(ts[i]), PathIn(ns[i], p))
               THEN [err |-> "nil", trees |-> [ts EXCEPT ![i] = Inserted(ts[i], PathIn(ns[i], p))]]
               ELSE [err |-> "ErrOverlaps", trees |-> ts]
  <2>1. Tried(ns, ts, p) = {i}
    BY <1>2, TriedIs
  <2>2. i \in Nat
    BY NetsAre
  <2>3. Min({i}) = i
    BY <2>2, MinIs
  <2>4. ns[i].v = p.v
    BY <1>2 DEF Within, NetContains
  <2>5. Blocked(ts[i], PathIn(ns[i], p)) <=> ~Clear(Leaves(ts[i]), PathIn(ns[i], p))
    <3>1. Sound(ts[i]) /\ PathIn(ns[i], p) \in Path(ts[i].height)
      BY <1>2, UsableIs, PathInIs DEF Grown
    <3> QED BY <3>1, BlockedIs
  <2>6. PutError(ns[i], ts[i], p) = IF Clear(Leaves(ts[i]), PathIn(ns[i], p)) THEN "nil" ELSE "ErrOverlaps"
    BY <1>2, <2>4, <2>5 DEF PutError
  <2>7. Tried(ns, ts, p) # {} /\ Min(Tried(ns, ts, p)) = i
    BY <2>1, <2>3
  <2> QED BY <2>6, <2>7 DEF Reserve
<1> QED BY <1>1, <1>2

\* What Reserve makes of the trees.
LEMMA PutInNet ==
  ASSUME NEW ns, NEW ts, Grown(ns, ts), NEW i \in DOMAIN ns,
         NEW a \in Path(HostBits(ns[i])), Clear(Leaves(ts[i]), a)
  PROVE  /\ Grown(ns, [ts EXCEPT ![i] = Inserted(ts[i], a)])
         /\ Leaves(Inserted(ts[i], a)) = Leaves(ts[i]) \cup {a}
<1> PICK t : t = ts[i]
  OBVIOUS
<1> PICK u : u = Inserted(t, a)
  OBVIOUS
<1>1. Sound(t) /\ t.height = HostBits(ns[i])
  BY DEF Grown
<1>2. Sound(u) /\ Leaves(u) = Leaves(t) \cup {a} /\ u.height = t.height /\ u.width = t.width
  BY <1>1, InsertedIs
<1>3. Grown(ns, [ts EXCEPT ![i] = u])
  BY <1>2, GrownExcept
<1> QED BY <1>2, <1>3

\* Delete finds the prefix in the tree of its net.
LEMMA DeleteIs ==
  ASSUME NEW ns, Usable(ns), NEW ts, Grown(ns, ts), NEW p \in AllPrefixes(Width),
         NEW i \in DOMAIN ns, Within(ns[i], p), PathIn(ns[i], p) \in Leaves(ts[i])
  PROVE  /\ Delete(ns, ts, p).found /\ Grown(ns, Delete(ns, ts, p).trees)
         /\ Leaves(Delete(ns, ts, p).trees[i]) = Leaves(ts[i]) \ {PathIn(ns[i], p)}
         /\ \A j \in DOMAIN ns : j # i => Delete(ns, ts, p).trees[j] = ts[j]
<1> PICK t, a : t = ts[i] /\ a = PathIn(ns[i], p)
  OBVIOUS
<1> PICK u : u = Removed(t, a)
  OBVIOUS
<1>1. Holding(ns, ts, p) = {i}
  BY NetsAre DEF Holding
<1>2. Min({i}) = i
  BY NetsAre, MinIs
<1>3. Delete(ns, ts, p) = [found |-> TRUE, trees |-> [ts EXCEPT ![i] = u]]
  <2>1. Holding(ns, ts, p) # {} /\ Min(Holding(ns, ts, p)) = i
    BY <1>1, <1>2
  <2> QED BY <2>1 DEF Delete
<1>4. Sound(u) /\ Leaves(u) = Leaves(t) \ {a} /\ u.height = t.height /\ u.width = t.width
  BY RemovedIs DEF Grown
<1>5. Grown(ns, [ts EXCEPT ![i] = u])
  BY <1>4, GrownExcept
<1>6. \A j \in DOMAIN ns : [ts EXCEPT ![i] = u][j] = IF j = i THEN u ELSE ts[j]
  BY DEF Grown
<1> QED BY <1>3, <1>4, <1>5, <1>6

-----------------------------------------------------------------------------
(* Reserving the rows                                                      *)

Exclusives(rs) == { r \in rs : ~r.may }

\* Rows a start with ns accepts: each fits into a net, none lies in another one.
GoodRows(ns, R) ==
  /\ \A r \in R : \E i \in DOMAIN ns : Fits(ns[i], r.prefix)
  /\ \A r, q \in R : r # q => ~Within(r.prefix, q.prefix)

\* A tree that holds good rows has room for a prefix iff the prefix fits into the empty
\* net and no row, of whatever net, lies in it or around it.
LEMMA RoomIs ==
  ASSUME NEW ns, Usable(ns), NEW R, \A r \in R : r.prefix \in AllPrefixes(Width),
         GoodRows(ns, R), NEW i \in DOMAIN ns, NEW p \in AllPrefixes(Width), Within(ns[i], p)
  PROVE  Clear(Held(ns, i, R), PathIn(ns[i], p)) <=>
           /\ Fits(ns[i], p)
           /\ \A r \in R : ~Within(r.prefix, p) /\ ~Within(p, r.prefix)
<1> DEFINE path == PathIn(ns[i], p)  F == NetworkHosts(HostBits(ns[i]), ns[i].v = 4)
           Q == { q \in R : Within(ns[i], q.prefix) }
<1>1. Clear(Held(ns, i, R), path) <=>
        Clear(F, path) /\ \A r \in Q : ~Overlap(path, PathIn(ns[i], r.prefix))
  BY DEF Held, Clear
<1>2. Clear(F, path) <=> Fits(ns[i], p)
  BY DEF Fits
<1>3. ns[i] \in AllPrefixes(Width)
  BY UsableIs
<1>4. \A r \in Q : Overlap(path, PathIn(ns[i], r.prefix)) <=>
                     Within(p, r.prefix) \/ Within(r.prefix, p)
  BY <1>3, PathsOverlap
<1>5. ASSUME NEW r \in R, Within(r.prefix, p) \/ Within(p, r.prefix) PROVE r \in Q
  <2>1. PICK j \in DOMAIN ns : Within(ns[j], r.prefix)
    BY DEF GoodRows, Fits
  <2>2. ns[j] \in AllPrefixes(Width) /\ r.prefix \in AllPrefixes(Width)
    BY UsableIs
  <2>3. CASE Within(r.prefix, p)
    <3>1. Within(ns[j], p)
      BY <2>1, <2>2, <2>3, WithinOrder
    <3>2. i = j
      BY <3>1, NetsAre
    <3> QED BY <2>1, <3>2
  <2>4. CASE Within(p, r.prefix)
    BY <1>3, <2>2, <2>4, WithinOrder
  <2> QED BY <1>5, <2>3, <2>4
<1> HIDE DEF path, F, Q
<1>6. \A r \in Q : r \in R
  BY DEF Q
<1> QED BY <1>1, <1>2, <1>4, <1>5, <1>6 DEF path

\* One row more.
LEMMA OneRowMore ==
  ASSUME NEW ns, NEW R, NEW x, x \notin R, Usable(ns), x.prefix \in AllPrefixes(Width)
  PROVE  /\ GoodRows(ns, R \cup {x}) <=>
              /\ GoodRows(ns, R)
              /\ \E i \in DOMAIN ns : Fits(ns[i], x.prefix)
              /\ \A r \in R : ~Within(r.prefix, x.prefix) /\ ~Within(x.prefix, r.prefix)
         /\ \A i \in DOMAIN ns :
              Held(ns, i, R \cup {x}) =
                IF Within(ns[i], x.prefix) THEN Held(ns, i, R) \cup {PathIn(ns[i], x.prefix)}
                                           ELSE Held(ns, i, R)
<1>1. GoodRows(ns, R \cup {x}) <=>
        /\ GoodRows(ns, R)
        /\ \E i \in DOMAIN ns : Fits(ns[i], x.prefix)
        /\ \A r \in R : ~Within(r.prefix, x.prefix) /\ ~Within(x.prefix, r.prefix)
  BY DEF GoodRows
<1>2. ASSUME NEW i \in DOMAIN ns
      PROVE  Held(ns, i, R \cup {x}) =
                IF Within(ns[i], x.prefix) THEN Held(ns, i, R) \cup {PathIn(ns[i], x.prefix)}
                                           ELSE Held(ns, i, R)
  <2> DEFINE paths(S) == { PathIn(ns[i], r.prefix) : r \in { q \in S : Within(ns[i], q.prefix) } }
  <2>1. paths(R \cup {x}) = IF Within(ns[i], x.prefix) THEN paths(R) \cup {PathIn(ns[i], x.prefix)}
                                                       ELSE paths(R)
    OBVIOUS
  <2>2. \A S : Held(ns, i, S) = NetworkHosts(HostBits(ns[i]), ns[i].v = 4) \cup paths(S)
    BY DEF Held
  <2> HIDE DEF paths
  <2> QED BY <2>1, <2>2
<1> QED BY <1>1, <1>2

\* Reserve, with rows in the trees, succeeds iff the rows are good with the new one.
LEMMA ReserveRow ==
  ASSUME NEW ns, Usable(ns), NEW R, \A r \in R : r.prefix \in AllPrefixes(Width),
         GoodRows(ns, R), NEW ts, Built(ns, ts, R),
         NEW x, x \notin R, x.prefix \in AllPrefixes(Width)
  PROVE  /\ Reserve(ns, ts, x.prefix).err = "nil" <=> GoodRows(ns, R \cup {x})
         /\ GoodRows(ns, R \cup {x}) =>
              Built(ns, Reserve(ns, ts, x.prefix).trees, R \cup {x})
<1> PICK p \in AllPrefixes(Width) : p = x.prefix
  OBVIOUS
<1>1. Grown(ns, ts) /\ \A i \in DOMAIN ns : Leaves(ts[i]) = Held(ns, i, R)
  BY DEF Built
<1>2. CASE \A i \in DOMAIN ns : ~Within(ns[i], p)
  <2>1. Reserve(ns, ts, p).err = "ErrOutOfNet"
    BY <1>1, <1>2, ReserveIs
  <2>2. ~GoodRows(ns, R \cup {x})
    BY <1>2 DEF GoodRows, Fits
  <2> QED BY <2>1, <2>2
<1>3. ASSUME NEW i \in DOMAIN ns, Within(ns[i], p)
      PROVE  /\ Reserve(ns, ts, p).err = "nil" <=> GoodRows(ns, R \cup {x})
             /\ GoodRows(ns, R \cup {x}) => Built(ns, Reserve(ns, ts, p).trees, R \cup {x})
  <2>1. Clear(Leaves(ts[i]), PathIn(ns[i], p)) <=>
          Fits(ns[i], p) /\ \A r \in R : ~Within(r.prefix, p) /\ ~Within(p, r.prefix)
    BY <1>1, <1>3, RoomIs
  <2>2. \A j \in DOMAIN ns : Within(ns[j], p) <=> j = i
    BY <1>3, NetsAre
  <2>3. GoodRows(ns, R \cup {x}) <=> Clear(Leaves(ts[i]), PathIn(ns[i], p))
    <3>1. (\E j \in DOMAIN ns : Fits(ns[j], p)) <=> Fits(ns[i], p)
      BY <2>2 DEF Fits
    <3> QED BY <2>1, <3>1, OneRowMore
  <2>4. CASE ~Clear(Leaves(ts[i]), PathIn(ns[i], p))
    <3>1. Reserve(ns, ts, p).err = "ErrOverlaps"
      BY <1>1, <1>3, <2>4, ReserveIs
    <3> QED BY <2>3, <2>4, <3>1
  <2>5. CASE Clear(Leaves(ts[i]), PathIn(ns[i], p))
    <3> PICK a : a = PathIn(ns[i], p)
      OBVIOUS
    <3>1. a \in Path(HostBits(ns[i])) /\ Clear(Leaves(ts[i]), a)
      BY <1>3, <2>5, UsableIs, PathInIs
    <3> PICK us : us = [ts EXCEPT ![i] = Inserted(ts[i], a)]
      OBVIOUS
    <3>2. Reserve(ns, ts, p) = [err |-> "nil", trees |-> us]
      BY <1>1, <1>3, <2>5, ReserveIs
    <3>3. /\ Grown(ns, us)
          /\ \A j \in DOMAIN ns : Leaves(us[j]) = IF j = i THEN Leaves(ts[i]) \cup {a} ELSE Leaves(ts[j])
      <4>1. Grown(ns, [ts EXCEPT ![i] = Inserted(ts[i], a)])
        BY <1>1, <3>1, PutInNet
      <4>2. Leaves(Inserted(ts[i], a)) = Leaves(ts[i]) \cup {a}
        BY <1>1, <3>1, PutInNet
      <4>3. \A j \in DOMAIN ns : us[j] = IF j = i THEN Inserted(ts[i], a) ELSE ts[j]
        BY <1>1 DEF Grown
      <4>4. Grown(ns, us)
        BY <4>1, Zenon
      <4>5. ASSUME NEW j \in DOMAIN ns
            PROVE  Leaves(us[j]) = IF j = i THEN Leaves(ts[i]) \cup {a} ELSE Leaves(ts[j])
        <5>1. CASE j = i
          <6>1. us[j] = Inserted(ts[i], a)
            BY <4>3, <5>1
          <6> QED BY <4>2, <5>1, <6>1
        <5>2. CASE j # i
          <6>1. us[j] = ts[j]
            BY <4>3, <5>2
          <6> QED BY <5>2, <6>1
        <5> QED BY <5>1, <5>2
      <4> QED BY <4>4, <4>5, Zenon
    <3>4. \A j \in DOMAIN ns : Held(ns, j, R \cup {x}) = IF j = i THEN Held(ns, i, R) \cup {a}
                                                                 ELSE Held(ns, j, R)
      <4>1. \A j \in DOMAIN ns :
              Held(ns, j, R \cup {x}) =
                IF Within(ns[j], x.prefix) THEN Held(ns, j, R) \cup {PathIn(ns[j], x.prefix)}
                                           ELSE Held(ns, j, R)
        BY OneRowMore
      <4> QED BY <2>2, <4>1
    <3>5. Built(ns, us, R \cup {x})
      BY <1>1, <3>3, <3>4 DEF Built
    <3> QED BY <2>3, <2>5, <3>2, <3>5
  <2> QED BY <2>4, <2>5
<1> QED BY <1>2, <1>3

-----------------------------------------------------------------------------
(* The loops of NewService and of the rollback                             *)

\* One turn: a row reserved unless an error has come before, a prefix deleted.
Turned(loop, ns, x, y) ==
  IF loop = "load" THEN IF y.err = "nil" THEN Reserve(ns, y.trees, x.prefix) ELSE y
                   ELSE Delete(ns, y, x).trees

\* What the loop over s leaves, g telling it for smaller sets.
LoopOver(loop, ns, base, s, g) ==
  IF s = {} THEN base
  ELSE LET x == CHOOSE x \in s : TRUE IN Turned(loop, ns, x, g[s \ {x}])

IsLoop(loop, ns, base, S, g) == g = [s \in SUBSET S |-> LoopOver(loop, ns, base, s, g)]

\* There is such a function, built for larger and larger sets.
LEMMA LoopExists ==
  ASSUME NEW loop, NEW ns, NEW base, NEW S, IsFiniteSet(S)
  PROVE  \E g : IsLoop(loop, ns, base, S, g)
<1> PICK N \in Nat : N = Cardinality(S)
  BY FS_CardinalityType
<1> DEFINE Step(g) == [s \in SUBSET S |-> LoopOver(loop, ns, base, s, g)]
           M == { n \in 0..N : \E g : /\ g = [s \in SUBSET S |-> g[s]]
                                      /\ \A s \in SUBSET S : Cardinality(s) <= n => g[s] = LoopOver(loop, ns, base, s, g) }
<1>1. \A s \in SUBSET S : /\ IsFiniteSet(s) /\ Cardinality(s) \in 0..N
                          /\ Cardinality(s) = 0 <=> s = {}
                          /\ \A x \in s : Cardinality(s \ {x}) = Cardinality(s) - 1
  <2> SUFFICES ASSUME NEW s \in SUBSET S
               PROVE  /\ IsFiniteSet(s) /\ Cardinality(s) \in 0..N
                      /\ Cardinality(s) = 0 <=> s = {}
                      /\ \A x \in s : Cardinality(s \ {x}) = Cardinality(s) - 1
    OBVIOUS
  <2>1. IsFiniteSet(s) /\ Cardinality(s) <= N
    BY FS_Subset
  <2> QED BY <2>1, FS_CardinalityType, FS_EmptySet, FS_RemoveElement
<1>2. 0 \in M
  <2> DEFINE g == Step(<<>>)
  <2>1. g = [s \in SUBSET S |-> g[s]] /\ \A s \in SUBSET S : g[s] = LoopOver(loop, ns, base, s, <<>>)
    OBVIOUS
  <2>2. \A s \in SUBSET S : Cardinality(s) <= 0 => g[s] = LoopOver(loop, ns, base, s, g)
    <3> SUFFICES ASSUME NEW s \in SUBSET S, Cardinality(s) <= 0 PROVE g[s] = LoopOver(loop, ns, base, s, g)
      OBVIOUS
    <3>1. Cardinality(s) \in 0..N /\ (Cardinality(s) = 0 <=> s = {})
      BY <1>1, Zenon
    <3>2. s = {}
      BY <3>1
    <3> HIDE DEF g
    <3> QED BY <2>1, <3>2 DEF LoopOver
  <2>3. 0 \in 0..N
    OBVIOUS
  <2> HIDE DEF g
  <2> QED BY <2>1, <2>2, <2>3
<1>3. ASSUME NEW n \in 0..N - 1, n \in M PROVE n + 1 \in M
  <2>1. PICK f : /\ f = [s \in SUBSET S |-> f[s]]
                 /\ \A s \in SUBSET S : Cardinality(s) <= n => f[s] = LoopOver(loop, ns, base, s, f)
    BY <1>3
  <2> DEFINE g == Step(f)
  <2>2. g = [s \in SUBSET S |-> g[s]] /\ \A s \in SUBSET S : g[s] = LoopOver(loop, ns, base, s, f)
    OBVIOUS
  <2>3. ASSUME NEW s \in SUBSET S, Cardinality(s) <= n + 1 PROVE g[s] = LoopOver(loop, ns, base, s, g)
    <3>1. CASE s = {}
      <4> HIDE DEF g
      <4> QED BY <2>2, <3>1 DEF LoopOver
    <3>2. CASE s # {}
      <4>1. PICK x \in s : x = CHOOSE y \in s : TRUE
        BY <3>2
      <4>2. s \ {x} \in SUBSET S /\ Cardinality(s \ {x}) <= n
        <5>1. Cardinality(s) \in 0..N /\ Cardinality(s \ {x}) = Cardinality(s) - 1
          BY <1>1, Zenon
        <5> QED BY <2>3, <5>1
      <4> HIDE DEF g
      <4>3. f[s \ {x}] = g[s \ {x}]
        BY <2>1, <2>2, <4>2
      <4> QED BY <2>2, <3>2, <4>1, <4>3 DEF LoopOver
    <3> QED BY <3>1, <3>2
  <2>4. n + 1 \in 0..N
    OBVIOUS
  <2> HIDE DEF g
  <2> QED BY <2>2, <2>3, <2>4
<1>4. \A n \in 0..N : n \in M
  <2> HIDE DEF M
  <2> QED BY <1>2, <1>3, NatsUpTo
<1>5. PICK g : /\ g = [s \in SUBSET S |-> g[s]]
               /\ \A s \in SUBSET S : Cardinality(s) <= N => g[s] = LoopOver(loop, ns, base, s, g)
  <2>1. N \in M
    <3> HIDE DEF M
    <3> QED BY <1>4
  <2> QED BY <2>1
<1>6. \A s \in SUBSET S : g[s] = LoopOver(loop, ns, base, s, g)
  <2> SUFFICES ASSUME NEW s \in SUBSET S PROVE g[s] = LoopOver(loop, ns, base, s, g)
    OBVIOUS
  <2>1. Cardinality(s) <= N
    BY <1>1
  <2> QED BY <1>5, <2>1
<1>7. g = [s \in SUBSET S |-> LoopOver(loop, ns, base, s, g)]
  BY <1>5, <1>6
<1> QED BY <1>7 DEF IsLoop

\* NewService's loop over the rows S.
Loaded(ns, base, S) ==
  FoldSet(LAMBDA r, s : IF s.err = "nil" THEN Reserve(ns, s.trees, r.prefix) ELSE s, base, S)

\* The rollback's loop over the prefixes S.
GivenBack(ns, base, S) == FoldSet(LAMBDA p, s : Delete(ns, s, p).trees, base, S)

LoadOver(ns, base, s, g) ==
  IF s = {} THEN base
  ELSE LET x == CHOOSE x \in s : TRUE
       IN IF g[s \ {x}].err = "nil" THEN Reserve(ns, g[s \ {x}].trees, x.prefix) ELSE g[s \ {x}]

GiveOver(ns, base, s, g) ==
  IF s = {} THEN base
  ELSE LET x == CHOOSE x \in s : TRUE IN Delete(ns, g[s \ {x}], x).trees

\* A fold is such a loop.
LEMMA LoadFolds ==
  ASSUME NEW ns, NEW base, NEW S, IsFiniteSet(S)
  PROVE  \E g : IsLoop("load", ns, base, S, g) /\ Loaded(ns, base, S) = g[S]
<1> DEFINE g == CHOOSE g : g = [s \in SUBSET S |-> LoadOver(ns, base, s, g)]
<1>1. \A s, f : LoadOver(ns, base, s, f) = LoopOver("load", ns, base, s, f)
  BY DEF LoadOver, LoopOver, Turned
<1>2. g = [s \in SUBSET S |-> LoadOver(ns, base, s, g)]
  <2>1. PICK f : f = [s \in SUBSET S |-> LoopOver("load", ns, base, s, f)]
    <3>1. \E f : IsLoop("load", ns, base, S, f)
      BY LoopExists
    <3> QED BY <3>1, Zenon DEF IsLoop
  <2>2. [s \in SUBSET S |-> LoopOver("load", ns, base, s, f)] = [s \in SUBSET S |-> LoadOver(ns, base, s, f)]
    BY <1>1
  <2>3. \E e : e = [s \in SUBSET S |-> LoadOver(ns, base, s, e)]
    BY <2>1, <2>2
  <2> QED BY <2>3, Zenon
<1>3. Loaded(ns, base, S) = g[S]
  BY Zenon DEF Loaded, FoldSet, MapThenFoldSet, LoadOver
<1>4. [s \in SUBSET S |-> LoopOver("load", ns, base, s, g)] = [s \in SUBSET S |-> LoadOver(ns, base, s, g)]
  <2> HIDE DEF g
  <2> QED BY <1>1
<1> HIDE DEF g
<1> QED BY <1>2, <1>3, <1>4 DEF IsLoop

\* The same of the rollback.
LEMMA GiveFolds ==
  ASSUME NEW ns, NEW base, NEW S, IsFiniteSet(S)
  PROVE  \E g : IsLoop("give", ns, base, S, g) /\ GivenBack(ns, base, S) = g[S]
<1> DEFINE g == CHOOSE g : g = [s \in SUBSET S |-> GiveOver(ns, base, s, g)]
<1>1. \A s, f : GiveOver(ns, base, s, f) = LoopOver("give", ns, base, s, f)
  BY DEF GiveOver, LoopOver, Turned
<1>2. g = [s \in SUBSET S |-> GiveOver(ns, base, s, g)]
  <2>1. PICK f : f = [s \in SUBSET S |-> LoopOver("give", ns, base, s, f)]
    <3>1. \E f : IsLoop("give", ns, base, S, f)
      BY LoopExists
    <3> QED BY <3>1, Zenon DEF IsLoop
  <2>2. [s \in SUBSET S |-> LoopOver("give", ns, base, s, f)] = [s \in SUBSET S |-> GiveOver(ns, base, s, f)]
    BY <1>1
  <2>3. \E e : e = [s \in SUBSET S |-> GiveOver(ns, base, s, e)]
    BY <2>1, <2>2
  <2> QED BY <2>3, Zenon
<1>3. GivenBack(ns, base, S) = g[S]
  BY Zenon DEF GivenBack, FoldSet, MapThenFoldSet, GiveOver
<1>4. [s \in SUBSET S |-> LoopOver("give", ns, base, s, g)] = [s \in SUBSET S |-> GiveOver(ns, base, s, g)]
  <2> HIDE DEF g
  <2> QED BY <1>1
<1> HIDE DEF g
<1> QED BY <1>2, <1>3, <1>4 DEF IsLoop

\* NewService succeeds iff the rows are good, in whatever order they are read, and then
\* the trees hold them.
LEMMA LoadIs ==
  ASSUME NEW ns, Usable(ns), NEW R, IsFiniteSet(R), \A r \in R : r.prefix \in AllPrefixes(Width),
         NEW base, base = [err |-> "nil", trees |-> [i \in DOMAIN ns |-> NewAddrTree(ns[i])]]
  PROVE  /\ Loaded(ns, base, R).err = "nil" <=> GoodRows(ns, R)
         /\ GoodRows(ns, R) => Built(ns, Loaded(ns, base, R).trees, R)
<1>1. PICK g : IsLoop("load", ns, base, R, g) /\ Loaded(ns, base, R) = g[R]
  BY LoadFolds
<1> DEFINE Good(s) == /\ g[s].err = "nil" <=> GoodRows(ns, s)
                      /\ GoodRows(ns, s) => Built(ns, g[s].trees, s)
           T == { s \in SUBSET R : Good(s) }
<1>2. \A s \in SUBSET R : g[s] = LoopOver("load", ns, base, s, g)
  BY <1>1 DEF IsLoop
<1>3. {} \in T
  <2>1. g[{}] = base
    BY <1>2 DEF LoopOver
  <2>2. GoodRows(ns, {})
    BY DEF GoodRows
  <2> QED BY <2>1, <2>2, NewTreesAre
<1>4. ASSUME NEW s \in SUBSET R, s # {}, s \ {CHOOSE x \in s : TRUE} \in T PROVE s \in T
  <2>1. PICK x \in s : x = CHOOSE y \in s : TRUE
    BY <1>4
  <2>2. PICK r \in SUBSET R : r = s \ {x}
    OBVIOUS
  <2>3. PICK y : y = g[r]
    OBVIOUS
  <2>4. (y.err = "nil" <=> GoodRows(ns, r)) /\ (GoodRows(ns, r) => Built(ns, y.trees, r))
    BY <1>4, <2>1, <2>2, <2>3
  <2>5. g[s] = IF y.err = "nil" THEN Reserve(ns, y.trees, x.prefix) ELSE y
    BY <1>2, <1>4, <2>1, <2>2, <2>3 DEF LoopOver, Turned
  <2>6. s = r \cup {x} /\ x \notin r /\ x.prefix \in AllPrefixes(Width)
    BY <2>2
  <2>7. CASE GoodRows(ns, r)
    <3>1. /\ Reserve(ns, y.trees, x.prefix).err = "nil" <=> GoodRows(ns, r \cup {x})
          /\ GoodRows(ns, r \cup {x}) => Built(ns, Reserve(ns, y.trees, x.prefix).trees, r \cup {x})
      BY <2>4, <2>6, <2>7, ReserveRow
    <3> QED BY <2>4, <2>5, <2>6, <2>7, <3>1
  <2>8. CASE ~GoodRows(ns, r)
    <3>1. ~GoodRows(ns, s)
      BY <2>6, <2>8, OneRowMore
    <3> QED BY <2>4, <2>5, <2>8, <3>1
  <2> QED BY <2>7, <2>8
<1>5. R \in T
  <2> HIDE DEF T
  <2> QED BY <1>3, <1>4, SubsetsAreAll
<1> QED BY <1>1, <1>5

\* The paths that prefixes have in a net.
Back(ns, i, P) == { PathIn(ns[i], p) : p \in { q \in P : Within(ns[i], q) } }

\* The rollback takes the prefixes out of the trees of their nets, and nothing else.
LEMMA GivenBackIs ==
  ASSUME NEW ns, Usable(ns), NEW ts, Grown(ns, ts),
         NEW P \in SUBSET AllPrefixes(Width), IsFiniteSet(P),
         \A p \in P : \E i \in DOMAIN ns : Within(ns[i], p) /\ PathIn(ns[i], p) \in Leaves(ts[i]),
         \A p, q \in P : \A i \in DOMAIN ns :
           Within(ns[i], p) /\ Within(ns[i], q) /\ PathIn(ns[i], p) = PathIn(ns[i], q) => p = q
  PROVE  /\ Grown(ns, GivenBack(ns, ts, P))
         /\ \A i \in DOMAIN ns : Leaves(GivenBack(ns, ts, P)[i]) = Leaves(ts[i]) \ Back(ns, i, P)
<1>1. PICK g : IsLoop("give", ns, ts, P, g) /\ GivenBack(ns, ts, P) = g[P]
  BY GiveFolds
<1> DEFINE Good(s) == /\ Grown(ns, g[s])
                      /\ \A i \in DOMAIN ns : Leaves(g[s][i]) = Leaves(ts[i]) \ Back(ns, i, s)
           T == { s \in SUBSET P : Good(s) }
<1>2. \A s \in SUBSET P : g[s] = LoopOver("give", ns, ts, s, g)
  BY <1>1 DEF IsLoop
<1>3. {} \in T
  <2>1. g[{}] = ts
    BY <1>2 DEF LoopOver
  <2>2. \A i \in DOMAIN ns : Back(ns, i, {}) = {}
    BY DEF Back
  <2> QED BY <2>1, <2>2
<1>4. ASSUME NEW s \in SUBSET P, s # {}, s \ {CHOOSE x \in s : TRUE} \in T PROVE s \in T
  <2>1. PICK x \in s : x = CHOOSE y \in s : TRUE
    BY <1>4
  <2>2. PICK r \in SUBSET P : r = s \ {x}
    OBVIOUS
  <2>3. PICK y : y = g[r]
    OBVIOUS
  <2>4. Grown(ns, y) /\ \A i \in DOMAIN ns : Leaves(y[i]) = Leaves(ts[i]) \ Back(ns, i, r)
    BY <1>4, <2>1, <2>2, <2>3
  <2>5. g[s] = Delete(ns, y, x).trees
    BY <1>2, <1>4, <2>1, <2>2, <2>3 DEF LoopOver, Turned
  <2>6. s = r \cup {x} /\ x \notin r /\ x \in AllPrefixes(Width)
    BY <2>2
  <2>7. PICK i \in DOMAIN ns : Within(ns[i], x) /\ PathIn(ns[i], x) \in Leaves(ts[i])
    OBVIOUS
  <2>8. PathIn(ns[i], x) \notin Back(ns, i, r)
    BY <2>2, <2>7 DEF Back
  <2>9. PathIn(ns[i], x) \in Leaves(y[i])
    BY <2>4, <2>7, <2>8
  <2>10. /\ Grown(ns, Delete(ns, y, x).trees)
         /\ Leaves(Delete(ns, y, x).trees[i]) = Leaves(y[i]) \ {PathIn(ns[i], x)}
         /\ \A j \in DOMAIN ns : j # i => Delete(ns, y, x).trees[j] = y[j]
    BY <2>4, <2>6, <2>7, <2>9, DeleteIs
  <2>11. ASSUME NEW j \in DOMAIN ns
         PROVE  Leaves(g[s][j]) = Leaves(ts[j]) \ Back(ns, j, s)
    <3>1. Within(ns[j], x) <=> j = i
      BY <2>6, <2>7, NetsAre
    <3>2. Back(ns, j, s) = IF j = i THEN Back(ns, j, r) \cup {PathIn(ns[j], x)} ELSE Back(ns, j, r)
      BY <2>6, <3>1 DEF Back
    <3>3. /\ j = i => Leaves(g[s][j]) = Leaves(y[i]) \ {PathIn(ns[i], x)}
          /\ j # i => Leaves(g[s][j]) = Leaves(y[j])
      BY <2>5, <2>10
    <3> QED BY <2>4, <3>2, <3>3
  <2> QED BY <2>5, <2>10, <2>11
<1>5. P \in T
  <2> HIDE DEF T
  <2> QED BY <1>3, <1>4, SubsetsAreAll
<1> QED BY <1>1, <1>5

-----------------------------------------------------------------------------
(* Starting                                                                *)

\* The table as SQLite keeps it: an id of AUTOINCREMENT is of one row only.
RowsTyped ==
  /\ rows \subseteq [id : 1..MaxSubnetId, prefix : AllPrefixes(Width), may : BOOLEAN]
  /\ IsFiniteSet(rows)
  /\ nextSubnet \in 1..MaxSubnetId + 1
  /\ \A r \in rows : r.id < nextSubnet
  /\ \A r, q \in rows : r.id = q.id => r = q

\* The exclusive rows of the table.
LEMMA ExclusivesAre ==
  ASSUME RowsTyped
  PROVE  /\ Exclusives(rows) \subseteq rows /\ IsFiniteSet(Exclusives(rows))
         /\ \A r \in Exclusives(rows) : r.prefix \in AllPrefixes(Width)
<1>1. Exclusives(rows) \subseteq rows
  BY DEF Exclusives
<1>2. IsFiniteSet(rows) /\ \A r \in rows : r.prefix \in AllPrefixes(Width)
  BY DEF RowsTyped
<1> QED BY <1>1, <1>2, FS_Subset

\* A start with ns succeeds iff the nets can have trees and the rows are good for them,
\* and then the trees hold the rows.
LEMMA StartsIs ==
  ASSUME RowsTyped, NEW ns \in Configs
  PROVE  /\ Starts(ns) <=> Usable(ns) /\ GoodRows(ns, Exclusives(rows))
         /\ Starts(ns) => Built(ns, Load(ns, rows).trees, Exclusives(rows))
<1> PICK base : base = [err |-> "nil", trees |-> [i \in DOMAIN ns |-> NewAddrTree(ns[i])]]
  OBVIOUS
<1>1. Usable(ns) <=> ParsedNets(ns) /\ \A i \in DOMAIN ns : TreeFits(ns[i], CounterBits)
  BY ConfigAssumption DEF Usable
<1>2. Load(ns, rows) = Loaded(ns, base, Exclusives(rows))
  BY Zenon DEF Load, Loaded, Exclusives
<1>3. ASSUME Usable(ns)
      PROVE  /\ Loaded(ns, base, Exclusives(rows)).err = "nil" <=> GoodRows(ns, Exclusives(rows))
             /\ GoodRows(ns, Exclusives(rows)) =>
                  Built(ns, Loaded(ns, base, Exclusives(rows)).trees, Exclusives(rows))
  BY <1>3, ExclusivesAre, LoadIs
<1>4. Starts(ns) <=> Usable(ns) /\ Load(ns, rows).err = "nil"
  BY <1>1 DEF Starts
<1> QED BY <1>2, <1>3, <1>4

-----------------------------------------------------------------------------
(* Assigning                                                               *)

\* A free address of every net.
Picks(ns, ts) ==
  { pick \in [DOMAIN ns -> UNION { Address(HostBits(ns[i])) : i \in DOMAIN ns }] :
      \A i \in DOMAIN ns : pick[i] \in Address(HostBits(ns[i])) /\ Clear(Leaves(ts[i]), pick[i]) }

\* us are the trees ts with such an address put into each.
Takes(ns, ts, us, pick) ==
  /\ pick \in Picks(ns, ts) /\ Grown(ns, us)
  /\ \A i \in DOMAIN ns : Leaves(us[i]) = Leaves(ts[i]) \cup {pick[i]}

\* The addresses as prefixes, in the order of the nets.
Hosted(ns, pick) == [i \in 1..Len(ns) |-> HostPrefix(ns[i], pick[i])]

\* A tree always holds host 0, so the number of its free addresses fits its counter.
LEMMA DrawnIs ==
  ASSUME NEW ns, Usable(ns), NEW R, NEW ts, Built(ns, ts, R), NEW i \in DOMAIN ns
  PROVE  /\ FreeAddrs(ts[i], CounterBits) \in Nat
         /\ FreeAddrs(ts[i], CounterBits) = 0 =>
              \A a \in Address(HostBits(ns[i])) : ~Clear(Leaves(ts[i]), a)
         /\ \A n \in Nat : n < FreeAddrs(ts[i], CounterBits) =>
              /\ NthFree(ts[i], n) \in Address(HostBits(ns[i]))
              /\ Clear(Leaves(ts[i]), NthFree(ts[i], n))
<1> PICK t, h : t = ts[i] /\ h = HostBits(ns[i])
  OBVIOUS
<1>1. Sound(t) /\ t.height = h /\ h \in Nat /\ CounterBits \in Nat /\ h <= CounterBits
  BY UsableIs DEF Built, Grown
<1>2. t.nodes # {}
  <2>1. [k \in 1..h |-> 0] \in NetworkHosts(h, ns[i].v = 4)
    BY ZeroOrOne DEF NetworkHosts, Address
  <2>2. Leaves(t) # {}
    BY <2>1 DEF Built, Held
  <2> QED BY <2>2 DEF Leaves
<1>3. FreeAddrs(t, CounterBits) = Cardinality(FreeHosts(t, <<>>))
  BY <1>1, <1>2, FreeAddrsIs
<1>4. IsFiniteSet(FreeHosts(t, <<>>)) /\ Cardinality(FreeHosts(t, <<>>)) \in Nat
  BY <1>1, RootIs, FreeCount
<1>5. FreeHosts(t, <<>>) = { a \in Address(h) : Clear(Leaves(t), a) }
  BY <1>1, FreeIs
<1>6. Cardinality(FreeHosts(t, <<>>)) = 0 => FreeHosts(t, <<>>) = {}
  BY <1>4, FS_EmptySet
<1>7. \A n \in Nat : n < Cardinality(FreeHosts(t, <<>>)) => NthFree(t, n) \in FreeHosts(t, <<>>)
  BY <1>1, NthFreeFinds
<1> QED BY <1>3, <1>4, <1>5, <1>6, <1>7

\* What AssignRandomInEachNet does to the tree of one net: an address put, and given back.
LEMMA TakenOnce ==
  ASSUME NEW t, Sound(t), NEW a \in Path(t.height), Clear(Leaves(t), a)
  PROVE  LET u == Inserted(t, a)
             w == Removed(u, a)
         IN /\ Sound(u) /\ Leaves(u) = Leaves(t) \cup {a}
            /\ u.height = t.height /\ u.width = t.width
            /\ Sound(w) /\ Leaves(w) = Leaves(t)
            /\ w.height = t.height /\ w.width = t.width
<1> PICK u : u = Inserted(t, a)
  OBVIOUS
<1>1. Sound(u) /\ Leaves(u) = Leaves(t) \cup {a} /\ u.height = t.height /\ u.width = t.width
  BY InsertedIs
<1>2. /\ Sound(Removed(u, a)) /\ Leaves(Removed(u, a)) = Leaves(u) \ {a}
      /\ Removed(u, a).height = u.height /\ Removed(u, a).width = u.width
  BY <1>1, RemovedIs
<1>3. a \notin Leaves(t)
  <2>1. t.height \in Nat
    BY DEF Sound
  <2>2. Overlap(a, a)
    BY <2>1, OverOrder, HostsShared
  <2> QED BY <2>2 DEF Clear
<1> QED BY <1>1, <1>2, <1>3

\* A net without a free address: nothing is answered, and the trees hold what they held.
LEMMA AssignedNone ==
  ASSUME NEW ns, Usable(ns), NEW R, NEW ts, Built(ns, ts, R), NEW n \in Draws(ns, ts),
         NEW e \in DOMAIN ns, FreeAddrs(ts[e], CounterBits) = 0
  PROVE  /\ Assigned(ns, ts, n).err = "ErrNoFreeAddr" /\ Assigned(ns, ts, n).prefixes = <<>>
         /\ Built(ns, Assigned(ns, ts, n).trees, R)
<1> DEFINE full == { i \in DOMAIN ns : FreeAddrs(ts[i], CounterBits) = 0 }
           last == IF full = {} THEN Len(ns) ELSE Min(full) - 1
           path == [i \in 1..last |-> NthFree(ts[i], n[i])]
           prefixes == [i \in 1..last |-> HostPrefix(ns[i], path[i])]
           put == [i \in DOMAIN ts |-> IF i <= last THEN Inserted(ts[i], path[i]) ELSE ts[i]]
           us == [i \in DOMAIN ts |->
                    IF i <= last THEN Removed(put[i], PathIn(ns[i], prefixes[i])) ELSE put[i]]
<1>1. /\ Grown(ns, ts) /\ DOMAIN ts = DOMAIN ns
      /\ Len(ns) \in Nat /\ DOMAIN ns = 1..Len(ns)
  BY NetsAre DEF Built, Grown
<1>2. full # {} /\ full \in SUBSET Nat
  BY <1>1
<1>3. Min(full) \in full /\ \A i \in full : Min(full) <= i
  <2> HIDE DEF full
  <2> QED BY <1>2, MinIs
<1>4. last = Min(full) - 1
  BY <1>2
<1>5. last \in Nat /\ 1..last \subseteq DOMAIN ns /\ \A i \in 1..last : i \notin full
  <2>1. PICK m : m = Min(full)
    OBVIOUS
  <2>2. m \in 1..Len(ns) /\ \A i \in full : i \in Nat /\ m <= i
    BY <1>1, <1>3, <2>1
  <2> HIDE DEF full, last
  <2> QED BY <1>1, <1>4, <2>1, <2>2
<1>6. Assigned(ns, ts, n) = [err |-> "ErrNoFreeAddr", prefixes |-> <<>>, trees |-> us]
  BY <1>2, Zenon DEF Assigned
<1>7. ASSUME NEW i \in DOMAIN ns
      PROVE  /\ Sound(us[i]) /\ us[i].height = HostBits(ns[i]) /\ us[i].width = UintBits(ns[i])
             /\ Leaves(us[i]) = Leaves(ts[i])
  <2>1. i \in Nat /\ last \in Nat
    BY <1>1, <1>5
  <2>2. CASE ~(i <= last)
    <3>1. us[i] = ts[i]
      BY <1>1, <2>2
    <3> QED BY <1>1, <3>1 DEF Grown
  <2>3. CASE i <= last
    <3>1. i \in 1..last /\ i \notin full
      BY <1>1, <1>5, <2>1, <2>3
    <3> PICK a : a = NthFree(ts[i], n[i])
      OBVIOUS
    <3> PICK u : u = Inserted(ts[i], a)
      OBVIOUS
    <3>2. path[i] = a /\ prefixes[i] = HostPrefix(ns[i], a)
      BY <3>1
    <3>3. put[i] = u
      BY <1>1, <2>3, <3>2
    <3>4. a \in Address(HostBits(ns[i])) /\ Clear(Leaves(ts[i]), a)
      <4>1. n[i] \in 0..2^CounterBits - 1 /\ n[i] < FreeAddrs(ts[i], CounterBits)
        BY <3>1 DEF Draws
      <4>2. n[i] \in Nat
        <5>1. 2^CounterBits \in Nat
          BY WidthAssumption, PowerOfTwo
        <5> QED BY <4>1, <5>1
      <4> QED BY <4>1, <4>2, DrawnIs
    <3>5. PathIn(ns[i], prefixes[i]) = a
      BY <3>2, <3>4, UsableIs, HostPrefixIs
    <3>6. us[i] = Removed(u, a)
      <4> HIDE DEF path, prefixes, put, full, last
      <4> QED BY <1>1, <2>3, <3>3, <3>5
    <3>7. a \in Path(ts[i].height) /\ Sound(ts[i])
      BY <1>1, <3>4, UsableIs, PathIs DEF Grown
    <3>8. /\ Sound(Removed(u, a)) /\ Leaves(Removed(u, a)) = Leaves(ts[i])
          /\ Removed(u, a).height = ts[i].height /\ Removed(u, a).width = ts[i].width
      BY <3>4, <3>7, TakenOnce
    <3> HIDE DEF us
    <3> QED BY <1>1, <3>6, <3>8 DEF Grown
  <2> QED BY <2>2, <2>3
<1>8. us = [i \in DOMAIN ns |-> us[i]]
  BY <1>1
<1> HIDE DEF us
<1>9. Built(ns, us, R)
  BY <1>7, <1>8 DEF Built, Grown
<1> QED BY <1>6, <1>9

\* A free address in every net: each is drawn and put.
LEMMA AssignedAll ==
  ASSUME NEW ns, Usable(ns), NEW R, NEW ts, Built(ns, ts, R), NEW n \in Draws(ns, ts),
         \A i \in DOMAIN ns : FreeAddrs(ts[i], CounterBits) # 0
  PROVE  /\ Assigned(ns, ts, n).err = "nil"
         /\ \E pick : /\ Assigned(ns, ts, n).prefixes = Hosted(ns, pick)
                       /\ Takes(ns, ts, Assigned(ns, ts, n).trees, pick)
<1> DEFINE full == { i \in DOMAIN ns : FreeAddrs(ts[i], CounterBits) = 0 }
           last == IF full = {} THEN Len(ns) ELSE Min(full) - 1
           path == [i \in 1..last |-> NthFree(ts[i], n[i])]
           prefixes == [i \in 1..last |-> HostPrefix(ns[i], path[i])]
           put == [i \in DOMAIN ts |-> IF i <= last THEN Inserted(ts[i], path[i]) ELSE ts[i]]
<1>1. /\ Grown(ns, ts) /\ DOMAIN ts = DOMAIN ns
      /\ Len(ns) \in Nat /\ DOMAIN ns = 1..Len(ns)
  BY NetsAre DEF Built, Grown
<1>2. full = {} /\ last = Len(ns)
  OBVIOUS
<1>3. Assigned(ns, ts, n) = [err |-> "nil", prefixes |-> prefixes, trees |-> put]
  BY <1>2, Zenon DEF Assigned
<1> PICK pick : pick = [i \in DOMAIN ns |-> NthFree(ts[i], n[i])]
  OBVIOUS
<1>4. ASSUME NEW i \in DOMAIN ns
      PROVE  pick[i] \in Address(HostBits(ns[i])) /\ Clear(Leaves(ts[i]), pick[i])
  <2>1. n[i] \in 0..2^CounterBits - 1 /\ n[i] < FreeAddrs(ts[i], CounterBits)
    BY DEF Draws
  <2>2. n[i] \in Nat
    <3>1. 2^CounterBits \in Nat
      BY WidthAssumption, PowerOfTwo
    <3> QED BY <2>1, <3>1
  <2> QED BY <2>1, <2>2, DrawnIs
<1>5. pick \in Picks(ns, ts)
  <2>1. pick \in [DOMAIN ns -> UNION { Address(HostBits(ns[i])) : i \in DOMAIN ns }]
    BY <1>4
  <2> QED BY <1>4, <2>1 DEF Picks
<1>6. prefixes = [i \in 1..Len(ns) |-> HostPrefix(ns[i], pick[i])]
  <2>1. \A i \in 1..Len(ns) : path[i] = pick[i]
    BY <1>1, <1>2
  <2> HIDE DEF path, last
  <2> QED BY <1>2, <2>1
<1>7. put = [i \in DOMAIN ns |-> put[i]] /\ \A i \in DOMAIN ns : put[i] = Inserted(ts[i], pick[i])
  <2>1. \A i \in 1..Len(ns) : path[i] = pick[i] /\ i <= last
    BY <1>1, <1>2
  <2> HIDE DEF path, last
  <2> QED BY <1>1, <2>1
<1> HIDE DEF put, prefixes
<1>8. ASSUME NEW i \in DOMAIN ns
      PROVE  /\ Sound(put[i]) /\ put[i].height = HostBits(ns[i]) /\ put[i].width = UintBits(ns[i])
             /\ Leaves(put[i]) = Leaves(ts[i]) \cup {pick[i]}
  <2> PICK a : a = pick[i]
    OBVIOUS
  <2>1. a \in Path(ts[i].height) /\ Sound(ts[i]) /\ Clear(Leaves(ts[i]), a)
    BY <1>1, <1>4, UsableIs, PathIs DEF Grown
  <2>2. LET u == Inserted(ts[i], a)
        IN /\ Sound(u) /\ Leaves(u) = Leaves(ts[i]) \cup {a}
           /\ u.height = ts[i].height /\ u.width = ts[i].width
    BY <2>1, TakenOnce
  <2> QED BY <1>1, <1>7, <2>2 DEF Grown
<1>9. Grown(ns, put)
  BY <1>7, <1>8 DEF Grown
<1> PICK a : a = Assigned(ns, ts, n)
  OBVIOUS
<1>10. a.err = "nil" /\ a.prefixes = prefixes /\ a.trees = put
  BY <1>3
<1>11. a.prefixes = Hosted(ns, pick) /\ Takes(ns, ts, a.trees, pick)
  BY <1>5, <1>6, <1>8, <1>9, <1>10 DEF Hosted, Takes
<1> QED BY <1>10, <1>11

-----------------------------------------------------------------------------
(* Rows                                                                    *)

\* What a sequence lists can be counted.
LEMMA ListFinite ==
  ASSUME NEW n \in Nat, NEW f, f = [i \in 1..n |-> f[i]]
  PROVE  IsFiniteSet({ f[i] : i \in 1..n })
<1> PICK T : T = { f[i] : i \in 1..n }
  OBVIOUS
<1>1. f \in Surjection(1..n, T)
  BY DEF Surjection
<1>2. IsFiniteSet(1..n)
  BY FS_Interval
<1> QED BY <1>1, <1>2, FS_Surjection

\* The rows that AddSubnet writes of prefixes, the first of them with the id k.
NewRows(k, prefixes, may) ==
  { [id |-> k + i - 1, prefix |-> prefixes[i], may |-> may] : i \in DOMAIN prefixes }

\* Each of them has an id that no row has had.
LEMMA RowsAdded ==
  ASSUME RowsTyped, NEW prefixes \in Seq(AllPrefixes(Width)), NEW may \in BOOLEAN,
         AddRows(prefixes, may)
  PROVE  /\ RowsTyped' /\ nextSubnet \in Nat /\ ret' = "201"
         /\ Exclusives(rows') =
              Exclusives(rows) \cup IF may THEN {} ELSE NewRows(nextSubnet, prefixes, may)
         /\ \A x \in NewRows(nextSubnet, prefixes, may) : x \notin rows
<1> PICK n \in Nat : n = Len(prefixes)
  OBVIOUS
<1> PICK X : X = NewRows(nextSubnet, prefixes, may)
  OBVIOUS
<1>1. /\ DOMAIN prefixes = 1..n /\ \A i \in 1..n : prefixes[i] \in AllPrefixes(Width)
      /\ nextSubnet \in 1..MaxSubnetId + 1 /\ MaxSubnetId \in Nat
      /\ nextSubnet + n <= MaxSubnetId + 1
      /\ rows' = rows \cup X /\ nextSubnet' = nextSubnet + n /\ ret' = "201"
  BY BoundAssumption DEF RowsTyped, AddRows, NewRows
<1>2. \A x \in X : \E i \in 1..n : x = [id |-> nextSubnet + i - 1, prefix |-> prefixes[i], may |-> may]
  BY <1>1 DEF NewRows
<1>3. \A x \in X : /\ x \in [id : 1..MaxSubnetId, prefix : AllPrefixes(Width), may : BOOLEAN]
                   /\ nextSubnet <= x.id /\ x.id < nextSubnet + n /\ x.may = may
  <2> SUFFICES ASSUME NEW i \in 1..n, NEW x,
                      x = [id |-> nextSubnet + i - 1, prefix |-> prefixes[i], may |-> may]
               PROVE  /\ x \in [id : 1..MaxSubnetId, prefix : AllPrefixes(Width), may : BOOLEAN]
                      /\ nextSubnet <= x.id /\ x.id < nextSubnet + n /\ x.may = may
    BY <1>2
  <2>1. nextSubnet + i - 1 \in 1..MaxSubnetId
    BY <1>1
  <2> QED BY <1>1, <2>1
<1>4. \A x, y \in X : x.id = y.id => x = y
  <2> SUFFICES ASSUME NEW i \in 1..n, NEW j \in 1..n, nextSubnet + i - 1 = nextSubnet + j - 1
               PROVE  i = j
    BY <1>2
  <2> QED BY <1>1
<1>5. \A r \in rows : r.id \in Nat /\ r.id < nextSubnet
  BY DEF RowsTyped
<1>6. IsFiniteSet(X)
  <2> DEFINE f == [i \in 1..n |-> [id |-> nextSubnet + i - 1, prefix |-> prefixes[i], may |-> may]]
  <2>1. X = { f[i] : i \in 1..n } /\ f = [i \in 1..n |-> f[i]]
    BY <1>1 DEF NewRows
  <2> HIDE DEF f
  <2> QED BY <2>1, ListFinite
<1>7. \A x \in X : x \notin rows
  BY <1>1, <1>3, <1>5
<1>8. RowsTyped'
  <2>1. rows' \subseteq [id : 1..MaxSubnetId, prefix : AllPrefixes(Width), may : BOOLEAN]
    BY <1>1, <1>3 DEF RowsTyped
  <2>2. IsFiniteSet(rows')
    BY <1>1, <1>6, FS_Union DEF RowsTyped
  <2>3. nextSubnet' \in 1..MaxSubnetId + 1
    BY <1>1
  <2>4. \A r \in rows' : r.id < nextSubnet'
    BY <1>1, <1>3, <1>5
  <2>5. \A r, q \in rows' : r.id = q.id => r = q
    <3> SUFFICES ASSUME NEW r \in rows', NEW q \in rows', r.id = q.id PROVE r = q
      OBVIOUS
    <3>1. CASE r \in rows /\ q \in rows
      BY <3>1 DEF RowsTyped
    <3>2. CASE r \in X /\ q \in X
      BY <1>4, <3>2
    <3>3. CASE (r \in rows /\ q \in X) \/ (r \in X /\ q \in rows)
      BY <1>1, <1>3, <1>5, <3>3
    <3> QED BY <1>1, <3>1, <3>2, <3>3
  <2> QED BY <2>1, <2>2, <2>3, <2>4, <2>5 DEF RowsTyped
<1>9. Exclusives(rows') = Exclusives(rows) \cup IF may THEN {} ELSE X
  BY <1>1, <1>3 DEF Exclusives
<1>10. nextSubnet \in Nat
  BY <1>1
<1> QED BY <1>1, <1>7, <1>8, <1>9, <1>10

\* The rows of an assignment are good beside those that are there: each lies in a net of
\* its own, where no row lies around it.
LEMMA AssignedRows ==
  ASSUME NEW ns, Usable(ns), NEW R, \A r \in R : r.prefix \in AllPrefixes(Width),
         GoodRows(ns, R), NEW ts, Built(ns, ts, R), NEW us, NEW pick, Takes(ns, ts, us, pick),
         NEW k \in Nat, NEW X, X = NewRows(k, Hosted(ns, pick), FALSE)
  PROVE  GoodRows(ns, R \cup X) /\ Built(ns, us, R \cup X)
<1> PICK p : p = [i \in DOMAIN ns |-> HostPrefix(ns[i], pick[i])]
  OBVIOUS
<1>1. /\ DOMAIN ns = 1..Len(ns) /\ Len(ns) \in Nat
      /\ \A i \in DOMAIN ns : ns[i] \in AllPrefixes(Width)
  BY NetsAre, UsableIs
<1>2. ASSUME NEW i \in DOMAIN ns
      PROVE  /\ p[i] \in AllPrefixes(Width) /\ PathIn(ns[i], p[i]) = pick[i]
             /\ \A j \in DOMAIN ns : Within(ns[j], p[i]) <=> j = i
             /\ Fits(ns[i], p[i])
             /\ \A r \in R : ~Within(r.prefix, p[i]) /\ ~Within(p[i], r.prefix)
  <2>1. pick[i] \in Address(HostBits(ns[i])) /\ Clear(Leaves(ts[i]), pick[i])
    BY DEF Takes, Picks
  <2> PICK q : q = p[i]
    OBVIOUS
  <2>2. q \in AllPrefixes(Width) /\ Within(ns[i], q) /\ PathIn(ns[i], q) = pick[i]
    BY <1>1, <2>1, HostPrefixIs
  <2>3. Clear(Held(ns, i, R), PathIn(ns[i], q))
    BY <2>1, <2>2 DEF Built
  <2>4. Fits(ns[i], q) /\ \A r \in R : ~Within(r.prefix, q) /\ ~Within(q, r.prefix)
    BY <2>2, <2>3, RoomIs
  <2>5. \A j \in DOMAIN ns : Within(ns[j], q) <=> j = i
    BY <2>2, NetsAre
  <2> QED BY <2>2, <2>4, <2>5
<1> PICK x : x = [i \in DOMAIN ns |-> [id |-> k + i - 1, prefix |-> p[i], may |-> FALSE]]
  OBVIOUS
<1>3. X = { x[i] : i \in DOMAIN ns }
  BY <1>1 DEF NewRows, Hosted
<1>4. \A y \in X : \E i \in DOMAIN ns : y = x[i] /\ y.prefix = p[i]
  <2>1. \A i \in DOMAIN ns : x[i].prefix = p[i]
    OBVIOUS
  <2> QED BY <1>3, <2>1
<1>5. ASSUME NEW i \in DOMAIN ns, NEW j \in DOMAIN ns, i # j
      PROVE  ~Within(p[i], p[j])
  BY <1>1, <1>2, <1>5, WithinOrder DEF Fits
<1>6. GoodRows(ns, R \cup X)
  <2>1. \A r \in R \cup X : \E i \in DOMAIN ns : Fits(ns[i], r.prefix)
    <3>1. \A r \in X : \E i \in DOMAIN ns : Fits(ns[i], r.prefix)
      <4> SUFFICES ASSUME NEW r \in X PROVE \E i \in DOMAIN ns : Fits(ns[i], r.prefix)
        OBVIOUS
      <4>1. PICK i \in DOMAIN ns : r.prefix = p[i]
        BY <1>4
      <4>2. Fits(ns[i], p[i])
        BY <1>2
      <4> QED BY <4>1, <4>2
    <3> QED BY <3>1 DEF GoodRows
  <2>2. ASSUME NEW r \in R \cup X, NEW q \in R \cup X, r # q
        PROVE  ~Within(r.prefix, q.prefix)
    <3>1. CASE r \in R /\ q \in R
      BY <2>2, <3>1 DEF GoodRows
    <3>2. CASE r \in R /\ q \in X
      <4>1. PICK i \in DOMAIN ns : q.prefix = p[i]
        BY <1>4, <3>2
      <4>2. ~Within(r.prefix, p[i]) /\ ~Within(p[i], r.prefix)
        BY <1>2, <3>2
      <4> QED BY <4>1, <4>2
    <3>3. CASE r \in X /\ q \in R
      <4>1. PICK i \in DOMAIN ns : r.prefix = p[i]
        BY <1>4, <3>3
      <4>2. ~Within(q.prefix, p[i]) /\ ~Within(p[i], q.prefix)
        BY <1>2, <3>3
      <4> QED BY <4>1, <4>2
    <3>4. CASE r \in X /\ q \in X
      <4>1. PICK i \in DOMAIN ns, j \in DOMAIN ns :
              r = x[i] /\ r.prefix = p[i] /\ q = x[j] /\ q.prefix = p[j]
        BY <1>4, <3>4
      <4> QED BY <1>5, <2>2, <4>1
    <3> QED BY <3>1, <3>2, <3>3, <3>4
  <2> QED BY <2>1, <2>2 DEF GoodRows
<1>7. ASSUME NEW i \in DOMAIN ns
      PROVE  Leaves(us[i]) = Held(ns, i, R \cup X)
  <2> DEFINE paths(S) == { PathIn(ns[i], r.prefix) : r \in { q \in S : Within(ns[i], q.prefix) } }
  <2>1. \A S : Held(ns, i, S) = NetworkHosts(HostBits(ns[i]), ns[i].v = 4) \cup paths(S)
    BY DEF Held
  <2>2. paths(R \cup X) = paths(R) \cup paths(X)
    OBVIOUS
  <2>3. paths(X) = {pick[i]}
    <3>1. ASSUME NEW y \in X, Within(ns[i], y.prefix) PROVE PathIn(ns[i], y.prefix) = pick[i]
      <4>1. PICK j \in DOMAIN ns : y.prefix = p[j]
        BY <1>4
      <4>2. j = i
        BY <1>2, <3>1, <4>1
      <4> QED BY <1>2, <4>1, <4>2
    <3>2. x[i] \in X /\ x[i].prefix = p[i]
      BY <1>3
    <3>3. Within(ns[i], x[i].prefix) /\ PathIn(ns[i], x[i].prefix) = pick[i]
      BY <1>2, <3>2
    <3> QED BY <3>1, <3>2, <3>3
  <2> HIDE DEF paths
  <2>4. Held(ns, i, R \cup X) = Held(ns, i, R) \cup {pick[i]}
    BY <2>1, <2>2, <2>3
  <2> QED BY <2>4 DEF Built, Takes
<1> QED BY <1>6, <1>7 DEF Built, Takes

\* Addresses that have been put and are given back again.
LEMMA AssignedBack ==
  ASSUME NEW ns, Usable(ns), NEW R, NEW ts, Built(ns, ts, R), NEW us, NEW pick, Takes(ns, ts, us, pick),
         NEW P, P = { Hosted(ns, pick)[i] : i \in DOMAIN Hosted(ns, pick) }
  PROVE  Built(ns, GivenBack(ns, us, P), R)
<1> PICK p : p = [i \in DOMAIN ns |-> HostPrefix(ns[i], pick[i])]
  OBVIOUS
<1>1. /\ DOMAIN ns = 1..Len(ns) /\ Len(ns) \in Nat
      /\ \A i \in DOMAIN ns : ns[i] \in AllPrefixes(Width)
  BY NetsAre, UsableIs
<1>2. ASSUME NEW i \in DOMAIN ns
      PROVE  /\ p[i] \in AllPrefixes(Width) /\ PathIn(ns[i], p[i]) = pick[i]
             /\ \A j \in DOMAIN ns : Within(ns[j], p[i]) <=> j = i
             /\ pick[i] \notin Leaves(ts[i])
  <2>1. pick[i] \in Address(HostBits(ns[i])) /\ Clear(Leaves(ts[i]), pick[i])
    BY DEF Takes, Picks
  <2> PICK q : q = p[i]
    OBVIOUS
  <2>2. q \in AllPrefixes(Width) /\ Within(ns[i], q) /\ PathIn(ns[i], q) = pick[i]
    BY <1>1, <2>1, HostPrefixIs
  <2>3. \A j \in DOMAIN ns : Within(ns[j], q) <=> j = i
    BY <2>2, NetsAre
  <2>4. Overlap(pick[i], pick[i])
    BY <2>2, <1>1, WithinOrder, PathsOverlap
  <2> QED BY <2>1, <2>2, <2>3, <2>4 DEF Clear
<1>3. P = { p[i] : i \in DOMAIN ns } /\ P \in SUBSET AllPrefixes(Width)
  BY <1>1, <1>2 DEF Hosted
<1>4. IsFiniteSet(P)
  <2> DEFINE f == [i \in 1..Len(ns) |-> p[i]]
  <2>1. P = { f[i] : i \in 1..Len(ns) } /\ f = [i \in 1..Len(ns) |-> f[i]]
    BY <1>1, <1>3
  <2> HIDE DEF f
  <2> QED BY <1>1, <2>1, ListFinite
<1>5. \A q \in P : \E i \in DOMAIN ns : Within(ns[i], q) /\ PathIn(ns[i], q) \in Leaves(us[i])
  <2> SUFFICES ASSUME NEW q \in P
               PROVE  \E i \in DOMAIN ns : Within(ns[i], q) /\ PathIn(ns[i], q) \in Leaves(us[i])
    OBVIOUS
  <2>1. PICK i \in DOMAIN ns : q = p[i]
    BY <1>3
  <2>2. Within(ns[i], q) /\ PathIn(ns[i], q) = pick[i]
    BY <1>2, <2>1
  <2>3. pick[i] \in Leaves(us[i])
    BY DEF Takes
  <2> QED BY <2>2, <2>3
<1>6. \A q, r \in P : \A i \in DOMAIN ns :
        Within(ns[i], q) /\ Within(ns[i], r) /\ PathIn(ns[i], q) = PathIn(ns[i], r) => q = r
  BY <1>2, <1>3
<1>7. /\ Grown(ns, GivenBack(ns, us, P))
      /\ \A i \in DOMAIN ns : Leaves(GivenBack(ns, us, P)[i]) = Leaves(us[i]) \ Back(ns, i, P)
  BY <1>3, <1>4, <1>5, <1>6, GivenBackIs DEF Takes
<1>8. ASSUME NEW i \in DOMAIN ns
      PROVE  Leaves(us[i]) \ Back(ns, i, P) = Leaves(ts[i])
  <2>1. Back(ns, i, P) = {pick[i]}
    BY <1>2, <1>3 DEF Back
  <2> QED BY <1>2, <2>1 DEF Takes
<1> QED BY <1>7, <1>8 DEF Built

\* A prefix that finds room is put into the tree of its net.
LEMMA ReservedIs ==
  ASSUME NEW ns, Usable(ns), NEW ts, Grown(ns, ts), NEW p \in AllPrefixes(Width),
         NEW i \in DOMAIN ns, Within(ns[i], p), Clear(Leaves(ts[i]), PathIn(ns[i], p))
  PROVE  /\ Reserve(ns, ts, p).err = "nil" /\ Grown(ns, Reserve(ns, ts, p).trees)
         /\ Leaves(Reserve(ns, ts, p).trees[i]) = Leaves(ts[i]) \cup {PathIn(ns[i], p)}
         /\ \A j \in DOMAIN ns : j # i => Reserve(ns, ts, p).trees[j] = ts[j]
<1> PICK a : a = PathIn(ns[i], p)
  OBVIOUS
<1> PICK u : u = Inserted(ts[i], a)
  OBVIOUS
<1>1. a \in Path(HostBits(ns[i]))
  BY UsableIs, PathInIs
<1>2. Reserve(ns, ts, p) = [err |-> "nil", trees |-> [ts EXCEPT ![i] = u]]
  BY ReserveIs
<1>3. Grown(ns, [ts EXCEPT ![i] = u]) /\ Leaves(u) = Leaves(ts[i]) \cup {a}
  BY <1>1, PutInNet
<1>4. \A j \in DOMAIN ns : [ts EXCEPT ![i] = u][j] = IF j = i THEN u ELSE ts[j]
  BY DEF Grown
<1> QED BY <1>2, <1>3, <1>4

\* A prefix that has been put is given back again.
LEMMA ReservedBack ==
  ASSUME NEW ns, Usable(ns), NEW R, NEW ts, Built(ns, ts, R), NEW p \in AllPrefixes(Width),
         NEW i \in DOMAIN ns, Within(ns[i], p), Clear(Leaves(ts[i]), PathIn(ns[i], p))
  PROVE  Built(ns, GivenBack(ns, Reserve(ns, ts, p).trees, {p}), R)
<1> PICK us : us = Reserve(ns, ts, p).trees
  OBVIOUS
<1> PICK a : a = PathIn(ns[i], p)
  OBVIOUS
<1>1. /\ Grown(ns, us) /\ Leaves(us[i]) = Leaves(ts[i]) \cup {a}
      /\ \A j \in DOMAIN ns : j # i => Leaves(us[j]) = Leaves(ts[j])
  <2>1. Grown(ns, ts)
    BY DEF Built
  <2> QED BY <2>1, ReservedIs
<1>2. a \notin Leaves(ts[i])
  <2>1. Overlap(a, a)
    BY UsableIs, WithinOrder, PathsOverlap
  <2> QED BY <2>1 DEF Clear
<1> PICK P : P = {p}
  OBVIOUS
<1>3. P \in SUBSET AllPrefixes(Width) /\ IsFiniteSet(P)
  BY FS_Singleton
<1>4. \A q \in P : \E j \in DOMAIN ns : Within(ns[j], q) /\ PathIn(ns[j], q) \in Leaves(us[j])
  BY <1>1
<1>5. \A q, r \in P : \A j \in DOMAIN ns :
        Within(ns[j], q) /\ Within(ns[j], r) /\ PathIn(ns[j], q) = PathIn(ns[j], r) => q = r
  OBVIOUS
<1>6. /\ Grown(ns, GivenBack(ns, us, P))
      /\ \A j \in DOMAIN ns : Leaves(GivenBack(ns, us, P)[j]) = Leaves(us[j]) \ Back(ns, j, P)
  <2>1. Grown(ns, us)
    BY <1>1
  <2> QED BY <1>3, <1>4, <1>5, <2>1, GivenBackIs, Zenon
<1>7. ASSUME NEW j \in DOMAIN ns
      PROVE  Leaves(us[j]) \ Back(ns, j, P) = Leaves(ts[j])
  <2>1. Within(ns[j], p) <=> j = i
    BY NetsAre
  <2>2. Back(ns, j, P) = IF j = i THEN {a} ELSE {}
    BY <2>1 DEF Back
  <2> QED BY <1>1, <1>2, <2>2
<1> QED BY <1>6, <1>7 DEF Built

\* Nothing was put, nothing is given back.
LEMMA NothingBack ==
  ASSUME NEW ns, Usable(ns), NEW R, NEW ts, Built(ns, ts, R)
  PROVE  Built(ns, GivenBack(ns, ts, {}), R)
<1>1. {} \in SUBSET AllPrefixes(Width) /\ IsFiniteSet({}) /\ Grown(ns, ts)
  BY FS_EmptySet DEF Built
<1>2. /\ Grown(ns, GivenBack(ns, ts, {}))
      /\ \A i \in DOMAIN ns : Leaves(GivenBack(ns, ts, {})[i]) = Leaves(ts[i]) \ Back(ns, i, {})
  BY <1>1, GivenBackIs
<1>3. \A i \in DOMAIN ns : Back(ns, i, {}) = {}
  BY DEF Back
<1> QED BY <1>2, <1>3 DEF Built

\* A row less: its path is not among the others.
LEMMA OneRowLess ==
  ASSUME NEW ns, Usable(ns), NEW S, \A r \in S : r.prefix \in AllPrefixes(Width),
         NEW r, r \notin S, r.prefix \in AllPrefixes(Width), GoodRows(ns, S \cup {r}),
         NEW i \in DOMAIN ns, Within(ns[i], r.prefix)
  PROVE  /\ PathIn(ns[i], r.prefix) \notin Held(ns, i, S)
         /\ Held(ns, i, S \cup {r}) = Held(ns, i, S) \cup {PathIn(ns[i], r.prefix)}
         /\ \A j \in DOMAIN ns : j # i => Held(ns, j, S \cup {r}) = Held(ns, j, S)
<1> PICK p \in AllPrefixes(Width) : p = r.prefix
  OBVIOUS
<1> PICK a : a = PathIn(ns[i], p)
  OBVIOUS
<1>1. /\ GoodRows(ns, S) /\ \E j \in DOMAIN ns : Fits(ns[j], p)
      /\ \A q \in S : ~Within(q.prefix, p) /\ ~Within(p, q.prefix)
  BY OneRowMore
<1>2. \A j \in DOMAIN ns :
        Held(ns, j, S \cup {r}) = IF Within(ns[j], p) THEN Held(ns, j, S) \cup {PathIn(ns[j], p)}
                                                      ELSE Held(ns, j, S)
  BY OneRowMore
<1>3. \A j \in DOMAIN ns : Within(ns[j], p) <=> j = i
  BY NetsAre
<1>4. Fits(ns[i], p)
  BY <1>1, <1>3 DEF Fits
<1>5. a \notin Held(ns, i, S)
  <2>1. Clear(Held(ns, i, S), a)
    BY <1>1, <1>4, RoomIs
  <2>2. Overlap(a, a)
    BY UsableIs, WithinOrder, PathsOverlap
  <2> QED BY <2>1, <2>2 DEF Clear
<1> QED BY <1>2, <1>3, <1>5

\* A row taken out of the table is found in the tree of its net and taken out of it.
LEMMA DeletedRow ==
  ASSUME NEW ns, Usable(ns), NEW S, \A r \in S : r.prefix \in AllPrefixes(Width),
         NEW r, r \notin S, r.prefix \in AllPrefixes(Width), GoodRows(ns, S \cup {r})
  PROVE  /\ GoodRows(ns, S)
         /\ \A ts : Built(ns, ts, S \cup {r}) => /\ Delete(ns, ts, r.prefix).found
                                                /\ Built(ns, Delete(ns, ts, r.prefix).trees, S)
<1>1. PICK i \in DOMAIN ns : Within(ns[i], r.prefix)
  BY DEF GoodRows, Fits
<1> PICK a : a = PathIn(ns[i], r.prefix)
  OBVIOUS
<1>2. /\ a \notin Held(ns, i, S) /\ Held(ns, i, S \cup {r}) = Held(ns, i, S) \cup {a}
      /\ \A j \in DOMAIN ns : j # i => Held(ns, j, S \cup {r}) = Held(ns, j, S)
  <2>1. /\ PathIn(ns[i], r.prefix) \notin Held(ns, i, S)
        /\ Held(ns, i, S \cup {r}) = Held(ns, i, S) \cup {PathIn(ns[i], r.prefix)}
        /\ \A j \in DOMAIN ns : j # i => Held(ns, j, S \cup {r}) = Held(ns, j, S)
    BY <1>1, OneRowLess, SMTT(30)
  <2> QED BY <2>1
<1>3. ASSUME NEW ts, Built(ns, ts, S \cup {r})
      PROVE  Delete(ns, ts, r.prefix).found /\ Built(ns, Delete(ns, ts, r.prefix).trees, S)
  <2>1. /\ Grown(ns, ts) /\ Leaves(ts[i]) = Held(ns, i, S) \cup {a}
        /\ \A j \in DOMAIN ns : j # i => Leaves(ts[j]) = Held(ns, j, S)
    BY <1>2, <1>3 DEF Built
  <2> PICK d : d = Delete(ns, ts, r.prefix)
    OBVIOUS
  <2>2. /\ d.found /\ Grown(ns, d.trees) /\ Leaves(d.trees[i]) = Leaves(ts[i]) \ {a}
        /\ \A j \in DOMAIN ns : j # i => d.trees[j] = ts[j]
    BY <1>1, <2>1, DeleteIs
  <2>3. Built(ns, d.trees, S)
    BY <1>2, <2>1, <2>2 DEF Built
  <2> QED BY <2>2, <2>3
<1>4. GoodRows(ns, S)
  BY OneRowMore
<1> QED BY <1>3, <1>4

-----------------------------------------------------------------------------
(* The invariant                                                           *)

\* While the process is down the rows are still those that the nets of its last start
\* accepted: what the next start relies on.
Inv ==
  /\ nets \in Configs \cup {<<>>} /\ up \in BOOLEAN /\ ret \in Status
  /\ RowsTyped
  /\ Usable(nets) /\ GoodRows(nets, Exclusives(rows))
  /\ IF up THEN Built(nets, trees, Exclusives(rows)) ELSE trees = <<>>

\* An AddSubnet that fails leaves the rows, and what was put is given back.
LEMMA RolledBack ==
  ASSUME NEW ts, NEW P, RollBack(ts, P)
  PROVE  trees' = GivenBack(nets, ts, P) /\ ret' = "500" /\ UNCHANGED <<rows, nextSubnet>>
<1>1. trees' = GivenBack(nets, ts, P)
  BY Zenon DEF RollBack, GivenBack
<1> QED BY <1>1 DEF RollBack

\* Before the first start there is nothing.
LEMMA InitInv == Init => Inv
<1> SUFFICES ASSUME Init PROVE Inv
  OBVIOUS
<1>1. nets = <<>> /\ up = FALSE /\ trees = <<>> /\ rows = {} /\ nextSubnet = 1 /\ ret = "none"
  BY DEF Init
<1>2. Usable(<<>>)
  BY DEF Usable, ParsedNets
<1>3. Exclusives({}) = {} /\ GoodRows(<<>>, {})
  BY DEF Exclusives, GoodRows
<1>4. RowsTyped
  BY <1>1, BoundAssumption, FS_EmptySet DEF RowsTyped
<1> QED BY <1>1, <1>2, <1>3, <1>4 DEF Inv, Status

\* An answer that changes nothing.
LEMMA RefusedInv ==
  ASSUME Inv, NEW status \in Status, Refuse(status), UNCHANGED <<nets, up>>
  PROVE  Inv'
<1>1. UNCHANGED <<nets, up, trees, rows, nextSubnet>> /\ ret' \in Status
  BY DEF Refuse
<1> QED BY <1>1 DEF Inv, RowsTyped

\* NewService takes the rows into the trees, or the process ends.
LEMMA StartInv ==
  ASSUME Inv, NEW ns \in Configs, Start(ns)
  PROVE  Inv'
<1>1. RowsTyped /\ UNCHANGED <<rows, nextSubnet>>
  BY DEF Inv, Start
<1>2. CASE Starts(ns) /\ nets' = ns /\ up' = TRUE /\ trees' = Load(ns, rows).trees /\ ret' = "started"
  <2>1. /\ Usable(ns) /\ GoodRows(ns, Exclusives(rows))
        /\ Built(ns, Load(ns, rows).trees, Exclusives(rows))
    BY <1>1, <1>2, StartsIs
  <2> QED BY <1>1, <1>2, <2>1 DEF Inv, RowsTyped, Status
<1>3. CASE ~Starts(ns) /\ ret' = "refused" /\ UNCHANGED <<nets, up, trees>>
  BY <1>1, <1>3 DEF Inv, RowsTyped, Status
<1> QED BY <1>2, <1>3 DEF Start

\* The trees go, the rows stay.
LEMMA StopInv ==
  ASSUME Inv, Stop
  PROVE  Inv'
BY DEF Inv, RowsTyped, Stop, Status

\* The parts of the invariant while the process runs.
LEMMA UpInv ==
  ASSUME Inv, up
  PROVE  /\ RowsTyped /\ Usable(nets) /\ GoodRows(nets, Exclusives(rows))
         /\ Built(nets, trees, Exclusives(rows)) /\ Grown(nets, trees)
         /\ \A r \in Exclusives(rows) : r \in rows /\ r.prefix \in AllPrefixes(Width)
<1>1. /\ RowsTyped /\ Usable(nets) /\ GoodRows(nets, Exclusives(rows))
      /\ Built(nets, trees, Exclusives(rows))
  BY DEF Inv
<1> QED BY <1>1, ExclusivesAre DEF Built

\* What has to be shown of a request that has been served.
LEMMA ServedInv ==
  ASSUME Inv, up, UNCHANGED <<nets, up>>, ret' \in Status, RowsTyped',
         GoodRows(nets, Exclusives(rows')), Built(nets, trees', Exclusives(rows'))
  PROVE  Inv'
BY DEF Inv

\* POST /subnets/reserved.
LEMMA ReserveInv ==
  ASSUME Inv, NEW p \in AllPrefixes(Width), NEW may \in BOOLEAN, ReserveSubnet(p, may)
  PROVE  Inv'
<1>1. up /\ UNCHANGED <<nets, up>>
  BY DEF ReserveSubnet
<1> PICK E : E = Exclusives(rows)
  OBVIOUS
<1>2. /\ RowsTyped /\ Usable(nets) /\ GoodRows(nets, E) /\ Built(nets, trees, E) /\ Grown(nets, trees)
      /\ \A r \in E : r \in rows /\ r.prefix \in AllPrefixes(Width)
  BY <1>1, UpInv
<1>3. <<p>> \in Seq(AllPrefixes(Width))
  OBVIOUS
<1>4. ASSUME NEW P, NEW ts, RollBack(ts, P), Built(nets, GivenBack(nets, ts, P), E) PROVE Inv'
  <2>1. trees' = GivenBack(nets, ts, P) /\ ret' = "500" /\ UNCHANGED <<rows, nextSubnet>>
    BY <1>4, RolledBack
  <2>2. RowsTyped' /\ ret' \in Status
    BY <1>2, <2>1 DEF RowsTyped, Status
  <2> QED BY <1>1, <1>2, <1>4, <2>1, <2>2, ServedInv
<1>5. CASE HasHostBits(p) /\ Refuse("400")
  BY <1>1, <1>5, RefusedInv DEF Status
<1>6. ASSUME may, AddRows(<<p>>, may), UNCHANGED trees PROVE Inv'
  <2>1. RowsTyped' /\ ret' = "201" /\ Exclusives(rows') = E
    BY <1>2, <1>3, <1>6, RowsAdded
  <2>2. ret' \in Status
    BY <2>1 DEF Status
  <2> QED BY <1>1, <1>2, <1>6, <2>1, <2>2, ServedInv
<1>7. ASSUME RollBack(trees, {}) PROVE Inv'
  <2>1. Built(nets, GivenBack(nets, trees, {}), E)
    BY <1>2, NothingBack
  <2> QED BY <1>4, <1>7, <2>1
<1>8. ASSUME ~may, AddRows(<<p>>, may), Reserve(nets, trees, p).err = "nil",
             trees' = Reserve(nets, trees, p).trees
      PROVE  Inv'
  <2> PICK x : x = [id |-> nextSubnet + 1 - 1, prefix |-> p, may |-> may]
    OBVIOUS
  <2>1. NewRows(nextSubnet, <<p>>, may) = {x}
    <3>1. DOMAIN <<p>> = {1} /\ <<p>>[1] = p
      OBVIOUS
    <3> QED BY <3>1 DEF NewRows
  <2>2. RowsTyped' /\ ret' = "201" /\ Exclusives(rows') = E \cup {x} /\ x \notin rows
    BY <1>2, <1>3, <1>8, <2>1, RowsAdded
  <2>3. x.prefix = p /\ x \notin E
    BY <1>2, <2>2
  <2>4. GoodRows(nets, E \cup {x}) /\ Built(nets, Reserve(nets, trees, p).trees, E \cup {x})
    BY <1>2, <1>8, <2>3, ReserveRow
  <2>5. ret' \in Status
    BY <2>2 DEF Status
  <2> QED BY <1>1, <1>8, <2>2, <2>4, <2>5, ServedInv
<1>9. ASSUME Reserve(nets, trees, p).err = "nil", RollBack(Reserve(nets, trees, p).trees, {p})
      PROVE  Inv'
  <2>1. PICK i \in DOMAIN nets : Within(nets[i], p) /\ Clear(Leaves(trees[i]), PathIn(nets[i], p))
    BY <1>2, <1>9, ReserveIs
  <2>2. Built(nets, GivenBack(nets, Reserve(nets, trees, p).trees, {p}), E)
    BY <1>2, <2>1, ReservedBack
  <2> QED BY <1>4, <1>9, <2>2
<1>10. ASSUME Refuse("400") \/ Refuse("409") \/ Refuse("aborted") PROVE Inv'
  BY <1>1, <1>10, RefusedInv DEF Status
<1> QED BY <1>5, <1>6, <1>7, <1>8, <1>9, <1>10 DEF ReserveSubnet

\* POST /peers without allowed_addresses.
LEMMA AssignInv ==
  ASSUME Inv, AssignRandom
  PROVE  Inv'
<1>1. up /\ UNCHANGED <<nets, up>>
  BY DEF AssignRandom
<1> PICK E : E = Exclusives(rows)
  OBVIOUS
<1>2. /\ RowsTyped /\ Usable(nets) /\ GoodRows(nets, E) /\ Built(nets, trees, E) /\ Grown(nets, trees)
      /\ \A r \in E : r \in rows /\ r.prefix \in AllPrefixes(Width)
  BY <1>1, UpInv
<1>3. PICK n \in Draws(nets, trees) :
        LET a == Assigned(nets, trees, n)
            given == { a.prefixes[i] : i \in DOMAIN a.prefixes }
        IN \/ /\ a.err = "nil"
              /\ (AddRows(a.prefixes, FALSE) /\ trees' = a.trees) \/ RollBack(a.trees, given)
           \/ /\ a.err # "nil"
              /\ trees' = a.trees /\ ret' = "no free address" /\ UNCHANGED <<rows, nextSubnet>>
  BY DEF AssignRandom
<1> PICK a : a = Assigned(nets, trees, n)
  OBVIOUS
<1>4. CASE \E e \in DOMAIN nets : FreeAddrs(trees[e], CounterBits) = 0
  <2>1. a.err = "ErrNoFreeAddr" /\ Built(nets, a.trees, E)
    BY <1>2, <1>4, AssignedNone
  <2>2. trees' = a.trees /\ ret' = "no free address" /\ UNCHANGED <<rows, nextSubnet>>
    BY <1>3, <2>1
  <2>3. RowsTyped' /\ ret' \in Status
    BY <1>2, <2>2 DEF RowsTyped, Status
  <2> QED BY <1>1, <1>2, <2>1, <2>2, <2>3, ServedInv
<1>5. CASE \A e \in DOMAIN nets : FreeAddrs(trees[e], CounterBits) # 0
  <2>1. a.err = "nil"
    BY <1>2, <1>5, AssignedAll
  <2>2. PICK pick : a.prefixes = Hosted(nets, pick) /\ Takes(nets, trees, a.trees, pick)
    BY <1>2, <1>5, AssignedAll
  <2>3. a.prefixes \in Seq(AllPrefixes(Width))
    <3>1. Len(nets) \in Nat /\ DOMAIN nets = 1..Len(nets)
      BY <1>2, NetsAre
    <3>2. \A i \in DOMAIN nets : HostPrefix(nets[i], pick[i]) \in AllPrefixes(Width)
      BY <1>2, <2>2, UsableIs, HostPrefixIs DEF Takes, Picks
    <3> QED BY <2>2, <3>1, <3>2 DEF Hosted
  <2>4. CASE AddRows(a.prefixes, FALSE) /\ trees' = a.trees
    <3> PICK X : X = NewRows(nextSubnet, a.prefixes, FALSE)
      OBVIOUS
    <3>1. RowsTyped' /\ ret' = "201" /\ nextSubnet \in Nat /\ Exclusives(rows') = E \cup X
      BY <1>2, <2>3, <2>4, RowsAdded
    <3>2. GoodRows(nets, E \cup X) /\ Built(nets, a.trees, E \cup X)
      BY <1>2, <2>2, <3>1, AssignedRows
    <3>3. ret' \in Status
      BY <3>1 DEF Status
    <3> QED BY <1>1, <2>4, <3>1, <3>2, <3>3, ServedInv
  <2>5. CASE RollBack(a.trees, { a.prefixes[i] : i \in DOMAIN a.prefixes })
    <3> PICK P : P = { a.prefixes[i] : i \in DOMAIN a.prefixes }
      OBVIOUS
    <3>1. Built(nets, GivenBack(nets, a.trees, P), E)
      BY <1>2, <2>2, AssignedBack
    <3>2. trees' = GivenBack(nets, a.trees, P) /\ ret' = "500" /\ UNCHANGED <<rows, nextSubnet>>
      BY <2>5, RolledBack
    <3>3. RowsTyped' /\ ret' \in Status
      BY <1>2, <3>2 DEF RowsTyped, Status
    <3> QED BY <1>1, <1>2, <3>1, <3>2, <3>3, ServedInv
  <2> QED BY <1>3, <2>1, <2>4, <2>5
<1> QED BY <1>4, <1>5

\* DELETE /subnets/{id}.
LEMMA DeleteInv ==
  ASSUME Inv, NEW id, DeleteSubnet(id)
  PROVE  Inv'
<1>1. up /\ UNCHANGED <<nets, up>>
  BY DEF DeleteSubnet
<1> PICK E : E = Exclusives(rows)
  OBVIOUS
<1>2. /\ RowsTyped /\ Usable(nets) /\ GoodRows(nets, E) /\ Built(nets, trees, E) /\ Grown(nets, trees)
      /\ \A r \in E : r \in rows /\ r.prefix \in AllPrefixes(Width)
  BY <1>1, UpInv
<1>3. CASE Refuse("404")
  BY <1>1, <1>3, RefusedInv DEF Status
<1>4. ASSUME NEW r \in rows, rows' = rows \ {r}, UNCHANGED nextSubnet,
             LET d == Delete(nets, trees, r.prefix)
             IN IF r.may THEN ret' = "204" /\ UNCHANGED trees
                ELSE trees' = d.trees /\ ret' = IF d.found THEN "204" ELSE "204 warned"
      PROVE  Inv'
  <2>1. RowsTyped' /\ ret' \in Status
    BY <1>2, <1>4, FS_RemoveElement DEF RowsTyped, Status
  <2>2. CASE r.may
    <3>1. Exclusives(rows') = E /\ trees' = trees
      BY <1>4, <2>2 DEF Exclusives
    <3> QED BY <1>1, <1>2, <2>1, <3>1, ServedInv
  <2>3. CASE ~r.may
    <3> PICK S : S = E \ {r}
      OBVIOUS
    <3>1. Exclusives(rows') = S /\ r \in E /\ trees' = Delete(nets, trees, r.prefix).trees
      BY <1>4, <2>3 DEF Exclusives
    <3>2. GoodRows(nets, S) /\ Built(nets, Delete(nets, trees, r.prefix).trees, S)
      <4>1. /\ E = S \cup {r} /\ r \notin S /\ r.prefix \in AllPrefixes(Width)
            /\ \A q \in S : q.prefix \in AllPrefixes(Width)
        BY <1>2, <3>1
      <4> HIDE <3>1
      <4> QED BY <1>2, <4>1, DeletedRow
    <3> QED BY <1>1, <2>1, <3>1, <3>2, ServedInv
  <2> QED BY <2>2, <2>3
<1> QED BY <1>3, <1>4 DEF DeleteSubnet

\* Each step keeps the invariant.
LEMMA NextInv == Inv /\ [Next]_vars => Inv'
<1> SUFFICES ASSUME Inv, [Next]_vars PROVE Inv'
  OBVIOUS
<1>1. ASSUME NEW q \in Requests, ReserveSubnet(q.prefix, q.may) PROVE Inv'
  <2>1. q.prefix \in AllPrefixes(Width) /\ q.may \in BOOLEAN
    BY RequestAssumption
  <2> QED BY <1>1, <2>1, ReserveInv
<1>2. ASSUME UNCHANGED vars PROVE Inv'
  BY <1>2 DEF vars, Inv, RowsTyped
<1> QED BY <1>1, <1>2, StartInv, StopInv, AssignInv, DeleteInv DEF Next

\* The invariant holds.
LEMMA SpecInv == Spec => []Inv
BY InitInv, NextInv, PTL DEF Spec

-----------------------------------------------------------------------------
(* Theorems                                                                *)

\* Every answer is one of those the handlers give, ids stay within those SQLite has,
\* and the counters of every tree add up.
THEOREM ServiceTyped == Spec => []TypeOK
<1>1. Inv => TypeOK
  <2> SUFFICES ASSUME Inv PROVE TypeOK
    OBVIOUS
  <2>1. DOMAIN trees = IF up THEN DOMAIN nets ELSE {}
    BY DEF Inv, Built, Grown
  <2>2. \A i \in DOMAIN trees : CountersAddUp(trees[i])
    <3>1. \A i \in DOMAIN trees : Sound(trees[i])
      BY <2>1 DEF Inv, Built, Grown
    <3> QED BY <3>1, CountersAgree
  <2> QED BY <2>1, <2>2 DEF Inv, RowsTyped, TypeOK
<1> QED BY <1>1, SpecInv, PTL

\* The trees hold what the table says: no request, refused, failed or served, no DELETE
\* and no restart with other settings leaves a prefix behind or loses one.
THEOREM TreesHoldRows == Spec => []TreesMatchRows
<1>1. Inv => TreesMatchRows
  <2> SUFFICES ASSUME Inv, NEW i \in DOMAIN trees PROVE Leaves(trees[i]) = Held(nets, i, Exclusives(rows))
    <3>1. \A i \in DOMAIN trees :
            Held(nets, i, Exclusives(rows)) =
              NetworkHosts(HostBits(nets[i]), nets[i].v = 4)
                \cup { PathIn(nets[i], r.prefix) :
                       r \in { q \in rows : ~q.may /\ Within(nets[i], q.prefix) } }
      BY DEF Held, Exclusives
    <3> QED BY <3>1 DEF TreesMatchRows
  <2>1. up /\ Built(nets, trees, Exclusives(rows))
    BY DEF Inv
  <2>2. i \in DOMAIN nets
    BY <2>1 DEF Built, Grown
  <2> QED BY <2>1, <2>2 DEF Built
<1> QED BY <1>1, SpecInv, PTL

\* The nets of WG_ALLOC_NETS can be reordered, extended and widened between two runs:
\* NewService then accepts all the rows that former runs have written.
THEOREM WideningHolds == Spec => []WideningAccepts
<1>1. Inv => WideningAccepts
  <2> SUFFICES ASSUME Inv, NEW ns \in Configs, ParsedNets(ns),
                      \A i \in DOMAIN ns : TreeFits(ns[i], CounterBits), Widened(nets, ns)
               PROVE  Starts(ns)
    BY DEF WideningAccepts
  <2> PICK E : E = Exclusives(rows)
    OBVIOUS
  <2>1. /\ RowsTyped /\ Usable(nets) /\ GoodRows(nets, E)
        /\ \A r \in E : r.prefix \in AllPrefixes(Width)
    BY ExclusivesAre DEF Inv
  <2>2. Usable(ns)
    BY ConfigAssumption DEF Usable
  <2>3. ASSUME NEW r \in E PROVE \E j \in DOMAIN ns : Fits(ns[j], r.prefix)
    <3>1. PICK i \in DOMAIN nets : Fits(nets[i], r.prefix)
      BY <2>1 DEF GoodRows
    <3>2. PICK j \in DOMAIN ns : Within(ns[j], nets[i])
      BY DEF Widened
    <3>3. Fits(ns[j], r.prefix)
      BY <2>1, <2>2, <3>1, <3>2, UsableIs, FitsWider
    <3> QED BY <3>3
  <2>4. GoodRows(ns, E)
    BY <2>1, <2>3 DEF GoodRows
  <2> QED BY <2>1, <2>2, <2>4, StartsIs
<1> QED BY <1>1, SpecInv, PTL

\* Every exclusive prefix lies in a net of the last start, and none lies in another
\* one, in whatever runs and nets they have been given.
GivenOnce ==
  /\ \A r \in rows : ~r.may => \E i \in DOMAIN nets : Within(nets[i], r.prefix)
  /\ \A r, q \in rows : ~r.may /\ ~q.may /\ r # q => ~Within(r.prefix, q.prefix)

\* No exclusive prefix of table subnets is given twice, across restarts with other
\* settings included (subnets.go:47, subnets.go:66).
THEOREM PrefixesGivenOnce == Spec => []GivenOnce
<1>1. Inv => GivenOnce
  <2> SUFFICES ASSUME Inv PROVE GivenOnce
    OBVIOUS
  <2>1. GoodRows(nets, Exclusives(rows))
    BY DEF Inv
  <2> QED BY <2>1 DEF GoodRows, Fits, Exclusives, GivenOnce
<1> QED BY <1>1, SpecInv, PTL

-----------------------------------------------------------------------------
(* The pool's words                                                        *)

\* The pool's words for prefixes and nets are the service's.
LEMMA SameWords ==
  /\ \A p, q : Pool!Overlap(p, q) <=> Overlap(p, q)
  /\ \A T, p : Pool!Clear(T, p) <=> Clear(T, p)
  /\ \A h : Pool!Address(h) = Address(h)
  /\ \A h, b : Pool!NetworkHosts(h, b) = NetworkHosts(h, b)
  /\ \A p : Pool!HasHostBits(p) <=> HasHostBits(p)
  /\ \A n, p : Pool!NetContains(n, p) <=> NetContains(n, p)
  /\ \A n, p : Pool!Within(n, p) <=> Within(n, p)
  /\ \A n : Pool!HostBits(n) = HostBits(n)
  /\ \A n, p : Pool!PathIn(n, p) = PathIn(n, p)
  /\ \A n, a : Pool!HostPrefix(n, a) = HostPrefix(n, a)
<1>1. \A p, q : Pool!IsPrefix(p, q) <=> IsPrefix(p, q)
  BY DEF Pool!IsPrefix, IsPrefix
<1>2. \A p, q : Pool!Overlap(p, q) <=> Overlap(p, q)
  BY <1>1 DEF Pool!Overlap, Overlap
<1>3. \A T, p : Pool!Clear(T, p) <=> Clear(T, p)
  BY <1>2 DEF Pool!Clear, Clear
<1>4. \A h : Pool!Address(h) = Address(h)
  BY DEF Pool!Address, Address, Pool!Bit, Bit
<1>5. \A h, b : Pool!NetworkHosts(h, b) = NetworkHosts(h, b)
  BY <1>4 DEF Pool!NetworkHosts, NetworkHosts
<1>6. \A p : Pool!HasHostBits(p) <=> HasHostBits(p)
  BY DEF Pool!HasHostBits, HasHostBits
<1>7. \A n, p : Pool!NetContains(n, p) <=> NetContains(n, p)
  BY <1>1 DEF Pool!NetContains, NetContains, Pool!Masked, Masked
<1>8. \A n, p : Pool!Within(n, p) <=> Within(n, p)
  BY <1>7 DEF Pool!Within, Within
<1>9. /\ \A n : Pool!HostBits(n) = HostBits(n)
      /\ \A n, p : Pool!PathIn(n, p) = PathIn(n, p)
      /\ \A n, a : Pool!HostPrefix(n, a) = HostPrefix(n, a)
  BY DEF Pool!HostBits, HostBits, Pool!PathIn, PathIn, Pool!HostPrefix, HostPrefix,
         Pool!Masked, Masked
<1> QED BY <1>2, <1>3, <1>4, <1>5, <1>6, <1>7, <1>8, <1>9

\* The pool finds a prefix in the net that has it.
LEMMA LocatedIs ==
  ASSUME NEW ns, Usable(ns), NEW p \in AllPrefixes(Width)
  PROVE  /\ \A i \in DOMAIN ns : Within(ns[i], p) =>
              Pool!Located(ns, p) = [net |-> i, path |-> PathIn(ns[i], p)]
         /\ (\A i \in DOMAIN ns : ~Within(ns[i], p)) =>
              Pool!Located(ns, p) = [net |-> 0, path |-> <<>>]
<1>1. ASSUME NEW i \in DOMAIN ns, Within(ns[i], p)
      PROVE  Pool!Located(ns, p) = [net |-> i, path |-> PathIn(ns[i], p)]
  <2>1. \A j \in DOMAIN ns : Pool!Within(ns[j], p) <=> j = i
    BY <1>1, NetsAre, SameWords
  <2>2. (CHOOSE j \in DOMAIN ns : Pool!Within(ns[j], p)) = i
    BY <2>1
  <2> QED BY <2>1, <2>2, SameWords DEF Pool!Located
<1>2. ASSUME \A i \in DOMAIN ns : ~Within(ns[i], p)
      PROVE  Pool!Located(ns, p) = [net |-> 0, path |-> <<>>]
  BY <1>2, SameWords DEF Pool!Located, Pool!NoNet
<1> QED BY <1>1, <1>2

\* What the trees of ns hold when the rows R are reserved.
HeldAll(ns, R) == [i \in DOMAIN ns |-> Held(ns, i, R)]

\* The sets that SubnetPool keeps.
Shown(ts) == [i \in DOMAIN ts |-> Leaves(ts[i])]

\* The pool shows what the trees hold.
LEMMA ShownIs ==
  ASSUME NEW ns, NEW R, NEW ts, Built(ns, ts, R)
  PROVE  Shown(ts) = HeldAll(ns, R)
<1>1. DOMAIN ts = DOMAIN ns
  BY DEF Built, Grown
<1> QED BY <1>1 DEF Built, Shown, HeldAll

\* The rows put into an empty pool.
LEMMA HeldIsPut ==
  ASSUME NEW ns, Usable(ns), NEW R, \A r \in R : r.prefix \in AllPrefixes(Width),
         NEW P, P = { r.prefix : r \in R }
  PROVE  HeldAll(ns, R) = Pool!Put(Pool!EmptyPool(ns), { Pool!Located(ns, p) : p \in P })
<1> PICK L : L = { Pool!Located(ns, p) : p \in P }
  OBVIOUS
<1> PICK T : T = Pool!EmptyPool(ns)
  OBVIOUS
<1>1. /\ DOMAIN T = DOMAIN ns
      /\ \A i \in DOMAIN ns : T[i] = NetworkHosts(HostBits(ns[i]), ns[i].v = 4)
  BY SameWords DEF Pool!EmptyPool
<1>2. ASSUME NEW i \in DOMAIN ns
      PROVE  Pool!Paths(L, i) =
               { PathIn(ns[i], r.prefix) : r \in { q \in R : Within(ns[i], q.prefix) } }
  <2>1. i # 0
    BY NetsAre
  <2>2. ASSUME NEW p \in P
        PROVE  /\ Within(ns[i], p) => Pool!Located(ns, p) = [net |-> i, path |-> PathIn(ns[i], p)]
               /\ ~Within(ns[i], p) => Pool!Located(ns, p).net # i
    <3>1. p \in AllPrefixes(Width)
      OBVIOUS
    <3>2. CASE \A j \in DOMAIN ns : ~Within(ns[j], p)
      BY <2>1, <3>1, <3>2, LocatedIs
    <3>3. ASSUME NEW j \in DOMAIN ns, Within(ns[j], p)
          PROVE  /\ Within(ns[i], p) => Pool!Located(ns, p) = [net |-> i, path |-> PathIn(ns[i], p)]
                 /\ ~Within(ns[i], p) => Pool!Located(ns, p).net # i
      <4>1. Pool!Located(ns, p) = [net |-> j, path |-> PathIn(ns[j], p)]
        BY <3>1, <3>3, LocatedIs
      <4>2. Within(ns[i], p) => i = j
        BY <3>1, <3>3, NetsAre
      <4> QED BY <3>3, <4>1, <4>2
    <3> QED BY <3>2, <3>3
  <2>3. ASSUME NEW l \in L, l.net = i
        PROVE  \E r \in R : Within(ns[i], r.prefix) /\ l.path = PathIn(ns[i], r.prefix)
    <3>1. PICK p \in P : l = Pool!Located(ns, p)
      OBVIOUS
    <3>2. Within(ns[i], p) /\ l.path = PathIn(ns[i], p)
      BY <2>2, <2>3, <3>1
    <3> QED BY <3>2
  <2>4. ASSUME NEW r \in R, Within(ns[i], r.prefix)
        PROVE  \E l \in L : l.net = i /\ l.path = PathIn(ns[i], r.prefix)
    <3>1. r.prefix \in P
      OBVIOUS
    <3>2. Pool!Located(ns, r.prefix) \in L
      BY <3>1
    <3>3. Pool!Located(ns, r.prefix) = [net |-> i, path |-> PathIn(ns[i], r.prefix)]
      BY <2>2, <2>4, <3>1
    <3> QED BY <3>2, <3>3
  <2>5. Pool!Paths(L, i) = { l.path : l \in { m \in L : m.net = i } }
    BY DEF Pool!Paths
  <2> QED BY <2>3, <2>4, <2>5
<1>3. Pool!Put(T, L) = [i \in DOMAIN ns |-> T[i] \cup Pool!Paths(L, i)]
  BY <1>1 DEF Pool!Put
<1> QED BY <1>1, <1>2, <1>3 DEF HeldAll, Held

\* A row more is a prefix put into the pool.
LEMMA PutHeld ==
  ASSUME NEW ns, Usable(ns), NEW R, NEW x, x \notin R, x.prefix \in AllPrefixes(Width)
  PROVE  HeldAll(ns, R \cup {x}) = Pool!Put(HeldAll(ns, R), {Pool!Located(ns, x.prefix)})
<1> PICK at : at = Pool!Located(ns, x.prefix)
  OBVIOUS
<1>1. \A i \in DOMAIN ns :
        Held(ns, i, R \cup {x}) =
          IF Within(ns[i], x.prefix) THEN Held(ns, i, R) \cup {PathIn(ns[i], x.prefix)}
                                     ELSE Held(ns, i, R)
  BY OneRowMore
<1>2. ASSUME NEW i \in DOMAIN ns
      PROVE  Pool!Paths({at}, i) =
               IF Within(ns[i], x.prefix) THEN {PathIn(ns[i], x.prefix)} ELSE {}
  <2>1. i # 0
    BY NetsAre
  <2>2. Pool!Paths({at}, i) = IF at.net = i THEN {at.path} ELSE {}
    BY DEF Pool!Paths
  <2>3. CASE \A j \in DOMAIN ns : ~Within(ns[j], x.prefix)
    <3>1. at.net = 0
      BY <2>3, LocatedIs
    <3> QED BY <2>1, <2>2, <2>3, <3>1
  <2>4. ASSUME NEW j \in DOMAIN ns, Within(ns[j], x.prefix)
        PROVE  Pool!Paths({at}, i) =
                 IF Within(ns[i], x.prefix) THEN {PathIn(ns[i], x.prefix)} ELSE {}
    <3>1. at = [net |-> j, path |-> PathIn(ns[j], x.prefix)]
      BY <2>4, LocatedIs
    <3>2. Within(ns[i], x.prefix) <=> j = i
      BY <2>4, NetsAre
    <3> QED BY <2>2, <3>1, <3>2
  <2> QED BY <2>3, <2>4
<1>3. Pool!Put(HeldAll(ns, R), {at}) = [i \in DOMAIN ns |-> Held(ns, i, R) \cup Pool!Paths({at}, i)]
  BY DEF Pool!Put, HeldAll
<1> QED BY <1>1, <1>2, <1>3 DEF HeldAll

\* A row less is a prefix dropped from the pool.
LEMMA DropHeld ==
  ASSUME NEW ns, Usable(ns), NEW S, \A r \in S : r.prefix \in AllPrefixes(Width),
         NEW r, r \notin S, r.prefix \in AllPrefixes(Width), GoodRows(ns, S \cup {r})
  PROVE  HeldAll(ns, S) = Pool!Drop(HeldAll(ns, S \cup {r}), {Pool!Located(ns, r.prefix)})
<1> PICK R : R = S \cup {r}
  OBVIOUS
<1> PICK at : at = Pool!Located(ns, r.prefix)
  OBVIOUS
<1>1. PICK i \in DOMAIN ns : Within(ns[i], r.prefix)
  BY DEF GoodRows, Fits
<1> PICK a : a = PathIn(ns[i], r.prefix)
  OBVIOUS
<1>2. at = [net |-> i, path |-> a]
  BY <1>1, LocatedIs
<1>3. /\ a \notin Held(ns, i, S) /\ Held(ns, i, R) = Held(ns, i, S) \cup {a}
      /\ \A j \in DOMAIN ns : j # i => Held(ns, j, R) = Held(ns, j, S)
  BY <1>1, OneRowLess
<1>4. ASSUME NEW j \in DOMAIN ns
      PROVE  Held(ns, j, S) = Held(ns, j, R) \ Pool!Paths({at}, j)
  <2>1. Pool!Paths({at}, j) = IF i = j THEN {a} ELSE {}
    BY <1>2 DEF Pool!Paths
  <2> QED BY <1>3, <2>1
<1>5. Pool!Drop(HeldAll(ns, R), {at}) = [j \in DOMAIN ns |-> Held(ns, j, R) \ Pool!Paths({at}, j)]
  BY DEF Pool!Drop, HeldAll
<1> QED BY <1>4, <1>5 DEF HeldAll

\* The addresses that can be assigned, and what they leave.
LEMMA PicksAre ==
  ASSUME NEW ns, NEW ts, Grown(ns, ts)
  PROVE  /\ Pool!FreePicks(Pool!HeightsOf(ns), Shown(ts)) = Picks(ns, ts)
         /\ \A us, pick : Takes(ns, ts, us, pick) =>
              Shown(us) = Pool!Put(Shown(ts), Pool!Picked(pick))
<1>1. DOMAIN ts = DOMAIN ns
  BY DEF Grown
<1>2. Pool!FreePicks(Pool!HeightsOf(ns), Shown(ts)) = Picks(ns, ts)
  <2> PICK hs : hs = [i \in DOMAIN ns |-> HostBits(ns[i])]
    OBVIOUS
  <2>1. Pool!HeightsOf(ns) = hs
    BY SameWords DEF Pool!HeightsOf
  <2>2. \A i \in DOMAIN ns : hs[i] = HostBits(ns[i]) /\ Shown(ts)[i] = Leaves(ts[i])
    BY <1>1 DEF Shown
  <2>3. DOMAIN hs = DOMAIN ns
    OBVIOUS
  <2>4. { Pool!Address(hs[i]) : i \in DOMAIN hs } = { Address(HostBits(ns[i])) : i \in DOMAIN ns }
    BY <2>2, <2>3, SameWords
  <2> QED BY <2>1, <2>2, <2>3, <2>4, SameWords DEF Pool!FreePicks, Picks
<1>3. ASSUME NEW us, NEW pick, Takes(ns, ts, us, pick)
      PROVE  Shown(us) = Pool!Put(Shown(ts), Pool!Picked(pick))
  <2>1. /\ DOMAIN us = DOMAIN ns /\ DOMAIN pick = DOMAIN ns
        /\ \A i \in DOMAIN ns : Leaves(us[i]) = Leaves(ts[i]) \cup {pick[i]}
    BY <1>3 DEF Takes, Grown, Picks
  <2>2. \A i \in DOMAIN ns : Pool!Paths(Pool!Picked(pick), i) = {pick[i]}
    <3> SUFFICES ASSUME NEW i \in DOMAIN ns PROVE Pool!Paths(Pool!Picked(pick), i) = {pick[i]}
      OBVIOUS
    <3> PICK P : P = Pool!Picked(pick)
      OBVIOUS
    <3>1. P = { [net |-> n, path |-> pick[n]] : n \in DOMAIN pick }
      BY DEF Pool!Picked
    <3>2. [net |-> i, path |-> pick[i]] \in P
      BY <2>1, <3>1
    <3>3. \A p \in P : p.net = i => p.path = pick[i]
      BY <3>1
    <3>4. \E p \in P : p.net = i /\ p.path = pick[i]
      BY <3>2
    <3>5. Pool!Paths(P, i) = { p.path : p \in { q \in P : q.net = i } }
      BY DEF Pool!Paths
    <3> QED BY <3>3, <3>4, <3>5
  <2>3. Pool!Put(Shown(ts), Pool!Picked(pick)) =
          [i \in DOMAIN ns |-> Leaves(ts[i]) \cup Pool!Paths(Pool!Picked(pick), i)]
    BY <1>1 DEF Pool!Put, Shown
  <2> QED BY <2>1, <2>2, <2>3 DEF Shown
<1> QED BY <1>2, <1>3

-----------------------------------------------------------------------------
(* The service is a pool                                                   *)

\* The pool accepts the settings that the service starts with.
LEMMA AcceptsIs ==
  ASSUME Inv, NEW ns \in Configs
  PROVE  Pool!Accepts(ns) <=> Starts(ns)
<1> PICK E : E = Exclusives(rows)
  OBVIOUS
<1> PICK P : P = { r.prefix : r \in E }
  OBVIOUS
<1>1. /\ RowsTyped /\ \A r \in E : r.prefix \in AllPrefixes(Width)
      /\ \A r, q \in E : r # q => ~Within(r.prefix, q.prefix)
  BY ExclusivesAre DEF Inv, GoodRows
<1>2. Pool!Exclusive = P
  BY DEF Pool!Exclusive, Exclusives
<1>3. Usable(ns) <=> Pool!ParsedNets(ns) /\ \A i \in DOMAIN ns : Pool!TreeFits(ns[i], CounterBits)
  BY ConfigAssumption, SameWords DEF Usable, Pool!ParsedNets, ParsedNets, Pool!TreeFits, TreeFits
<1>4. ASSUME Usable(ns), NEW p \in P
      PROVE  Pool!Reservable(Pool!EmptyPool(ns), Pool!Located(ns, p)) <=> \E i \in DOMAIN ns : Fits(ns[i], p)
  <2>1. p \in AllPrefixes(Width)
    BY <1>1
  <2> PICK T : T = Pool!EmptyPool(ns)
    OBVIOUS
  <2>2. /\ DOMAIN T = DOMAIN ns
        /\ \A i \in DOMAIN ns : T[i] = NetworkHosts(HostBits(ns[i]), ns[i].v = 4)
    BY SameWords DEF Pool!EmptyPool
  <2> PICK at : at = Pool!Located(ns, p)
    OBVIOUS
  <2>3. Pool!Reservable(T, at) <=> at.net \in DOMAIN ns /\ Clear(T[at.net], at.path)
    BY <2>2, SameWords DEF Pool!Reservable
  <2>4. CASE \A i \in DOMAIN ns : ~Within(ns[i], p)
    <3>1. at.net = 0
      BY <1>4, <2>1, <2>4, LocatedIs
    <3>2. 0 \notin DOMAIN ns
      BY <1>4, NetsAre
    <3> QED BY <2>3, <2>4, <3>1, <3>2 DEF Fits
  <2>5. ASSUME NEW i \in DOMAIN ns, Within(ns[i], p)
        PROVE  Pool!Reservable(T, at) <=> \E j \in DOMAIN ns : Fits(ns[j], p)
    <3>1. at.net = i /\ at.path = PathIn(ns[i], p)
      BY <1>4, <2>1, <2>5, LocatedIs
    <3>2. \A j \in DOMAIN ns : Within(ns[j], p) <=> j = i
      BY <1>4, <2>1, <2>5, NetsAre
    <3> QED BY <2>2, <2>3, <2>5, <3>1, <3>2 DEF Fits
  <2> QED BY <2>4, <2>5
<1>5. ASSUME Usable(ns), NEW e \in P, NEW f \in P,
             Pool!Located(ns, e) # Pool!Located(ns, f),
             Pool!Located(ns, e).net = Pool!Located(ns, f).net
      PROVE  ~Pool!Overlap(Pool!Located(ns, e).path, Pool!Located(ns, f).path)
  <2>1. e \in AllPrefixes(Width) /\ f \in AllPrefixes(Width) /\ e # f
    BY <1>1, <1>5
  <2>2. ~Within(e, f) /\ ~Within(f, e)
    BY <1>1, <2>1
  <2>3. PICK i \in DOMAIN ns : Within(ns[i], e)
    <3>1. CASE \A i \in DOMAIN ns : ~Within(ns[i], e)
      <4>1. Pool!Located(ns, e) = [net |-> 0, path |-> <<>>]
        BY <1>5, <2>1, <3>1, LocatedIs
      <4>2. \A i \in DOMAIN ns : i # 0
        BY <1>5, NetsAre
      <4>3. \A i \in DOMAIN ns : ~Within(ns[i], f)
        BY <1>5, <2>1, <4>1, <4>2, LocatedIs
      <4>4. Pool!Located(ns, f) = [net |-> 0, path |-> <<>>]
        BY <1>5, <2>1, <4>3, LocatedIs
      <4> QED BY <1>5, <4>1, <4>4
    <3> QED BY <3>1
  <2>4. Pool!Located(ns, e) = [net |-> i, path |-> PathIn(ns[i], e)]
    BY <1>5, <2>1, <2>3, LocatedIs
  <2>5. Within(ns[i], f)
    <3>1. CASE \A j \in DOMAIN ns : ~Within(ns[j], f)
      <4>1. Pool!Located(ns, f) = [net |-> 0, path |-> <<>>]
        BY <1>5, <2>1, <3>1, LocatedIs
      <4>2. i # 0
        BY <1>5, NetsAre
      <4> QED BY <1>5, <2>4, <4>1, <4>2
    <3>2. ASSUME NEW j \in DOMAIN ns, Within(ns[j], f) PROVE Within(ns[i], f)
      <4>1. Pool!Located(ns, f) = [net |-> j, path |-> PathIn(ns[j], f)]
        BY <1>5, <2>1, <3>2, LocatedIs
      <4>2. i = j
        BY <1>5, <2>4, <4>1
      <4> QED BY <3>2, <4>2
    <3> QED BY <3>1, <3>2
  <2>6. Pool!Located(ns, f) = [net |-> i, path |-> PathIn(ns[i], f)]
    BY <1>5, <2>1, <2>5, LocatedIs
  <2>7. ~Overlap(PathIn(ns[i], e), PathIn(ns[i], f))
    BY <1>5, <2>1, <2>2, <2>3, <2>5, UsableIs, PathsOverlap
  <2> QED BY <2>4, <2>6, <2>7, SameWords
<1>6. GoodRows(ns, E) <=> \A p \in P : \E i \in DOMAIN ns : Fits(ns[i], p)
  BY <1>1 DEF GoodRows
<1>7. Starts(ns) <=> Usable(ns) /\ GoodRows(ns, E)
  BY <1>1, StartsIs
<1>8. Pool!Accepts(ns) <=>
        /\ Usable(ns)
        /\ \A p \in P : Pool!Reservable(Pool!EmptyPool(ns), Pool!Located(ns, p))
        /\ \A p, q \in { Pool!Located(ns, e) : e \in P } :
             p # q /\ p.net = q.net => ~Pool!Overlap(p.path, q.path)
  BY <1>2, <1>3 DEF Pool!Accepts
<1>9. Usable(ns) => \A p, q \in { Pool!Located(ns, e) : e \in P } :
                      p # q /\ p.net = q.net => ~Pool!Overlap(p.path, q.path)
  BY <1>5
<1>10. Usable(ns) => ((\A p \in P : Pool!Reservable(Pool!EmptyPool(ns), Pool!Located(ns, p)))
                        <=> \A p \in P : \E i \in DOMAIN ns : Fits(ns[i], p))
  BY <1>4
<1> QED BY <1>6, <1>7, <1>8, <1>9, <1>10, Zenon

\* A start.
LEMMA StartIsStart ==
  ASSUME Inv, NEW ns \in Configs, Start(ns)
  PROVE  Pool!Start(ns)
<1> PICK E : E = Exclusives(rows)
  OBVIOUS
<1>1. CASE Starts(ns) /\ nets' = ns /\ up' = TRUE /\ trees' = Load(ns, rows).trees /\ ret' = "started"
  <2>1. RowsTyped
    BY DEF Inv
  <2>2. Usable(ns) /\ Built(ns, trees', E) /\ \A r \in E : r.prefix \in AllPrefixes(Width)
    BY <1>1, <2>1, StartsIs, ExclusivesAre
  <2>3. Shown(trees') = HeldAll(ns, E)
    BY <2>2, ShownIs
  <2>4. Pool!Exclusive = { r.prefix : r \in E }
    BY DEF Pool!Exclusive, Exclusives
  <2>5. Shown(trees') = Pool!Put(Pool!EmptyPool(ns), { Pool!Located(ns, p) : p \in Pool!Exclusive })
    BY <2>2, <2>3, <2>4, HeldIsPut
  <2> QED BY <1>1, <2>5, AcceptsIs DEF Start, Pool!Start, Shown
<1>2. CASE ~Starts(ns) /\ ret' = "refused" /\ UNCHANGED <<nets, up, trees>>
  BY <1>2, AcceptsIs DEF Start, Pool!Start
<1> QED BY <1>1, <1>2 DEF Start

\* The end of the process.
LEMMA StopIsStop ==
  ASSUME Stop
  PROVE  Pool!Stop
<1>1. Shown(<<>>) = <<>>
  BY DEF Shown
<1> QED BY <1>1 DEF Stop, Pool!Stop, Shown

\* What the pool holds before and after a request.
LEMMA ShownNow ==
  ASSUME Inv, Inv', up, up'
  PROVE  /\ Shown(trees) = HeldAll(nets, Exclusives(rows))
         /\ Shown(trees') = HeldAll(nets', Exclusives(rows'))
<1>1. Built(nets, trees, Exclusives(rows)) /\ Built(nets', trees', Exclusives(rows'))
  BY DEF Inv
<1> QED BY <1>1, ShownIs

\* A request that leaves the table leaves the pool.
LEMMA RefusedIsRefused ==
  ASSUME Inv, Inv', up, UNCHANGED <<nets, up, rows, nextSubnet>>, NEW status, ret' = status
  PROVE  Pool!Refuse(status)
<1>1. Shown(trees') = Shown(trees)
  BY ShownNow
<1> QED BY <1>1 DEF Pool!Refuse, Shown

\* A reservation.
LEMMA ReserveIsReserve ==
  ASSUME Inv, Inv', NEW p \in AllPrefixes(Width), NEW may \in BOOLEAN, ReserveSubnet(p, may)
  PROVE  Pool!Reserve(p, may)
<1>1. up /\ up' /\ UNCHANGED <<nets, up>>
  BY DEF ReserveSubnet
<1> PICK E : E = Exclusives(rows)
  OBVIOUS
<1>2. /\ RowsTyped /\ Usable(nets) /\ GoodRows(nets, E) /\ Built(nets, trees, E) /\ Grown(nets, trees)
      /\ \A r \in E : r \in rows /\ r.prefix \in AllPrefixes(Width)
  BY <1>1, UpInv
<1> PICK at : at = Pool!Located(nets, p)
  OBVIOUS
<1>3. Shown(trees) = HeldAll(nets, E) /\ Shown(trees') = HeldAll(nets, Exclusives(rows'))
  BY <1>1, ShownNow
<1>4. HasHostBits(p) <=> Pool!HasHostBits(p)
  BY SameWords
<1>5. ASSUME NEW status, ret' = status, UNCHANGED <<rows, nextSubnet>> PROVE Pool!Refuse(status)
  BY <1>1, <1>5, RefusedIsRefused
<1>6. \A prefixes, m : Pool!AddRows(prefixes, m) <=> AddRows(prefixes, m)
  BY DEF Pool!AddRows, AddRows
<1>7. /\ (\A i \in DOMAIN nets : ~Within(nets[i], p)) => at.net = 0
      /\ \A i \in DOMAIN nets : Within(nets[i], p) =>
           /\ at.net # 0
           /\ Pool!Reservable(Shown(trees), at) <=> Clear(Leaves(trees[i]), PathIn(nets[i], p))
  <2>1. (\A i \in DOMAIN nets : ~Within(nets[i], p)) => at.net = 0
    BY <1>2, LocatedIs
  <2>2. ASSUME NEW i \in DOMAIN nets, Within(nets[i], p)
        PROVE  /\ at.net # 0
               /\ Pool!Reservable(Shown(trees), at) <=> Clear(Leaves(trees[i]), PathIn(nets[i], p))
    <3>1. at.net = i /\ at.path = PathIn(nets[i], p)
      BY <1>2, <2>2, LocatedIs
    <3>2. i # 0
      BY <1>2, NetsAre
    <3>3. DOMAIN Shown(trees) = DOMAIN nets /\ Shown(trees)[i] = Leaves(trees[i])
      BY <1>2 DEF Shown, Grown
    <3> QED BY <3>1, <3>2, <3>3, SameWords DEF Pool!Reservable
  <2> QED BY <2>1, <2>2
<1>8. CASE HasHostBits(p) /\ Refuse("400")
  <2>1. Pool!Refuse("400")
    BY <1>5, <1>8 DEF Refuse
  <2> QED BY <1>1, <1>4, <1>8, <2>1 DEF Pool!Reserve
<1>9. ASSUME ~HasHostBits(p), may, AddRows(<<p>>, may), UNCHANGED trees PROVE Pool!Reserve(p, may)
  BY <1>1, <1>4, <1>6, <1>9 DEF Pool!Reserve
<1>10. ASSUME ~HasHostBits(p), may, RollBack(trees, {}) PROVE Pool!Reserve(p, may)
  <2>1. Pool!Refuse("500")
    BY <1>5, <1>10, RolledBack
  <2> QED BY <1>1, <1>4, <1>10, <2>1 DEF Pool!Reserve
<1> PICK r : r = Reserve(nets, trees, p)
  OBVIOUS
<1>11. /\ r.err = "ErrOutOfNet" => \A i \in DOMAIN nets : ~Within(nets[i], p)
       /\ r.err = "ErrOverlaps" =>
            \E i \in DOMAIN nets : Within(nets[i], p) /\ ~Clear(Leaves(trees[i]), PathIn(nets[i], p))
       /\ r.err = "nil" =>
            \E i \in DOMAIN nets : Within(nets[i], p) /\ Clear(Leaves(trees[i]), PathIn(nets[i], p))
       /\ r.err # "panic"
  <2>1. CASE \A i \in DOMAIN nets : ~Within(nets[i], p)
    <3>1. r.err = "ErrOutOfNet"
      BY <1>2, <2>1, ReserveIs
    <3> QED BY <2>1, <3>1
  <2>2. ASSUME NEW i \in DOMAIN nets, Within(nets[i], p), ~Clear(Leaves(trees[i]), PathIn(nets[i], p))
        PROVE  r.err = "ErrOverlaps"
    BY <1>2, <2>2, ReserveIs
  <2>3. ASSUME NEW i \in DOMAIN nets, Within(nets[i], p), Clear(Leaves(trees[i]), PathIn(nets[i], p))
        PROVE  r.err = "nil"
    BY <1>2, <2>3, ReserveIs
  <2>4. "nil" # "ErrOverlaps" /\ "nil" # "ErrOutOfNet" /\ "ErrOverlaps" # "ErrOutOfNet"
        /\ "nil" # "panic" /\ "ErrOverlaps" # "panic"
    OBVIOUS
  <2> QED BY <2>1, <2>2, <2>3, <2>4
<1>12. ASSUME ~HasHostBits(p), ~may, r.err = "ErrOutOfNet", Refuse("400") PROVE Pool!Reserve(p, may)
  <2>1. at.net = 0 /\ Pool!Refuse("400")
    BY <1>5, <1>7, <1>11, <1>12 DEF Refuse
  <2> QED BY <1>1, <1>4, <1>12, <2>1 DEF Pool!Reserve, Pool!NoNet
<1>13. ASSUME ~HasHostBits(p), ~may, r.err = "ErrOverlaps", Refuse("409") PROVE Pool!Reserve(p, may)
  <2>1. at.net # 0 /\ ~Pool!Reservable(Shown(trees), at) /\ Pool!Refuse("409")
    BY <1>5, <1>7, <1>11, <1>13 DEF Refuse
  <2> QED BY <1>1, <1>4, <1>13, <2>1 DEF Pool!Reserve, Pool!NoNet, Shown
<1>14. ASSUME ~HasHostBits(p), ~may, r.err = "nil", AddRows(<<p>>, may), trees' = r.trees
       PROVE  Pool!Reserve(p, may)
  <2>1. at.net # 0 /\ Pool!Reservable(Shown(trees), at)
    BY <1>7, <1>11, <1>14
  <2> PICK x : x = [id |-> nextSubnet + 1 - 1, prefix |-> p, may |-> may]
    OBVIOUS
  <2>2. NewRows(nextSubnet, <<p>>, may) = {x}
    <3>1. DOMAIN <<p>> = {1} /\ <<p>>[1] = p
      OBVIOUS
    <3> QED BY <3>1 DEF NewRows
  <2>3. <<p>> \in Seq(AllPrefixes(Width))
    OBVIOUS
  <2>4. Exclusives(rows') = E \cup {x} /\ x \notin rows
    BY <1>2, <1>14, <2>2, <2>3, RowsAdded
  <2>5. x.prefix = p /\ x \notin E
    BY <1>2, <2>4
  <2>6. Shown(trees') = Pool!Put(Shown(trees), {at})
    BY <1>2, <1>3, <2>4, <2>5, PutHeld
  <2> QED BY <1>1, <1>4, <1>6, <1>14, <2>1, <2>6 DEF Pool!Reserve, Pool!NoNet, Shown
<1>15. ASSUME ~HasHostBits(p), ~may, r.err = "nil", RollBack(r.trees, {p}) PROVE Pool!Reserve(p, may)
  <2>1. at.net # 0 /\ Pool!Reservable(Shown(trees), at) /\ Pool!Refuse("500")
    BY <1>5, <1>7, <1>11, <1>15, RolledBack
  <2> QED BY <1>1, <1>4, <1>15, <2>1 DEF Pool!Reserve, Pool!NoNet, Shown
<1> QED BY <1>8, <1>9, <1>10, <1>11, <1>12, <1>13, <1>14, <1>15 DEF ReserveSubnet
\* An assignment of an address in every net.
LEMMA AssignIsAssign ==
  ASSUME Inv, Inv', AssignRandom
  PROVE  Pool!Assign
<1>1. up /\ up' /\ UNCHANGED <<nets, up>>
  BY DEF AssignRandom
<1> PICK E : E = Exclusives(rows)
  OBVIOUS
<1>2. Usable(nets) /\ Built(nets, trees, E) /\ Grown(nets, trees)
  BY <1>1, UpInv
<1>3. PICK n \in Draws(nets, trees) :
        LET a == Assigned(nets, trees, n)
            given == { a.prefixes[i] : i \in DOMAIN a.prefixes }
        IN \/ /\ a.err = "nil"
              /\ (AddRows(a.prefixes, FALSE) /\ trees' = a.trees) \/ RollBack(a.trees, given)
           \/ /\ a.err # "nil"
              /\ trees' = a.trees /\ ret' = "no free address" /\ UNCHANGED <<rows, nextSubnet>>
  BY DEF AssignRandom
<1> PICK a : a = Assigned(nets, trees, n)
  OBVIOUS
<1> PICK F : F = Pool!FreePicks(Pool!HeightsOf(nets), Shown(trees))
  OBVIOUS
<1>4. F = Picks(nets, trees)
  BY <1>2, PicksAre
<1>5. ASSUME NEW status, ret' = status, UNCHANGED <<rows, nextSubnet>> PROVE Pool!Refuse(status)
  BY <1>1, <1>5, RefusedIsRefused
<1>6. ASSUME NEW e \in DOMAIN nets, FreeAddrs(trees[e], CounterBits) = 0 PROVE Pool!Assign
  <2>1. a.err = "ErrNoFreeAddr"
    BY <1>2, <1>6, AssignedNone
  <2>2. ret' = "no free address" /\ UNCHANGED <<rows, nextSubnet>>
    BY <1>3, <2>1
  <2>3. \A x \in Address(HostBits(nets[e])) : ~Clear(Leaves(trees[e]), x)
    BY <1>2, <1>6, DrawnIs
  <2>4. F = {}
    BY <1>4, <2>3 DEF Picks
  <2>5. Pool!Refuse("no free address")
    BY <1>5, <2>2
  <2> QED BY <1>1, <2>4, <2>5 DEF Pool!Assign, Shown
<1>7. ASSUME \A e \in DOMAIN nets : FreeAddrs(trees[e], CounterBits) # 0 PROVE Pool!Assign
  <2>1. a.err = "nil"
    BY <1>2, <1>7, AssignedAll
  <2>2. PICK pick : a.prefixes = Hosted(nets, pick) /\ Takes(nets, trees, a.trees, pick)
    BY <1>2, <1>7, AssignedAll
  <2>3. pick \in F
    BY <1>4, <2>2 DEF Takes
  <2>4. CASE AddRows(a.prefixes, FALSE) /\ trees' = a.trees
    <3>1. a.prefixes = [i \in DOMAIN nets |-> Pool!HostPrefix(nets[i], pick[i])]
      BY <1>2, <2>2, NetsAre, SameWords DEF Hosted
    <3>2. Pool!AddRows([i \in DOMAIN nets |-> Pool!HostPrefix(nets[i], pick[i])], FALSE)
      BY <2>4, <3>1 DEF Pool!AddRows, AddRows
    <3>3. Shown(trees') = Pool!Put(Shown(trees), Pool!Picked(pick))
      BY <1>2, <2>2, <2>4, PicksAre
    <3> QED BY <1>1, <2>3, <3>2, <3>3 DEF Pool!Assign, Shown
  <2>5. ASSUME NEW P, RollBack(a.trees, P) PROVE Pool!Assign
    <3>1. Pool!Refuse("500")
      BY <1>5, <2>5, RolledBack
    <3> QED BY <1>1, <2>3, <3>1 DEF Pool!Assign, Shown
  <2> QED BY <1>3, <2>1, <2>4, <2>5
<1> QED BY <1>6, <1>7

\* A deletion.
LEMMA DeleteIsDelete ==
  ASSUME Inv, Inv', NEW id, DeleteSubnet(id)
  PROVE  Pool!Delete(id)
<1>1. up /\ up' /\ UNCHANGED <<nets, up>>
  BY DEF DeleteSubnet
<1> PICK E : E = Exclusives(rows)
  OBVIOUS
<1>2. /\ RowsTyped /\ Usable(nets) /\ GoodRows(nets, E) /\ Built(nets, trees, E) /\ Grown(nets, trees)
      /\ \A r \in E : r \in rows /\ r.prefix \in AllPrefixes(Width)
  BY <1>1, UpInv
<1> PICK found : found = { r \in rows : r.id = id }
  OBVIOUS
<1>3. ASSUME \A r \in rows : r.id # id, Refuse("404") PROVE Pool!Delete(id)
  <2>1. found = {} /\ UNCHANGED <<rows, nextSubnet>> /\ ret' = "404"
    BY <1>3 DEF Refuse
  <2>2. Pool!Refuse("404")
    BY <1>1, <2>1, RefusedIsRefused
  <2> QED BY <1>1, <2>1, <2>2 DEF Pool!Delete
<1>4. ASSUME NEW r \in rows, r.id = id, rows' = rows \ {r}, UNCHANGED nextSubnet,
             LET d == Delete(nets, trees, r.prefix)
             IN IF r.may THEN ret' = "204" /\ UNCHANGED trees
                ELSE trees' = d.trees /\ ret' = IF d.found THEN "204" ELSE "204 warned"
      PROVE  Pool!Delete(id)
  <2>1. found = {r}
    BY <1>2, <1>4 DEF RowsTyped
  <2> PICK L : L = { Pool!Located(nets, s.prefix) : s \in { q \in found : ~q.may } }
    OBVIOUS
  <2>2. ret' = "204" /\ Shown(trees') = Pool!Drop(Shown(trees), L)
    <3>1. CASE r.may
      <4>1. L = {}
        BY <2>1, <3>1
      <4>2. Pool!Drop(Shown(trees), {}) = Shown(trees)
        BY DEF Pool!Drop, Pool!Paths, Shown
      <4> QED BY <1>4, <3>1, <4>1, <4>2
    <3>2. CASE ~r.may
      <4> PICK S : S = E \ {r}
        OBVIOUS
      <4>1. Exclusives(rows') = S /\ r \in E /\ trees' = Delete(nets, trees, r.prefix).trees
        BY <1>4, <3>2 DEF Exclusives
      <4>2. /\ E = S \cup {r} /\ r \notin S /\ r.prefix \in AllPrefixes(Width)
            /\ \A q \in S : q.prefix \in AllPrefixes(Width)
        BY <1>2, <4>1
      <4>3. /\ Delete(nets, trees, r.prefix).found
            /\ HeldAll(nets, S) = Pool!Drop(HeldAll(nets, S \cup {r}), {Pool!Located(nets, r.prefix)})
        <5> HIDE <4>1
        <5> QED BY <1>2, <4>2, DeletedRow, DropHeld
      <4>4. Shown(trees) = HeldAll(nets, E) /\ Shown(trees') = HeldAll(nets, S)
        BY <1>1, <4>1, ShownNow
      <4>5. L = {Pool!Located(nets, r.prefix)}
        BY <2>1, <3>2
      <4> QED BY <1>4, <3>2, <4>2, <4>3, <4>4, <4>5
    <3> QED BY <3>1, <3>2
  <2> QED BY <1>1, <1>4, <2>1, <2>2 DEF Pool!Delete, Shown
<1> QED BY <1>3, <1>4 DEF DeleteSubnet

\* The service does what the sets of SubnetPool do, with the same answers: the tries, the
\* loop over the nets, the rollback and the rebuilding of the trees at a start cannot be
\* told from them.
THEOREM ServiceIsPools == Spec => ImplementsPools
<1>1. Init => Pool!Init
  BY DEF Init, Pool!Init
<1>2. Inv /\ Inv' /\ [Next]_vars => [Pool!Next]_(Pool!vars)
  <2> SUFFICES ASSUME Inv, Inv', [Next]_vars PROVE [Pool!Next]_(Pool!vars)
    OBVIOUS
  <2>1. ASSUME NEW ns \in Configs, Start(ns) PROVE Pool!Next
    BY <2>1, StartIsStart DEF Pool!Next
  <2>2. CASE Stop
    BY <2>2, StopIsStop DEF Pool!Next
  <2>3. ASSUME NEW q \in Requests, ReserveSubnet(q.prefix, q.may) PROVE Pool!Next
    <3>1. q.prefix \in AllPrefixes(Width) /\ q.may \in BOOLEAN
      BY RequestAssumption
    <3>2. Pool!Reserve(q.prefix, q.may)
      BY <2>3, <3>1, ReserveIsReserve
    <3> QED BY <3>2 DEF Pool!Next
  <2>4. CASE AssignRandom
    BY <2>4, AssignIsAssign DEF Pool!Next
  <2>5. ASSUME NEW id \in 1..MaxSubnetId, DeleteSubnet(id) PROVE Pool!Next
    BY <2>5, DeleteIsDelete DEF Pool!Next
  <2>6. CASE UNCHANGED vars
    BY <2>6 DEF vars, Pool!vars
  <2> QED BY <2>1, <2>2, <2>3, <2>4, <2>5, <2>6 DEF Next
<1>3. Init /\ [][Next]_vars => []Inv
  BY SpecInv DEF Spec
<1> QED BY <1>1, <1>2, <1>3, PTL DEF Spec, ImplementsPools, Pool!Spec

=============================================================================
