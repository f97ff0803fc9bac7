--------------------------- MODULE LockingProofs ---------------------------
(***************************************************************************)
(* Proofs about the mutexes, for any number of goroutines and whatever     *)
(* endpoints are called.                                                   *)
(*                                                                         *)
(* Which mutexes a goroutine holds can be read off the instructions it has *)
(* left: it holds one exactly if the next of them that is about this mutex *)
(* releases it.  What has to be known of a handler is then a property of   *)
(* its script alone, checked script by script.                             *)
(***************************************************************************)
EXTENDS Locking, SequenceTheorems, TLAPS

\* Of the instructions from the i-th on, the first about a mutex releases it.
HeldAt(s, i, take, release) ==
  \E j \in i..Len(s) : s[j] = release /\ \A k \in i..j-1 : s[k] # take

ReadHeld(s) == HeldAt(s, 1, "rlock", "runlock")
WriteHeld(s) == HeldAt(s, 1, "lock", "unlock")
CacheHeld(s) == HeldAt(s, 1, "cacheLock", "cacheUnlock")

\* What is taken is released before it is taken again, and the other way round.
Paired(s, take, release) ==
  \A i \in 1..Len(s) : /\ s[i] = take => HeldAt(s, i + 1, take, release)
                       /\ s[i] = release => ~HeldAt(s, i + 1, take, release)

\* What is done to node.db.
DbWork == Reads \cup Writes \cup {"rlock", "lock"}

\* Tables and trees are read under node.db's mutex and written under its write lock; once
\* released, it is not taken again.
Guarded(s) ==
  \A i \in 1..Len(s) :
    /\ s[i] \in Writes => HeldAt(s, i, "lock", "unlock")
    /\ s[i] \in Reads => HeldAt(s, i, "rlock", "runlock") \/ HeldAt(s, i, "lock", "unlock")
    /\ s[i] \in {"runlock", "unlock"} => \A j \in i..Len(s) : s[j] \notin DbWork

Sound(s) ==
  /\ Paired(s, "rlock", "runlock")
  /\ Paired(s, "lock", "unlock")
  /\ Paired(s, "cacheLock", "cacheUnlock")
  /\ Guarded(s)

\* Where s fails, it holds what e goes on with.
Recovers(s, e) ==
  \A i \in 1..Len(s) : s[i] \in Fallible =>
    /\ HeldAt(s, i, "rlock", "runlock") <=> ReadHeld(e)
    /\ HeldAt(s, i, "lock", "unlock") <=> WriteHeld(e)
    /\ HeldAt(s, i, "cacheLock", "cacheUnlock") <=> CacheHeld(e)

\* A failure is not followed by another, nor by waiting for node.db.
Final(e) == \A i \in 1..Len(e) : e[i] \notin Fallible \cup {"rlock", "lock"}

\* A script that a goroutine may begin, holding nothing.
Fit(s, e) ==
  /\ s \in Seq(Instruction) /\ e \in Seq(Instruction)
  /\ Sound(s) /\ Sound(e) /\ Recovers(s, e) /\ Final(e)
  /\ ~ReadHeld(s) /\ ~WriteHeld(s) /\ ~CacheHeld(s)

HasWork(s) == \E i \in 1..Len(s) : s[i] \in DbWork

ScriptInv ==
  \A p \in Proc : /\ todo[p] \in Seq(Instruction) /\ exit[p] \in Seq(Instruction)
                  /\ Sound(todo[p]) /\ Sound(exit[p])
                  /\ Recovers(todo[p], exit[p]) /\ Final(exit[p])

\* A writer that waits for the readers is still at its "lock".
LockInv ==
  /\ reads \in [Proc -> Nat] /\ writing \in BOOLEAN
  /\ writer \in Proc \cup {Nobody} /\ cacheLock \in Proc \cup {Nobody}
  /\ \A p \in Proc :
       /\ reads[p] = IF ReadHeld(todo[p]) THEN 1 ELSE 0
       /\ p \notin bare => (writer = p /\ writing <=> WriteHeld(todo[p]))
       /\ writer = p /\ ~writing => At(p, "lock")
       /\ cacheLock = p <=> CacheHeld(todo[p])
  /\ writing => writer # Nobody /\ \A p \in Proc : reads[p] = 0

\* Who rolls back without node.db has its Unlock still before it, but no Lock.
BareInv ==
  /\ bare \subseteq Worker /\ broken \in BOOLEAN
  /\ \A p \in bare : writer # p /\ WriteHeld(todo[p]) /\ Final(todo[p])

\* Unless somebody does: who has read and has something left to do holds node.db, and
\* who holds it has not been overtaken.
ViewInv ==
  /\ view \in [Proc -> {"none", "fresh", "stale"}]
  /\ \A p \in Proc :
       /\ todo[p] = <<>> => view[p] = "none"
       /\ bare = {} /\ view[p] # "none" /\ HasWork(todo[p])
            => ReadHeld(todo[p]) \/ WriteHeld(todo[p])
       /\ bare = {} /\ (ReadHeld(todo[p]) \/ WriteHeld(todo[p])) => view[p] # "stale"

DomainInv == DOMAIN todo = Proc /\ DOMAIN exit = Proc

-----------------------------------------------------------------------------
(* Sequences of instructions                                               *)

\* Two sequences joined, element by element.
LEMMA Joined ==
  ASSUME NEW S, NEW s \in Seq(S), NEW t \in Seq(S), NEW u \in Seq(S),
         Len(u) = Len(s) + Len(t),
         \A i \in 1..Len(s) : u[i] = s[i],
         \A i \in 1..Len(t) : u[Len(s) + i] = t[i]
  PROVE  s \o t = u
<1>1. s \o t \in Seq(S) /\ Len(s \o t) = Len(s) + Len(t)
      /\ \A i \in 1..Len(s) + Len(t) :
           (s \o t)[i] = IF i <= Len(s) THEN s[i] ELSE t[i - Len(s)]
  BY ConcatProperties
<1>2. ASSUME NEW i \in 1..Len(s \o t) PROVE (s \o t)[i] = u[i]
  <2>1. CASE i <= Len(s)
    BY <1>1, <2>1
  <2>2. CASE i > Len(s)
    <3>1. i - Len(s) \in 1..Len(t) /\ Len(s) + (i - Len(s)) = i
      BY <1>1, <2>2
    <3>2. u[Len(s) + (i - Len(s))] = t[i - Len(s)]
      BY <3>1
    <3> QED BY <1>1, <2>2, <3>1, <3>2
  <2> QED BY <2>1, <2>2, <1>1
<1> QED BY <1>1, <1>2, SeqEqual

\* The next instruction alone.
LEMMA HeadHeld ==
  ASSUME NEW s \in Seq(Instruction), s # <<>>, NEW take, NEW release, take # release
  PROVE  HeldAt(s, 1, take, release)
           <=> (Head(s) = release \/ (Head(s) # take /\ HeldAt(s, 2, take, release)))
<1>1. Len(s) \in Nat \ {0} /\ Head(s) = s[1]
  BY EmptySeq, LenProperties
<1>2. ASSUME HeldAt(s, 1, take, release), Head(s) # release
      PROVE  Head(s) # take /\ HeldAt(s, 2, take, release)
  <2>1. PICK j \in 1..Len(s) : s[j] = release /\ \A k \in 1..j-1 : s[k] # take
    BY <1>2 DEF HeldAt
  <2>2. j \in 2..Len(s) /\ 1 \in 1..j-1
    BY <1>1, <1>2, <2>1
  <2> QED BY <1>1, <2>1, <2>2 DEF HeldAt
<1>3. ASSUME Head(s) = release PROVE HeldAt(s, 1, take, release)
  BY <1>1, <1>3 DEF HeldAt
<1>4. ASSUME Head(s) # take, HeldAt(s, 2, take, release) PROVE HeldAt(s, 1, take, release)
  BY <1>1, <1>4 DEF HeldAt
<1> QED BY <1>2, <1>3, <1>4

\* The rest of the instructions.
LEMMA TailHeld ==
  ASSUME NEW s \in Seq(Instruction), s # <<>>, NEW take, NEW release, NEW i \in Nat \ {0}
  PROVE  HeldAt(Tail(s), i, take, release) <=> HeldAt(s, i + 1, take, release)
<1>1. Len(s) \in Nat \ {0} /\ Len(Tail(s)) = Len(s) - 1
      /\ \A j \in 1..Len(s) - 1 : Tail(s)[j] = s[j + 1]
  BY EmptySeq, LenProperties, HeadTailProperties
<1>2. ASSUME HeldAt(Tail(s), i, take, release) PROVE HeldAt(s, i + 1, take, release)
  <2>1. PICK j \in i..Len(s) - 1 :
          Tail(s)[j] = release /\ \A k \in i..j-1 : Tail(s)[k] # take
    BY <1>1, <1>2 DEF HeldAt
  <2>2. j + 1 \in i + 1..Len(s) /\ s[j + 1] = release
    BY <1>1, <2>1
  <2>3. ASSUME NEW k \in i + 1..(j + 1) - 1 PROVE s[k] # take
    <3>1. k - 1 \in i..j - 1 /\ k - 1 \in 1..Len(s) - 1 /\ (k - 1) + 1 = k
      BY <1>1, <2>1
    <3> QED BY <1>1, <2>1, <3>1
  <2> QED BY <2>2, <2>3 DEF HeldAt
<1>3. ASSUME HeldAt(s, i + 1, take, release) PROVE HeldAt(Tail(s), i, take, release)
  <2>1. PICK j \in i + 1..Len(s) : s[j] = release /\ \A k \in i + 1..j-1 : s[k] # take
    BY <1>3 DEF HeldAt
  <2>2. j - 1 \in i..Len(Tail(s)) /\ Tail(s)[j - 1] = release
    BY <1>1, <2>1
  <2>3. ASSUME NEW k \in i..(j - 1) - 1 PROVE Tail(s)[k] # take
    BY <1>1, <2>1
  <2> QED BY <2>2, <2>3 DEF HeldAt
<1> QED BY <1>2, <1>3

\* What an instruction does to what is held.
LEMMA Advanced ==
  ASSUME NEW s \in Seq(Instruction), s # <<>>, Sound(s)
  PROVE  /\ ReadHeld(Tail(s)) <=> Head(s) = "rlock" \/ (Head(s) # "runlock" /\ ReadHeld(s))
         /\ WriteHeld(Tail(s)) <=> Head(s) = "lock" \/ (Head(s) # "unlock" /\ WriteHeld(s))
         /\ CacheHeld(Tail(s))
              <=> Head(s) = "cacheLock" \/ (Head(s) # "cacheUnlock" /\ CacheHeld(s))
<1>1. Head(s) = s[1] /\ 1 \in 1..Len(s)
  BY EmptySeq, LenProperties
<1>2. ASSUME NEW take, NEW release, take # release, Paired(s, take, release)
      PROVE  HeldAt(Tail(s), 1, take, release)
               <=> Head(s) = take \/ (Head(s) # release /\ HeldAt(s, 1, take, release))
  <2>1. HeldAt(Tail(s), 1, take, release) <=> HeldAt(s, 1 + 1, take, release)
    BY TailHeld
  <2>2. HeldAt(s, 1 + 1, take, release) <=> HeldAt(s, 2, take, release)
    OBVIOUS
  <2>3. /\ s[1] = take => HeldAt(s, 1 + 1, take, release)
        /\ s[1] = release => ~HeldAt(s, 1 + 1, take, release)
    BY <1>1, <1>2 DEF Paired
  <2>4. HeldAt(s, 1, take, release)
          <=> (Head(s) = release \/ (Head(s) # take /\ HeldAt(s, 2, take, release)))
    BY <1>2, HeadHeld
  <2> QED BY <1>1, <1>2, <2>1, <2>2, <2>3, <2>4
<1>3. Paired(s, "rlock", "runlock") /\ Paired(s, "lock", "unlock")
      /\ Paired(s, "cacheLock", "cacheUnlock")
  BY DEF Sound
<1> QED BY <1>2, <1>3 DEF ReadHeld, WriteHeld, CacheHeld

\* The rest of a sound script is sound.
LEMMA TailSound ==
  ASSUME NEW s \in Seq(Instruction), s # <<>>, Sound(s)
  PROVE  Tail(s) \in Seq(Instruction) /\ Sound(Tail(s))
<1>1. Len(s) \in Nat \ {0} /\ Tail(s) \in Seq(Instruction) /\ Len(Tail(s)) = Len(s) - 1
      /\ \A i \in 1..Len(Tail(s)) : Tail(s)[i] = s[i + 1] /\ i + 1 \in 1..Len(s) /\ i \in Nat \ {0}
  BY EmptySeq, LenProperties, HeadTailProperties
<1>2. ASSUME NEW take, NEW release, Paired(s, take, release) PROVE Paired(Tail(s), take, release)
  <2>1. ASSUME NEW i \in 1..Len(Tail(s))
        PROVE  /\ Tail(s)[i] = take => HeldAt(Tail(s), i + 1, take, release)
               /\ Tail(s)[i] = release => ~HeldAt(Tail(s), i + 1, take, release)
    <3>1. HeldAt(Tail(s), i + 1, take, release) <=> HeldAt(s, (i + 1) + 1, take, release)
      <4>1. i + 1 \in Nat \ {0}
        BY <1>1
      <4> QED BY <4>1, TailHeld
    <3> QED BY <1>1, <1>2, <3>1 DEF Paired
  <2> QED BY <2>1 DEF Paired
<1>3. Guarded(Tail(s))
  <2>1. ASSUME NEW i \in 1..Len(Tail(s))
        PROVE  /\ Tail(s)[i] \in Writes => HeldAt(Tail(s), i, "lock", "unlock")
               /\ Tail(s)[i] \in Reads => \/ HeldAt(Tail(s), i, "rlock", "runlock")
                                          \/ HeldAt(Tail(s), i, "lock", "unlock")
    <3>1. /\ HeldAt(Tail(s), i, "lock", "unlock") <=> HeldAt(s, i + 1, "lock", "unlock")
          /\ HeldAt(Tail(s), i, "rlock", "runlock") <=> HeldAt(s, i + 1, "rlock", "runlock")
      BY <1>1, TailHeld
    <3> QED BY <1>1, <3>1 DEF Sound, Guarded
  <2>2. ASSUME NEW i \in 1..Len(Tail(s)), Tail(s)[i] \in {"runlock", "unlock"},
               NEW j \in i..Len(Tail(s))
        PROVE  Tail(s)[j] \notin DbWork
    <3>1. j + 1 \in i + 1..Len(s) /\ j \in 1..Len(Tail(s))
      BY <1>1
    <3>2. s[i + 1] \in {"runlock", "unlock"} /\ i + 1 \in 1..Len(s)
      BY <1>1, <2>2
    <3>3. s[j + 1] \notin DbWork
      BY <3>1, <3>2 DEF Sound, Guarded
    <3> QED BY <1>1, <3>1, <3>3
  <2> QED BY <2>1, <2>2 DEF Guarded
<1> QED BY <1>1, <1>2, <1>3 DEF Sound

\* and fails as the script does.
LEMMA TailRecovers ==
  ASSUME NEW s \in Seq(Instruction), s # <<>>, NEW e, Recovers(s, e)
  PROVE  Recovers(Tail(s), e)
<1>1. Len(s) \in Nat \ {0} /\ Len(Tail(s)) = Len(s) - 1
      /\ \A i \in 1..Len(Tail(s)) : Tail(s)[i] = s[i + 1] /\ i + 1 \in 1..Len(s) /\ i \in Nat \ {0}
  BY EmptySeq, LenProperties, HeadTailProperties
<1>2. ASSUME NEW i \in 1..Len(Tail(s)), NEW take, NEW release
      PROVE  HeldAt(Tail(s), i, take, release) <=> HeldAt(s, i + 1, take, release)
  BY <1>1, TailHeld
<1> QED BY <1>1, <1>2 DEF Recovers

\* Nothing is held by who has nothing to do, and nothing goes wrong there.
LEMMA NothingLeft ==
  /\ <<>> \in Seq(Instruction) /\ Sound(<<>>) /\ Final(<<>>) /\ \A e : Recovers(<<>>, e)
  /\ ~ReadHeld(<<>>) /\ ~WriteHeld(<<>>) /\ ~CacheHeld(<<>>) /\ ~HasWork(<<>>)
<1>1. <<>> \in Seq(Instruction) /\ Len(<<>>) = 0
  BY EmptySeq
<1>2. \A i \in 1..Len(<<>>) : FALSE
  BY <1>1
<1> QED BY <1>1, <1>2
        DEF Sound, Paired, Guarded, Recovers, Final, HeldAt, ReadHeld, WriteHeld, CacheHeld, HasWork

\* Where s fails, e takes over what s holds.
LEMMA Failed ==
  ASSUME NEW s \in Seq(Instruction), s # <<>>, Head(s) \in Fallible, NEW e, Recovers(s, e)
  PROVE  /\ ReadHeld(s) <=> ReadHeld(e)
         /\ WriteHeld(s) <=> WriteHeld(e)
         /\ CacheHeld(s) <=> CacheHeld(e)
<1>1. Head(s) = s[1] /\ 1 \in 1..Len(s)
  BY EmptySeq, LenProperties
<1> QED BY <1>1 DEF Recovers, ReadHeld, WriteHeld, CacheHeld

\* Nothing can fail any more in what follows a failure.
LEMMA FinalRecovers == ASSUME NEW e, Final(e) PROVE \A f : Recovers(e, f)
BY DEF Final, Recovers

\* Nor in what is left of it.
LEMMA TailFinal ==
  ASSUME NEW s \in Seq(Instruction), s # <<>>, Final(s)
  PROVE  Final(Tail(s))
<1>1. Len(s) \in Nat \ {0} /\ Len(Tail(s)) = Len(s) - 1
      /\ \A i \in 1..Len(Tail(s)) : Tail(s)[i] = s[i + 1] /\ i + 1 \in 1..Len(s)
  BY EmptySeq, LenProperties, HeadTailProperties
<1> QED BY <1>1 DEF Final

\* What follows a failure still has node.db if it has anything left to do.
LEMMA FinalHolds ==
  ASSUME NEW e \in Seq(Instruction), Final(e), Sound(e), HasWork(e)
  PROVE  ReadHeld(e) \/ WriteHeld(e)
<1>1. PICK i \in 1..Len(e) : e[i] \in Reads \cup Writes
  BY DEF HasWork, DbWork, Final
<1>2. ASSUME NEW take \in {"rlock", "lock"}, NEW release, HeldAt(e, i, take, release)
      PROVE  HeldAt(e, 1, take, release)
  <2>1. PICK j \in i..Len(e) : e[j] = release /\ \A k \in i..j-1 : e[k] # take
    BY <1>2 DEF HeldAt
  <2>2. Len(e) \in Nat /\ j \in 1..Len(e)
    BY LenProperties
  <2>3. ASSUME NEW k \in 1..j-1 PROVE e[k] # take
    BY <2>2 DEF Final
  <2> QED BY <2>1, <2>2, <2>3 DEF HeldAt
<1> QED BY <1>1, <1>2 DEF Sound, Guarded, ReadHeld, WriteHeld

-----------------------------------------------------------------------------
(* The scripts                                                             *)

\* One sequence behind another.
LEMMA Concatenated ==
  \A s, t \in Seq(Instruction) :
    /\ s \o t \in Seq(Instruction)
    /\ Len(s \o t) = Len(s) + Len(t)
    /\ \A i \in 1..Len(s) + Len(t) : (s \o t)[i] = IF i <= Len(s) THEN s[i] ELSE t[i - Len(s)]
BY ConcatProperties

\* Two sequences in one.
LEMMA Whole ==
  \A s, t, u \in Seq(Instruction) :
    /\ Len(u) = Len(s) + Len(t)
    /\ \A i \in 1..Len(u) : u[i] = IF i <= Len(s) THEN s[i] ELSE t[i - Len(s)]
    => s \o t = u
BY Concatenated, SeqEqual

\* The shape of a handler that holds node.db from its first instruction on.
LEMMA Bracketed ==
  ASSUME NEW take \in {"rlock", "lock"}, NEW release \in {"runlock", "unlock"},
         NEW Inner \in SUBSET Instruction, NEW b \in Seq(Inner)
  PROVE  LET s == (<<take>> \o b) \o <<release, "respond">>
             n == Len(b)
         IN /\ s \in Seq(Instruction) /\ n \in Nat /\ Len(s) = n + 3
            /\ s[1] = take /\ s[n + 2] = release /\ s[n + 3] = "respond"
            /\ \A i \in 2..n + 1 : s[i] \in Inner
<1>1. ASSUME NEW a \in Seq(Instruction), Len(a) = 1, a[1] = take,
             NEW z \in Seq(Instruction), Len(z) = 2, z[1] = release, z[2] = "respond",
             NEW ab, ab = a \o b, NEW s, s = ab \o z
      PROVE  /\ s \in Seq(Instruction) /\ Len(b) \in Nat /\ Len(s) = Len(b) + 3
             /\ s[1] = take /\ s[Len(b) + 2] = release /\ s[Len(b) + 3] = "respond"
             /\ \A i \in 2..Len(b) + 1 : s[i] \in Inner
  <2>1. Len(b) \in Nat /\ b \in Seq(Instruction) /\ \A i \in 1..Len(b) : b[i] \in Inner
    BY LenProperties
  <2>2. /\ ab \in Seq(Instruction) /\ Len(ab) = Len(a) + Len(b)
        /\ \A i \in 1..Len(a) + Len(b) : ab[i] = IF i <= Len(a) THEN a[i] ELSE b[i - Len(a)]
    BY <1>1, <2>1, Concatenated
  <2>3. /\ s \in Seq(Instruction) /\ Len(s) = Len(ab) + Len(z)
        /\ \A i \in 1..Len(ab) + Len(z) : s[i] = IF i <= Len(ab) THEN ab[i] ELSE z[i - Len(ab)]
    BY <1>1, <2>2, Concatenated
  <2>4. Len(ab) = Len(b) + 1 /\ Len(s) = Len(b) + 3
    BY <1>1, <2>1, <2>2, <2>3
  <2>5. s[1] = take /\ s[Len(b) + 2] = release /\ s[Len(b) + 3] = "respond"
    BY <1>1, <2>1, <2>2, <2>3, <2>4
  <2>6. ASSUME NEW i \in 2..Len(b) + 1 PROVE s[i] \in Inner
    <3>1. s[i] = ab[i] /\ ab[i] = b[i - 1] /\ i - 1 \in 1..Len(b)
      BY <1>1, <2>1, <2>2, <2>3, <2>4
    <3> QED BY <2>1, <3>1
  <2> QED BY <2>1, <2>3, <2>4, <2>5, <2>6
<1>2. <<take>> \in Seq(Instruction) /\ <<release, "respond">> \in Seq(Instruction)
  BY DEF Instruction
<1> QED BY <1>1, <1>2

\* apiListPeers, apiGetReservedSubnets, apiGetPeerStat, apiGetPeersStat: any number of
\* queries under RLock.
LEMMA ReaderFits ==
  ASSUME NEW b \in Seq({"query"})
  PROVE  Fit(Reader(b).body \o Reader(b).done, Reader(b).failed)
<1> DEFINE s == (<<"rlock">> \o b) \o <<"runlock", "respond">>
           n == Len(b)
           e == <<"runlock", "respond">>
<1>1. /\ s \in Seq(Instruction) /\ n \in Nat /\ Len(s) = n + 3
      /\ s[1] = "rlock" /\ s[n + 2] = "runlock" /\ s[n + 3] = "respond"
      /\ \A i \in 2..n + 1 : s[i] \in {"query"}
  BY Bracketed DEF Instruction
<1>2. Reader(b).body \o Reader(b).done = s /\ Reader(b).failed = e
  BY DEF Reader
<1> HIDE DEF s, n
<1>3. e \in Seq(Instruction) /\ Sound(e) /\ Final(e) /\ ReadHeld(e) /\ ~WriteHeld(e)
      /\ ~CacheHeld(e)
  BY DEF Sound, Paired, Guarded, Final, HeldAt, ReadHeld, WriteHeld, CacheHeld, Instruction,
         Fallible, DbWork, Reads, Writes
<1> HIDE DEF e
<1>4. \A i \in 2..n + 2 : HeldAt(s, i, "rlock", "runlock")
  BY <1>1 DEF HeldAt
<1>5. ~HeldAt(s, 1, "rlock", "runlock") /\ ~HeldAt(s, n + 3, "rlock", "runlock")
      /\ ~HeldAt(s, n + 4, "rlock", "runlock")
  BY <1>1 DEF HeldAt
<1>6. \A i \in Nat \ {0} : ~HeldAt(s, i, "lock", "unlock") /\ ~HeldAt(s, i, "cacheLock", "cacheUnlock")
  BY <1>1 DEF HeldAt
<1>7. Sound(s)
  <2>1. Paired(s, "rlock", "runlock") /\ Paired(s, "lock", "unlock")
        /\ Paired(s, "cacheLock", "cacheUnlock")
    BY <1>1, <1>4, <1>5, <1>6 DEF Paired, Reads, Writes
  <2>2. Guarded(s)
    BY <1>1, <1>4 DEF Guarded, DbWork, Reads, Writes
  <2> QED BY <2>1, <2>2 DEF Sound
<1>8. Recovers(s, e)
  BY <1>1, <1>3, <1>4, <1>6 DEF Recovers, Fallible
<1> QED BY <1>1, <1>2, <1>3, <1>5, <1>6, <1>7, <1>8 DEF Fit, ReadHeld, WriteHeld, CacheHeld

\* apiGetPeer, apiDeletePeer, apiUpdatePeer, apiReserveSubnet: any work under Lock.
LEMMA WriterFits ==
  ASSUME NEW b \in Seq(Reads \cup Writes \cup {"wg"}),
         NEW e \in {<<"unlock", "respond">>, <<"put", "unlock", "respond">>}
  PROVE  Fit(Writer(b).body \o Writer(b).done, e)
<1> DEFINE s == (<<"lock">> \o b) \o <<"unlock", "respond">>
           n == Len(b)
<1>1. /\ s \in Seq(Instruction) /\ n \in Nat /\ Len(s) = n + 3
      /\ s[1] = "lock" /\ s[n + 2] = "unlock" /\ s[n + 3] = "respond"
      /\ \A i \in 2..n + 1 : s[i] \in Reads \cup Writes \cup {"wg"}
  BY Bracketed DEF Instruction, Reads, Writes
<1>2. Writer(b).body \o Writer(b).done = s
  BY DEF Writer
<1> HIDE DEF s, n
<1>3. e \in Seq(Instruction) /\ Sound(e) /\ Final(e) /\ ~ReadHeld(e) /\ WriteHeld(e)
      /\ ~CacheHeld(e)
  <2>1. CASE e = <<"unlock", "respond">>
    BY <2>1 DEF Sound, Paired, Guarded, Final, HeldAt, ReadHeld, WriteHeld, CacheHeld,
                  Instruction, Fallible, DbWork, Reads, Writes
  <2>2. CASE e = <<"put", "unlock", "respond">>
    BY <2>2 DEF Sound, Paired, Guarded, Final, HeldAt, ReadHeld, WriteHeld, CacheHeld,
                  Instruction, Fallible, DbWork, Reads, Writes
  <2> QED BY <2>1, <2>2
<1>4. \A i \in 2..n + 2 : HeldAt(s, i, "lock", "unlock")
  BY <1>1 DEF HeldAt, Reads, Writes
<1>5. ~HeldAt(s, 1, "lock", "unlock") /\ ~HeldAt(s, n + 3, "lock", "unlock")
      /\ ~HeldAt(s, n + 4, "lock", "unlock")
  BY <1>1 DEF HeldAt
<1>6. \A i \in Nat \ {0} :
        ~HeldAt(s, i, "rlock", "runlock") /\ ~HeldAt(s, i, "cacheLock", "cacheUnlock")
  BY <1>1, SMTT(30) DEF HeldAt, Reads, Writes
<1>7. Sound(s)
  <2>1. Paired(s, "rlock", "runlock") /\ Paired(s, "lock", "unlock")
        /\ Paired(s, "cacheLock", "cacheUnlock")
    <3>1. \A i \in 1..Len(s) :
            /\ s[i] \notin {"rlock", "runlock", "cacheLock", "cacheUnlock"}
            /\ s[i] = "lock" => i = 1
            /\ s[i] = "unlock" => i = n + 2
      BY <1>1, SMTT(30) DEF Reads, Writes
    <3>2. HeldAt(s, 1 + 1, "lock", "unlock") /\ ~HeldAt(s, (n + 2) + 1, "lock", "unlock")
      BY <1>1, <1>4, <1>5
    <3> QED BY <3>1, <3>2 DEF Paired
  <2>2. Guarded(s)
    BY <1>1, <1>4 DEF Guarded, DbWork, Reads, Writes
  <2> QED BY <2>1, <2>2 DEF Sound
<1>8. Recovers(s, e)
  BY <1>1, <1>3, <1>4, <1>6 DEF Recovers, Fallible
<1> QED BY <1>1, <1>2, <1>3, <1>5, <1>6, <1>7, <1>8 DEF Fit, ReadHeld, WriteHeld, CacheHeld

\* The scripts of the other calls, in one sequence.
LEMMA WholeScripts ==
  /\ PeerSubnets.body \o PeerSubnets.done = <<"rlock", "query", "query", "respond", "runlock">>
  /\ AddPeer.body \o AddPeer.done = 
       <<"lock", "stage", "tree", "stage", "wg", "cacheLock", "cacheUnlock", "commit", "unlock", "respond">>
  /\ DeleteSubnet.body \o DeleteSubnet.done = 
       <<"lock", "query", "tree", "exec", "respond", "unlock">>
  /\ Collect.body \o Collect.done = 
       <<"wg", "cacheLock", "lock", "put", "put", "unlock", "cacheUnlock">>
  /\ Rollup.body \o Rollup.done = <<"lock", "query", "stage", "stage", "commit", "unlock">>
<1>1. PeerSubnets.body \o PeerSubnets.done =
        <<"rlock", "query", "query", "respond", "runlock">>
  <2> DEFINE s == <<"rlock", "query", "query">>
             t == <<"respond", "runlock">>
             u == <<"rlock", "query", "query", "respond", "runlock">>
  <2>1. s \in Seq(Instruction) /\ t \in Seq(Instruction) /\ u \in Seq(Instruction)
    BY DEF Instruction
  <2>2. Len(u) = Len(s) + Len(t)
        /\ \A i \in 1..Len(u) : u[i] = IF i <= Len(s) THEN s[i] ELSE t[i - Len(s)]
    OBVIOUS
  <2>3. PeerSubnets.body = s /\ PeerSubnets.done = t
    BY DEF PeerSubnets
  <2> HIDE DEF s, t, u
  <2>4. s \o t = u
    BY <2>1, <2>2, Whole
  <2> QED BY <2>3, <2>4 DEF u
<1>2. AddPeer.body \o AddPeer.done =
        <<"lock", "stage", "tree", "stage", "wg", "cacheLock", "cacheUnlock", "commit", "unlock", "respond">>
  <2> DEFINE s == <<"lock", "stage", "tree", "stage", "wg", "cacheLock", "cacheUnlock", "commit">>
             t == <<"unlock", "respond">>
             u == <<"lock", "stage", "tree", "stage", "wg", "cacheLock", "cacheUnlock", "commit", "unlock", "respond">>
  <2>1. s \in Seq(Instruction) /\ t \in Seq(Instruction) /\ u \in Seq(Instruction)
    BY DEF Instruction
  <2>2. Len(u) = Len(s) + Len(t)
        /\ \A i \in 1..Len(u) : u[i] = IF i <= Len(s) THEN s[i] ELSE t[i - Len(s)]
    OBVIOUS
  <2>3. AddPeer.body = s /\ AddPeer.done = t
    BY DEF AddPeer
  <2> HIDE DEF s, t, u
  <2>4. s \o t = u
    BY <2>1, <2>2, Whole
  <2> QED BY <2>3, <2>4 DEF u
<1>3. DeleteSubnet.body \o DeleteSubnet.done =
        <<"lock", "query", "tree", "exec", "respond", "unlock">>
  <2> DEFINE s == <<"lock", "query", "tree", "exec">>
             t == <<"respond", "unlock">>
             u == <<"lock", "query", "tree", "exec", "respond", "unlock">>
  <2>1. s \in Seq(Instruction) /\ t \in Seq(Instruction) /\ u \in Seq(Instruction)
    BY DEF Instruction
  <2>2. Len(u) = Len(s) + Len(t)
        /\ \A i \in 1..Len(u) : u[i] = IF i <= Len(s) THEN s[i] ELSE t[i - Len(s)]
    OBVIOUS
  <2>3. DeleteSubnet.body = s /\ DeleteSubnet.done = t
    BY DEF DeleteSubnet
  <2> HIDE DEF s, t, u
  <2>4. s \o t = u
    BY <2>1, <2>2, Whole
  <2> QED BY <2>3, <2>4 DEF u
<1>4. Collect.body \o Collect.done =
        <<"wg", "cacheLock", "lock", "put", "put", "unlock", "cacheUnlock">>
  <2> DEFINE s == <<"wg", "cacheLock", "lock", "put", "put">>
             t == <<"unlock", "cacheUnlock">>
             u == <<"wg", "cacheLock", "lock", "put", "put", "unlock", "cacheUnlock">>
  <2>1. s \in Seq(Instruction) /\ t \in Seq(Instruction) /\ u \in Seq(Instruction)
    BY DEF Instruction
  <2>2. Len(u) = Len(s) + Len(t)
        /\ \A i \in 1..Len(u) : u[i] = IF i <= Len(s) THEN s[i] ELSE t[i - Len(s)]
    OBVIOUS
  <2>3. Collect.body = s /\ Collect.done = t
    BY DEF Collect
  <2> HIDE DEF s, t, u
  <2>4. s \o t = u
    BY <2>1, <2>2, Whole
  <2> QED BY <2>3, <2>4 DEF u
<1>5. Rollup.body \o Rollup.done =
        <<"lock", "query", "stage", "stage", "commit", "unlock">>
  <2> DEFINE s == <<"lock", "query", "stage", "stage", "commit">>
             t == <<"unlock">>
             u == <<"lock", "query", "stage", "stage", "commit", "unlock">>
  <2>1. s \in Seq(Instruction) /\ t \in Seq(Instruction) /\ u \in Seq(Instruction)
    BY DEF Instruction
  <2>2. Len(u) = Len(s) + Len(t)
        /\ \A i \in 1..Len(u) : u[i] = IF i <= Len(s) THEN s[i] ELSE t[i - Len(s)]
    OBVIOUS
  <2>3. Rollup.body = s /\ Rollup.done = t
    BY DEF Rollup
  <2> HIDE DEF s, t, u
  <2>4. s \o t = u
    BY <2>1, <2>2, Whole
  <2> QED BY <2>3, <2>4 DEF u
<1> QED BY <1>1, <1>2, <1>3, <1>4, <1>5

\* GET /peers/{pubkey}/subnets.
LEMMA PeerSubnetsFits == Fit(PeerSubnets.body \o PeerSubnets.done, PeerSubnets.failed)
<1>1. Fit(<<"rlock", "query", "query", "respond", "runlock">>, <<"respond", "runlock">>)
  BY DEF Fit, Sound, Paired, Guarded, Recovers, Final, HeldAt, ReadHeld, WriteHeld, CacheHeld,
         Instruction, Fallible, DbWork, Reads, Writes
<1> QED BY <1>1, WholeScripts DEF PeerSubnets

\* POST /peers, whose rollback takes the cache's mutex.
LEMMA AddPeerFits == Fit(AddPeer.body \o AddPeer.done, AddPeer.failed)
<1>1. Fit(<<"lock", "stage", "tree", "stage", "wg", "cacheLock", "cacheUnlock", "commit", "unlock", "respond">>,
          <<"put", "cacheLock", "cacheUnlock", "unlock", "respond">>)
  BY DEF Fit, Sound, Paired, Guarded, Recovers, Final, HeldAt, ReadHeld, WriteHeld, CacheHeld,
         Instruction, Fallible, DbWork, Reads, Writes
<1> QED BY <1>1, WholeScripts DEF AddPeer

\* DELETE /subnets/{id}, which goes on after a failure.
LEMMA DeleteSubnetFits == Fit(DeleteSubnet.body \o DeleteSubnet.done, DeleteSubnet.failed)
<1>1. Fit(<<"lock", "query", "tree", "exec", "respond", "unlock">>, <<"respond", "unlock">>)
  BY DEF Fit, Sound, Paired, Guarded, Recovers, Final, HeldAt, ReadHeld, WriteHeld, CacheHeld,
         Instruction, Fallible, DbWork, Reads, Writes
<1> QED BY <1>1, WholeScripts DEF DeleteSubnet

\* The collector.
LEMMA CollectFits == Fit(Collect.body \o Collect.done, Collect.failed)
<1>1. Fit(<<"wg", "cacheLock", "lock", "put", "put", "unlock", "cacheUnlock">>, <<>>)
  BY DEF Fit, Sound, Paired, Guarded, Recovers, Final, HeldAt, ReadHeld, WriteHeld, CacheHeld,
         Instruction, Fallible, DbWork, Reads, Writes
<1> QED BY <1>1, WholeScripts DEF Collect

\* The rollup.
LEMMA RollupFits == Fit(Rollup.body \o Rollup.done, Rollup.failed)
<1>1. Fit(<<"lock", "query", "stage", "stage", "commit", "unlock">>, <<"unlock">>)
  BY DEF Fit, Sound, Paired, Guarded, Recovers, Final, HeldAt, ReadHeld, WriteHeld, CacheHeld,
         Instruction, Fallible, DbWork, Reads, Writes
<1> QED BY <1>1, WholeScripts DEF Rollup

\* A request that is refused before anything is locked.
LEMMA RefusalFits == Fit(<<"respond">>, <<>>)
BY DEF Fit, Sound, Paired, Guarded, Recovers, Final, HeldAt, ReadHeld, WriteHeld, CacheHeld,
       Instruction, Fallible, DbWork, Reads, Writes

\* Whatever a goroutine begins, it holds nothing before and gives everything back.
LEMMA ScriptsFit ==
  ASSUME NEW name \in Endpoint \cup Routine
  PROVE  Fit(Script(name).body \o Script(name).done, Script(name).failed)
<1>1. CASE name \in {"listPeers", "reservedSubnets", "peerStat", "peersStat"}
  <2>1. <<"query">> \in Seq({"query"}) /\ <<"query", "query", "query">> \in Seq({"query"})
    OBVIOUS
  <2>2. PICK b \in Seq({"query"}) : Script(name) = Reader(b)
    BY <1>1, <2>1 DEF Script, ListPeers, ReservedSubnets, PeerStat, PeersStat
  <2> QED BY <2>2, ReaderFits
<1>2. CASE name \in {"getPeer", "deletePeer", "updatePeer", "reserveSubnet"}
  <2> DEFINE Inner == Reads \cup Writes \cup {"wg"}
  <2>1. <<"query">> \in Seq(Inner) /\ <<"exec", "wg">> \in Seq(Inner)
        /\ <<"exec", "query", "wg", "wg">> \in Seq(Inner) /\ <<"tree", "exec">> \in Seq(Inner)
    BY DEF Reads, Writes
  <2>2. PICK b \in Seq(Inner) :
          /\ Script(name).body = Writer(b).body /\ Script(name).done = Writer(b).done
          /\ Script(name).failed \in {<<"unlock", "respond">>, <<"put", "unlock", "respond">>}
    <3> HIDE DEF Inner
    <3> QED BY <1>2, <2>1 DEF Script, GetPeer, DeletePeer, UpdatePeer, ReserveSubnet, Writer
  <2> QED BY <2>2, WriterFits
<1>3. CASE name \in {"peerSubnets", "addPeer", "deleteSubnet", "collector", "rollup"}
  BY <1>3, PeerSubnetsFits, AddPeerFits, DeleteSubnetFits, CollectFits, RollupFits DEF Script
<1> QED BY <1>1, <1>2, <1>3 DEF Endpoint, Validating, Routine

-----------------------------------------------------------------------------
(* The steps                                                               *)

\* What is left to read or write, and who may.
LEMMA WorkLeft ==
  ASSUME NEW s \in Seq(Instruction), s # <<>>, Sound(s)
  PROVE  /\ HasWork(Tail(s)) => HasWork(s) /\ Head(s) \notin {"runlock", "unlock"}
         /\ Head(s) \in DbWork => HasWork(s)
         /\ Head(s) \in Writes => WriteHeld(s)
<1>1. Len(s) \in Nat \ {0} /\ Head(s) = s[1] /\ 1 \in 1..Len(s) /\ Len(Tail(s)) = Len(s) - 1
      /\ \A i \in 1..Len(Tail(s)) : Tail(s)[i] = s[i + 1] /\ i + 1 \in 1..Len(s)
  BY EmptySeq, LenProperties, HeadTailProperties
<1>2. ASSUME HasWork(Tail(s)) PROVE HasWork(s) /\ Head(s) \notin {"runlock", "unlock"}
  <2>1. PICK i \in 1..Len(Tail(s)) : Tail(s)[i] \in DbWork
    BY <1>2 DEF HasWork
  <2>2. i + 1 \in 1..Len(s) /\ s[i + 1] \in DbWork
    BY <1>1, <2>1
  <2> QED BY <1>1, <2>2 DEF HasWork, Sound, Guarded
<1> QED BY <1>1, <1>2 DEF HasWork, Sound, Guarded, WriteHeld

Inv == DomainInv /\ ScriptInv /\ LockInv /\ BareInv /\ ViewInv

\* Nobody has a mutex at the start.
LEMMA InvInit == Init => Inv
<1> SUFFICES ASSUME Init PROVE Inv
  OBVIOUS
<1>1. DomainInv /\ \A p \in Proc : todo[p] = <<>> /\ exit[p] = <<>>
  BY DEF Init, DomainInv
<1>2. ScriptInv
  BY <1>1, NothingLeft DEF ScriptInv
<1>3. LockInv
  <2>1. Nobody \notin Proc
    BY WorkerAssumption DEF Proc, Routine, Nobody
  <2> QED BY <1>1, <2>1, NothingLeft DEF Init, LockInv
<1>4. ViewInv
  BY <1>1 DEF Init, ViewInv
<1>5. BareInv
  BY DEF Init, BareInv
<1> QED BY <1>1, <1>2, <1>3, <1>4, <1>5 DEF Inv

\* p goes on with s.
LEMMA Continued ==
  ASSUME Inv, NEW p \in Proc, NEW s \in Seq(Instruction), NEW views, DOMAIN views = Proc,
         Sound(s), Recovers(s, exit[p]), Continue(p, s, views)
  PROVE  /\ DomainInv' /\ ScriptInv'
         /\ todo'[p] = s /\ \A q \in Proc \ {p} : todo'[q] = todo[q]
         /\ view' = [q \in Proc |-> view'[q]]
         /\ view'[p] = IF s = <<>> THEN "none" ELSE views[p]
         /\ \A q \in Proc \ {p} : view'[q] = views[q]
<1>1. /\ DomainInv' /\ todo'[p] = s /\ \A q \in Proc \ {p} : todo'[q] = todo[q]
      /\ exit'[p] = IF s = <<>> THEN <<>> ELSE exit[p]
      /\ \A q \in Proc \ {p} : exit'[q] = exit[q]
  BY DEF Continue, Inv, DomainInv
<1>2. /\ view' = [q \in Proc |-> view'[q]]
      /\ view'[p] = IF s = <<>> THEN "none" ELSE views[p]
      /\ \A q \in Proc \ {p} : view'[q] = views[q]
  BY DEF Continue
<1>3. ASSUME NEW q \in Proc
      PROVE  /\ todo'[q] \in Seq(Instruction) /\ exit'[q] \in Seq(Instruction)
             /\ Sound(todo'[q]) /\ Sound(exit'[q])
             /\ Recovers(todo'[q], exit'[q]) /\ Final(exit'[q])
  <2>1. CASE q # p
    BY <1>1, <2>1 DEF Inv, ScriptInv
  <2>2. CASE q = p /\ s = <<>>
    BY <1>1, <2>2, NothingLeft
  <2>3. CASE q = p /\ s # <<>>
    BY <1>1, <2>3 DEF Inv, ScriptInv
  <2> QED BY <2>1, <2>2, <2>3
<1> QED BY <1>1, <1>2, <1>3 DEF ScriptInv

\* p executes its next instruction.
LEMMA WentOn ==
  ASSUME Inv, NEW p \in Proc, NEW i, At(p, i), NEW views, DOMAIN views = Proc,
         Continue(p, Tail(todo[p]), views)
  PROVE  /\ DomainInv' /\ ScriptInv'
         /\ \A q \in Proc \ {p} : todo'[q] = todo[q] /\ view'[q] = views[q]
         /\ view' = [q \in Proc |-> view'[q]]
         /\ view'[p] \in {"none", views[p]} /\ (todo'[p] = <<>> => view'[p] = "none")
         /\ ReadHeld(todo'[p]) <=> i = "rlock" \/ (i # "runlock" /\ ReadHeld(todo[p]))
         /\ WriteHeld(todo'[p]) <=> i = "lock" \/ (i # "unlock" /\ WriteHeld(todo[p]))
         /\ CacheHeld(todo'[p]) <=> i = "cacheLock" \/ (i # "cacheUnlock" /\ CacheHeld(todo[p]))
         /\ HasWork(todo'[p]) => HasWork(todo[p]) /\ i \notin {"runlock", "unlock"}
         /\ i \in DbWork => HasWork(todo[p])
         /\ i \in Writes => WriteHeld(todo[p])
         /\ Final(todo[p]) => Final(todo'[p])
<1>1. todo[p] \in Seq(Instruction) /\ todo[p] # <<>> /\ Sound(todo[p]) /\ Head(todo[p]) = i
      /\ Recovers(todo[p], exit[p])
  BY DEF Inv, ScriptInv, At
<1>2. Tail(todo[p]) \in Seq(Instruction) /\ Sound(Tail(todo[p]))
      /\ Recovers(Tail(todo[p]), exit[p])
  BY <1>1, TailSound, TailRecovers
<1>3. PICK s \in Seq(Instruction) : s = Tail(todo[p])
  BY <1>2
<1>4. Sound(s) /\ Recovers(s, exit[p]) /\ Continue(p, s, views)
  BY <1>2, <1>3 DEF Continue
<1>5. /\ DomainInv' /\ ScriptInv'
      /\ todo'[p] = s /\ \A q \in Proc \ {p} : todo'[q] = todo[q]
      /\ view' = [q \in Proc |-> view'[q]]
      /\ view'[p] = IF s = <<>> THEN "none" ELSE views[p]
      /\ \A q \in Proc \ {p} : view'[q] = views[q]
  BY <1>4, Continued
<1> QED BY <1>1, <1>3, <1>5, Advanced, WorkLeft, TailFinal

\* A step that reads and writes nothing and takes node.db only as its work.
LEMMA ViewsKept ==
  ASSUME Inv, bare' = bare, NEW p \in Proc,
         view' = [q \in Proc |-> view'[q]], view'[p] \in {"none", view[p]},
         todo'[p] = <<>> => view'[p] = "none",
         \A q \in Proc \ {p} : todo'[q] = todo[q] /\ view'[q] = view[q],
         HasWork(todo'[p]) => HasWork(todo[p]),
         HasWork(todo'[p]) /\ (ReadHeld(todo[p]) \/ WriteHeld(todo[p]))
           => ReadHeld(todo'[p]) \/ WriteHeld(todo'[p]),
         ReadHeld(todo'[p]) \/ WriteHeld(todo'[p])
           => ReadHeld(todo[p]) \/ WriteHeld(todo[p]) \/ HasWork(todo[p])
  PROVE  ViewInv'
<1>1. view' \in [Proc -> {"none", "fresh", "stale"}]
  <2>1. \A q \in Proc : view'[q] \in {"none", "fresh", "stale"}
    BY DEF Inv, ViewInv
  <2> QED BY <2>1
<1>2. ASSUME NEW q \in Proc, bare' = {}
      PROVE  /\ view'[q] # "none" /\ HasWork(todo'[q])
                  => ReadHeld(todo'[q]) \/ WriteHeld(todo'[q])
             /\ ReadHeld(todo'[q]) \/ WriteHeld(todo'[q]) => view'[q] # "stale"
  <2>1. CASE q = p
    BY <1>2, <2>1 DEF Inv, ViewInv
  <2>2. CASE q # p
    BY <1>2, <2>2 DEF Inv, ViewInv
  <2> QED BY <2>1, <2>2
<1>3. \A q \in Proc : todo'[q] = <<>> => view'[q] = "none"
  BY DEF Inv, ViewInv
<1> QED BY <1>1, <1>2, <1>3 DEF ViewInv

\* Who holds node.db for writing is alone with it.
LEMMA Holders ==
  ASSUME Inv, bare = {}, NEW p \in Proc
  PROVE  /\ reads[p] \in 0..1 /\ (reads[p] = 0 <=> ~ReadHeld(todo[p]))
         /\ WriteHeld(todo[p]) =>
              \A q \in Proc : ~ReadHeld(todo[q]) /\ (q # p => ~WriteHeld(todo[q]))
BY DEF Inv, LockInv

\* A call begins.
LEMMA BeginKeeps ==
  ASSUME Inv, NEW p \in Proc, NEW s, NEW e, Fit(s, e), Begin(p, s, e)
  PROVE  Inv'
<1>1. /\ todo[p] = <<>> /\ todo'[p] = s /\ exit'[p] = e
      /\ \A q \in Proc \ {p} : todo'[q] = todo[q] /\ exit'[q] = exit[q]
      /\ DomainInv' /\ UNCHANGED <<reads, writer, writing, cacheLock, view, bare, broken>>
  BY DEF Begin, Inv, DomainInv, lockVars
<1>2. ScriptInv'
  BY <1>1 DEF Inv, ScriptInv, Fit
<1>3. LockInv'
  <2>1. \A q \in Proc : /\ ReadHeld(todo'[q]) <=> ReadHeld(todo[q])
                        /\ WriteHeld(todo'[q]) <=> WriteHeld(todo[q])
                        /\ CacheHeld(todo'[q]) <=> CacheHeld(todo[q])
                        /\ At(q, "lock") => At(q, "lock")'
    BY <1>1, NothingLeft DEF Fit, At
  <2> QED BY <1>1, <2>1 DEF Inv, LockInv
<1>4. ViewInv'
  BY <1>1 DEF Inv, ViewInv
<1>5. BareInv'
  <2>1. p \notin bare
    BY <1>1, NothingLeft DEF Inv, BareInv
  <2>2. bare \subseteq Proc
    BY DEF Inv, BareInv, Proc
  <2> QED BY <1>1, <2>1, <2>2 DEF Inv, BareInv
<1> QED BY <1>1, <1>2, <1>3, <1>4, <1>5 DEF Inv

\* Advance: the views of all stay as they are.
LEMMA AdvanceGoesOn ==
  ASSUME Inv, NEW p \in Proc, NEW i, At(p, i), Advance(p)
  PROVE  /\ DomainInv' /\ ScriptInv'
         /\ \A q \in Proc \ {p} : todo'[q] = todo[q] /\ (At(q, "lock") <=> At(q, "lock")')
         /\ ReadHeld(todo'[p]) <=> i = "rlock" \/ (i # "runlock" /\ ReadHeld(todo[p]))
         /\ WriteHeld(todo'[p]) <=> i = "lock" \/ (i # "unlock" /\ WriteHeld(todo[p]))
         /\ CacheHeld(todo'[p]) <=> i = "cacheLock" \/ (i # "cacheUnlock" /\ CacheHeld(todo[p]))
         /\ ViewInv'
         /\ p \notin bare => \A q \in bare : WriteHeld(todo'[q]) /\ Final(todo'[q])
         /\ i # "unlock" => \A q \in bare : WriteHeld(todo'[q]) /\ Final(todo'[q])
         /\ UNCHANGED <<bare, broken>>
<1>1. PICK views : views = view
  OBVIOUS
<1>2. DOMAIN views = Proc /\ Continue(p, Tail(todo[p]), views)
  BY <1>1 DEF Advance, Continue, Inv, ViewInv
<1>3. /\ DomainInv' /\ ScriptInv'
      /\ \A q \in Proc \ {p} : todo'[q] = todo[q] /\ view'[q] = views[q]
      /\ view' = [q \in Proc |-> view'[q]]
      /\ view'[p] \in {"none", views[p]} /\ (todo'[p] = <<>> => view'[p] = "none")
      /\ ReadHeld(todo'[p]) <=> i = "rlock" \/ (i # "runlock" /\ ReadHeld(todo[p]))
      /\ WriteHeld(todo'[p]) <=> i = "lock" \/ (i # "unlock" /\ WriteHeld(todo[p]))
      /\ CacheHeld(todo'[p]) <=> i = "cacheLock" \/ (i # "cacheUnlock" /\ CacheHeld(todo[p]))
      /\ HasWork(todo'[p]) => HasWork(todo[p]) /\ i \notin {"runlock", "unlock"}
      /\ i \in DbWork => HasWork(todo[p])
      /\ Final(todo[p]) => Final(todo'[p])
  BY <1>2, WentOn
<1>4. UNCHANGED <<bare, broken>>
  BY DEF Advance, Continue
<1>5. ViewInv'
  BY <1>1, <1>3, <1>4, ViewsKept DEF DbWork
<1>6. /\ p \notin bare => \A q \in bare : WriteHeld(todo'[q]) /\ Final(todo'[q])
      /\ i # "unlock" => \A q \in bare : WriteHeld(todo'[q]) /\ Final(todo'[q])
  <2>1. \A q \in bare : q \in Proc /\ WriteHeld(todo[q]) /\ Final(todo[q])
    BY DEF Inv, BareInv, Proc
  <2> QED BY <1>3, <2>1
<1> QED BY <1>3, <1>4, <1>5, <1>6 DEF At

\* Who rolls back without node.db cannot be at an instruction that may fail or takes it.
LEMMA BareOnly ==
  ASSUME Inv, NEW p \in Proc, NEW i, At(p, i), p \in bare
  PROVE  i \notin Fallible \cup {"rlock", "lock"}
<1>1. todo[p] \in Seq(Instruction) /\ todo[p] # <<>> /\ Head(todo[p]) = i /\ Final(todo[p])
  BY DEF At, Inv, ScriptInv, BareInv
<1>2. todo[p][1] = i /\ 1 \in 1..Len(todo[p])
  BY <1>1, EmptySeq, LenProperties
<1> QED BY <1>1, <1>2 DEF Final

\* Taking and giving back, one instruction after the other.
LEMMA RLockKeeps == ASSUME Inv, NEW p \in Proc, RLock(p) PROVE Inv'
<1>1. At(p, "rlock") /\ Advance(p) /\ writer = Nobody /\ reads' = [reads EXCEPT ![p] = @ + 1]
      /\ UNCHANGED <<writer, writing, cacheLock>>
  BY DEF RLock
<1>2. ~ReadHeld(todo[p])
  <2>1. todo[p] \in Seq(Instruction) /\ todo[p] # <<>> /\ Head(todo[p]) = "rlock"
    BY <1>1 DEF At, Inv, ScriptInv
  <2> QED BY <2>1, HeadHeld DEF ReadHeld
<1>3. LockInv'
  BY <1>1, <1>2, AdvanceGoesOn DEF Inv, LockInv
<1>4. BareInv'
  BY <1>1, AdvanceGoesOn DEF Inv, BareInv
<1> QED BY <1>1, <1>3, <1>4, AdvanceGoesOn DEF Inv

\* The last reader's leaving lets a writer in.
LEMMA RUnlockKeeps == ASSUME Inv, NEW p \in Proc, RUnlock(p) PROVE Inv'
<1>1. At(p, "runlock") /\ Advance(p) /\ reads' = [reads EXCEPT ![p] = @ - 1]
      /\ UNCHANGED <<writer, writing, cacheLock>>
  BY DEF RUnlock
<1>2. ReadHeld(todo[p])
  <2>1. todo[p] \in Seq(Instruction) /\ todo[p] # <<>> /\ Head(todo[p]) = "runlock"
    BY <1>1 DEF At, Inv, ScriptInv
  <2> QED BY <2>1, HeadHeld DEF ReadHeld
<1>3. LockInv'
  BY <1>1, <1>2, AdvanceGoesOn DEF Inv, LockInv
<1>4. BareInv'
  BY <1>1, AdvanceGoesOn DEF Inv, BareInv
<1> QED BY <1>1, <1>3, <1>4, AdvanceGoesOn DEF Inv

\* A writer keeps new readers out.
LEMMA AnnounceKeeps == ASSUME Inv, NEW p \in Proc, Announce(p) PROVE Inv'
<1>1. At(p, "lock") /\ writer = Nobody /\ writer' = p
      /\ UNCHANGED <<todo, exit, reads, writing, cacheLock, view, bare, broken>>
  BY DEF Announce
<1>2. DomainInv' /\ ScriptInv' /\ ViewInv'
  BY <1>1 DEF Inv, DomainInv, ScriptInv, ViewInv
<1>3. BareInv'
  <2>1. p \notin bare
    BY <1>1, BareOnly
  <2> QED BY <1>1, <2>1 DEF Inv, BareInv
<1>4. LockInv'
  BY <1>1 DEF Inv, LockInv, At
<1> QED BY <1>2, <1>4, <1>3 DEF Inv

\* A writer goes in alone.
LEMMA LockKeeps == ASSUME Inv, NEW p \in Proc, Lock(p) PROVE Inv'
<1>1. At(p, "lock") /\ Advance(p) /\ writer = p /\ writing' = TRUE
      /\ (\A q \in Proc : reads[q] = 0) /\ UNCHANGED <<reads, writer, cacheLock>>
  BY DEF Lock
<1>2. p # Nobody /\ p \notin bare
  BY <1>1, WorkerAssumption DEF Proc, Routine, Nobody, Inv, BareInv
<1>3. LockInv'
  BY <1>1, <1>2, AdvanceGoesOn DEF Inv, LockInv
<1>4. BareInv'
  BY <1>1, AdvanceGoesOn DEF Inv, BareInv
<1> QED BY <1>1, <1>3, <1>4, AdvanceGoesOn DEF Inv

\* A writer leaves.
LEMMA UnlockKeeps == ASSUME Inv, NEW p \in Proc, Unlock(p) PROVE Inv'
<1>1. At(p, "unlock") /\ p \notin bare /\ Advance(p) /\ writer' = Nobody /\ writing' = FALSE
      /\ UNCHANGED <<reads, cacheLock>>
  BY DEF Unlock
<1>2. WriteHeld(todo[p])
  <2>1. todo[p] \in Seq(Instruction) /\ todo[p] # <<>> /\ Head(todo[p]) = "unlock"
    BY <1>1 DEF At, Inv, ScriptInv
  <2> QED BY <2>1, HeadHeld DEF WriteHeld
<1>3. Nobody \notin Proc
  BY WorkerAssumption DEF Proc, Routine, Nobody
<1>4. LockInv'
  <2>1. /\ \A q \in Proc \ {p} : todo'[q] = todo[q] /\ (At(q, "lock") <=> At(q, "lock")')
        /\ ReadHeld(todo'[p]) <=> ReadHeld(todo[p])
        /\ ~WriteHeld(todo'[p])
        /\ CacheHeld(todo'[p]) <=> CacheHeld(todo[p])
        /\ bare' = bare
    BY <1>1, AdvanceGoesOn
  <2>2. /\ writer = p /\ writing
        /\ \A q \in Proc \ {p} : q \notin bare => ~WriteHeld(todo[q])
    BY <1>1, <1>2 DEF Inv, LockInv
  <2> QED BY <1>1, <1>3, <2>1, <2>2 DEF Inv, LockInv
<1>5. BareInv'
  BY <1>1, <1>3, AdvanceGoesOn DEF Inv, BareInv, Proc
<1> QED BY <1>1, <1>4, <1>5, AdvanceGoesOn DEF Inv

\* The process ends.
LEMMA UnlockFreeKeeps == ASSUME Inv, NEW p \in Proc, UnlockFree(p) PROVE Inv'
<1>1. /\ todo' = [q \in Proc |-> <<>>] /\ exit' = [q \in Proc |-> <<>>]
      /\ reads' = [q \in Proc |-> 0] /\ cacheLock' = Nobody
      /\ view' = [q \in Proc |-> "none"] /\ bare' = {}
      /\ writer' = Nobody /\ UNCHANGED <<writing, broken>>
  BY DEF UnlockFree
<1>2. DomainInv' /\ \A q \in Proc : todo'[q] = <<>> /\ exit'[q] = <<>>
  BY <1>1 DEF DomainInv
<1>3. ScriptInv'
  BY <1>2, NothingLeft DEF ScriptInv
<1>4. LockInv'
  <2>1. Nobody \notin Proc
    BY WorkerAssumption DEF Proc, Routine, Nobody
  <2>2. writing' \in BOOLEAN /\ ~writing'
    BY <1>1 DEF UnlockFree, Inv, LockInv
  <2> QED BY <1>1, <1>2, <2>1, <2>2, NothingLeft DEF LockInv
<1>5. ViewInv' /\ BareInv'
  BY <1>1 DEF ViewInv, BareInv, Inv
<1> QED BY <1>2, <1>3, <1>4, <1>5 DEF Inv

\* Or it goes on with a mutex that its holder has not.
LEMMA UnlockOthersKeeps == ASSUME Inv, NEW p \in Proc, UnlockOthers(p) PROVE Inv'
BY DEF UnlockOthers, lockVars, Inv, DomainInv, ScriptInv, LockInv, BareInv, ViewInv, At

\* The cache's mutex has one holder.
LEMMA LockCacheKeeps == ASSUME Inv, NEW p \in Proc, LockCache(p) PROVE Inv'
<1>1. At(p, "cacheLock") /\ Advance(p) /\ cacheLock = Nobody /\ cacheLock' = p
      /\ UNCHANGED <<reads, writer, writing>>
  BY DEF LockCache
<1>2. Nobody \notin Proc
  BY WorkerAssumption DEF Proc, Routine, Nobody
<1>3. LockInv'
  BY <1>1, <1>2, AdvanceGoesOn DEF Inv, LockInv, At
<1>4. BareInv'
  BY <1>1, AdvanceGoesOn DEF Inv, BareInv
<1> QED BY <1>1, <1>3, <1>4, AdvanceGoesOn DEF Inv

\* Which gives it back.
LEMMA UnlockCacheKeeps == ASSUME Inv, NEW p \in Proc, UnlockCache(p) PROVE Inv'
<1>1. At(p, "cacheUnlock") /\ Advance(p) /\ cacheLock' = Nobody
      /\ UNCHANGED <<reads, writer, writing>>
  BY DEF UnlockCache
<1>2. CacheHeld(todo[p])
  <2>1. todo[p] \in Seq(Instruction) /\ todo[p] # <<>> /\ Head(todo[p]) = "cacheUnlock"
    BY <1>1 DEF At, Inv, ScriptInv
  <2> QED BY <2>1, HeadHeld DEF CacheHeld
<1>3. Nobody \notin Proc
  BY WorkerAssumption DEF Proc, Routine, Nobody
<1>4. LockInv'
  BY <1>1, <1>2, <1>3, AdvanceGoesOn DEF Inv, LockInv, At
<1>5. BareInv'
  BY <1>1, AdvanceGoesOn DEF Inv, BareInv
<1> QED BY <1>1, <1>4, <1>5, AdvanceGoesOn DEF Inv

\* An answer touches no mutex.
LEMMA RespondKeeps == ASSUME Inv, NEW p \in Proc, Respond(p) PROVE Inv'
<1>1. At(p, "respond") /\ Advance(p) /\ UNCHANGED <<reads, writer, writing, cacheLock>>
  BY DEF Respond, lockVars
<1>2. LockInv'
  BY <1>1, AdvanceGoesOn DEF Inv, LockInv, At
<1>3. BareInv'
  BY <1>1, AdvanceGoesOn DEF Inv, BareInv
<1> QED BY <1>1, <1>2, <1>3, AdvanceGoesOn DEF Inv

\* A read starts p's view; a write can only overtake those who have nothing to do,
\* since nobody else holds node.db.
LEMMA WorkKeeps == ASSUME Inv, NEW p \in Proc, Work(p) PROVE Inv'
<1> DEFINE Views(i) == [q \in Proc |->
                          CASE q = p /\ i \in Reads /\ view[p] = "none" -> "fresh"
                            [] q # p /\ i \in Writes /\ view[q] = "fresh" -> "stale"
                            [] OTHER -> view[q]]
<1>1. PICK i \in Reads \cup Writes \cup {"wg"} :
        At(p, i) /\ Continue(p, Tail(todo[p]), Views(i))
  BY DEF Work
<1>2. UNCHANGED <<reads, writer, writing, cacheLock, bare, broken>>
  BY DEF Work, lockVars, Continue
<1>3. PICK views : views = Views(i)
  OBVIOUS
<1>4. DOMAIN views = Proc /\ Continue(p, Tail(todo[p]), views)
  BY <1>1, <1>3 DEF Continue
<1>5. /\ DomainInv' /\ ScriptInv'
      /\ \A q \in Proc \ {p} : todo'[q] = todo[q] /\ view'[q] = views[q]
      /\ view' = [q \in Proc |-> view'[q]]
      /\ view'[p] \in {"none", views[p]} /\ (todo'[p] = <<>> => view'[p] = "none")
      /\ ReadHeld(todo'[p]) <=> i = "rlock" \/ (i # "runlock" /\ ReadHeld(todo[p]))
      /\ WriteHeld(todo'[p]) <=> i = "lock" \/ (i # "unlock" /\ WriteHeld(todo[p]))
      /\ CacheHeld(todo'[p]) <=> i = "cacheLock" \/ (i # "cacheUnlock" /\ CacheHeld(todo[p]))
      /\ HasWork(todo'[p]) => HasWork(todo[p]) /\ i \notin {"runlock", "unlock"}
      /\ i \in DbWork => HasWork(todo[p])
      /\ i \in Writes => WriteHeld(todo[p])
      /\ Final(todo[p]) => Final(todo'[p])
  BY <1>1, <1>4, WentOn
<1>6. i \notin {"rlock", "runlock", "lock", "unlock", "cacheLock", "cacheUnlock"}
  BY DEF Reads, Writes
<1>7. LockInv'
  BY <1>1, <1>2, <1>5, <1>6 DEF Inv, LockInv, At
<1>8. ViewInv'
  <2>1. ASSUME NEW q \in Proc
        PROVE  /\ view'[q] \in {"none", "fresh", "stale"}
               /\ todo'[q] = <<>> => view'[q] = "none"
               /\ bare = {} /\ view'[q] # "none" /\ HasWork(todo'[q])
                    => ReadHeld(todo'[q]) \/ WriteHeld(todo'[q])
               /\ bare = {} /\ (ReadHeld(todo'[q]) \/ WriteHeld(todo'[q]))
                    => view'[q] # "stale"
    <3>1. CASE q = p
      <4>1. views[p] = IF i \in Reads /\ view[p] = "none" THEN "fresh" ELSE view[p]
        BY <1>3
      <4>2. i \in Reads => ReadHeld(todo[p]) \/ WriteHeld(todo[p])
        <5>1. todo[p] \in Seq(Instruction) /\ todo[p] # <<>> /\ Head(todo[p]) = i
              /\ Guarded(todo[p])
          BY <1>1 DEF At, Inv, ScriptInv, Sound
        <5>2. todo[p][1] = i /\ 1 \in 1..Len(todo[p])
          BY <5>1, EmptySeq, LenProperties
        <5> QED BY <5>1, <5>2 DEF Guarded, ReadHeld, WriteHeld
      <4> QED BY <1>5, <1>6, <3>1, <4>1, <4>2 DEF Inv, ViewInv
    <3>2. CASE q # p /\ i \in Writes
      <4>1. bare = {} => ~ReadHeld(todo[q]) /\ ~WriteHeld(todo[q])
        BY <1>5, <3>2, Holders
      <4>2. views[q] = IF view[q] = "fresh" THEN "stale" ELSE view[q]
        BY <1>3, <3>2
      <4> QED BY <1>5, <3>2, <4>1, <4>2 DEF Inv, ViewInv
    <3>3. CASE q # p /\ i \notin Writes
      <4>1. views[q] = view[q]
        BY <1>3, <3>3
      <4> QED BY <1>5, <3>3, <4>1 DEF Inv, ViewInv
    <3> QED BY <3>1, <3>2, <3>3
  <2>2. view' \in [Proc -> {"none", "fresh", "stale"}]
    BY <1>5, <2>1
  <2> QED BY <1>2, <2>1, <2>2 DEF ViewInv
<1>9. BareInv'
  <2>1. \A q \in bare : q \in Proc
    BY DEF Inv, BareInv, Proc
  <2> QED BY <1>2, <1>5, <1>6, <2>1 DEF Inv, BareInv
<1> QED BY <1>5, <1>7, <1>8, <1>9 DEF Inv

\* A failure leaves the mutexes to what follows it.
LEMMA FailKeeps == ASSUME Inv, NEW p \in Proc, Fail(p) PROVE Inv'
<1>1. PICK i \in Fallible : At(p, i) /\ Continue(p, exit[p], view)
      /\ UNCHANGED <<reads, writer, writing, cacheLock, bare, broken>>
  BY DEF Fail, lockVars, Continue
<1>2. /\ todo[p] \in Seq(Instruction) /\ todo[p] # <<>> /\ Head(todo[p]) = i
      /\ Recovers(todo[p], exit[p]) /\ i # "lock"
  BY <1>1 DEF At, Inv, ScriptInv, Fallible
<1>3. PICK e, views : e = exit[p] /\ views = view
  OBVIOUS
<1>4. /\ e \in Seq(Instruction) /\ Sound(e) /\ Final(e) /\ Recovers(e, exit[p])
      /\ DOMAIN views = Proc /\ Continue(p, e, views)
  BY <1>1, <1>3, FinalRecovers DEF Inv, ScriptInv, ViewInv, Continue
<1>5. /\ DomainInv' /\ ScriptInv'
      /\ todo'[p] = e /\ \A q \in Proc \ {p} : todo'[q] = todo[q]
      /\ view' = [q \in Proc |-> view'[q]]
      /\ view'[p] = IF e = <<>> THEN "none" ELSE views[p]
      /\ \A q \in Proc \ {p} : view'[q] = views[q]
  BY <1>4, Continued
<1>6. /\ ReadHeld(todo'[p]) <=> ReadHeld(todo[p])
      /\ WriteHeld(todo'[p]) <=> WriteHeld(todo[p])
      /\ CacheHeld(todo'[p]) <=> CacheHeld(todo[p])
  BY <1>2, <1>3, <1>5, Failed
<1>7. LockInv'
  BY <1>1, <1>2, <1>5, <1>6 DEF Inv, LockInv, At
<1>8. ViewInv'
  <2>1. HasWork(e) => ReadHeld(e) \/ WriteHeld(e)
    BY <1>4, FinalHolds
  <2>2. ASSUME NEW q \in Proc
        PROVE  /\ view'[q] \in {"none", "fresh", "stale"}
               /\ todo'[q] = <<>> => view'[q] = "none"
               /\ bare = {} /\ view'[q] # "none" /\ HasWork(todo'[q])
                    => ReadHeld(todo'[q]) \/ WriteHeld(todo'[q])
               /\ bare = {} /\ (ReadHeld(todo'[q]) \/ WriteHeld(todo'[q]))
                    => view'[q] # "stale"
    BY <1>3, <1>5, <1>6, <2>1 DEF Inv, ViewInv
  <2> QED BY <1>1, <1>5, <2>2 DEF ViewInv
<1>9. BareInv'
  <2>1. p \notin bare /\ \A q \in bare : q \in Proc
    BY <1>1, BareOnly DEF Inv, BareInv, Proc
  <2> QED BY <1>1, <1>5, <2>1 DEF Inv, BareInv
<1> QED BY <1>5, <1>7, <1>8, <1>9 DEF Inv

\* A failing COMMIT gives node.db back and goes on as if it had not.
LEMMA CommitFailsKeeps == ASSUME Inv, NEW p \in Proc, CommitFails(p) PROVE Inv'
<1>1. /\ At(p, "commit") /\ p \in Worker /\ Continue(p, exit[p], view)
      /\ writer' = Nobody /\ writing' = FALSE /\ bare' = bare \cup {p}
      /\ UNCHANGED <<reads, cacheLock, broken>>
  BY DEF CommitFails, Continue
<1>2. /\ todo[p] \in Seq(Instruction) /\ todo[p] # <<>> /\ Head(todo[p]) = "commit"
      /\ Recovers(todo[p], exit[p]) /\ Sound(todo[p]) /\ "commit" \in Fallible
      /\ "commit" \in Writes
  BY <1>1 DEF At, Inv, ScriptInv, Fallible, Writes
<1>3. PICK e, views : e = exit[p] /\ views = view
  OBVIOUS
<1>4. /\ e \in Seq(Instruction) /\ Sound(e) /\ Final(e) /\ Recovers(e, exit[p])
      /\ DOMAIN views = Proc /\ Continue(p, e, views)
  BY <1>1, <1>3, FinalRecovers DEF Inv, ScriptInv, ViewInv, Continue
<1>5. /\ DomainInv' /\ ScriptInv'
      /\ todo'[p] = e /\ \A q \in Proc \ {p} : todo'[q] = todo[q]
      /\ view' = [q \in Proc |-> view'[q]]
      /\ view'[p] = IF e = <<>> THEN "none" ELSE views[p]
      /\ \A q \in Proc \ {p} : view'[q] = views[q]
  BY <1>4, Continued
<1>6. /\ ReadHeld(todo'[p]) <=> ReadHeld(todo[p])
      /\ WriteHeld(todo'[p]) /\ WriteHeld(todo[p])
      /\ CacheHeld(todo'[p]) <=> CacheHeld(todo[p])
  BY <1>2, <1>3, <1>5, Failed, WorkLeft
<1>7. p \notin bare /\ writer = p /\ writing
  BY <1>1, <1>2, <1>6, BareOnly DEF Inv, LockInv
<1>8. LockInv'
  <2>1. Nobody \notin Proc
    BY WorkerAssumption DEF Proc, Routine, Nobody
  <2> QED BY <1>1, <1>5, <1>6, <1>7, <2>1 DEF Inv, LockInv, At
<1>9. ViewInv'
  BY <1>1, <1>3, <1>5 DEF Inv, ViewInv
<1>10. BareInv'
  <2>1. Nobody \notin Proc /\ \A q \in bare : q \in Proc
    BY WorkerAssumption DEF Proc, Routine, Nobody, Inv, BareInv
  <2> QED BY <1>1, <1>4, <1>5, <1>6, <2>1 DEF Inv, BareInv
<1> QED BY <1>5, <1>8, <1>9, <1>10 DEF Inv

\* No instruction breaks the invariant.
LEMMA InvStep == Inv /\ [Next]_vars => Inv'
<1> SUFFICES ASSUME Inv, [Next]_vars PROVE Inv'
  OBVIOUS
<1>1. ASSUME NEW w \in Worker, Request(w) PROVE Inv'
  <2>1. w \in Proc
    BY DEF Proc
  <2>2. PICK s, e : Fit(s, e) /\ Begin(w, s, e)
    BY <1>1, ScriptsFit, RefusalFits, EndpointAssumption DEF Request
  <2> QED BY <2>1, <2>2, BeginKeeps
<1>2. ASSUME NEW r \in Routine, Round(r) PROVE Inv'
  <2>1. r \in Proc
    BY DEF Proc
  <2>2. PICK s, e : Fit(s, e) /\ Begin(r, s, e)
    BY <1>2, ScriptsFit DEF Round
  <2> QED BY <2>1, <2>2, BeginKeeps
<1>3. ASSUME NEW p \in Proc, Run(p) PROVE Inv'
  BY <1>3, LockKeeps, RUnlockKeeps, UnlockKeeps, UnlockFreeKeeps, UnlockOthersKeeps,
     UnlockCacheKeeps, WorkKeeps, FailKeeps, CommitFailsKeeps, RespondKeeps DEF Run
<1>4. ASSUME NEW p \in Proc, Take(p) PROVE Inv'
  BY <1>4, RLockKeeps, AnnounceKeeps, LockCacheKeeps DEF Take
<1>5. CASE UNCHANGED vars
  BY <1>5 DEF vars, lockVars, Inv, DomainInv, ScriptInv, LockInv, BareInv, ViewInv, At
<1> QED BY <1>1, <1>2, <1>3, <1>4, <1>5 DEF Next

\* So it holds in every state.
LEMMA LocksInvariant == Spec => []Inv
BY InvInit, InvStep, PTL DEF Spec

-----------------------------------------------------------------------------
(* The order of the mutexes                                                *)

\* A script locks node.db for reading and nothing else, or never for reading.
Split(s) ==
  \/ \A i \in 1..Len(s) : s[i] \notin {"lock", "unlock", "cacheLock", "cacheUnlock"}
  \/ \A i \in 1..Len(s) : s[i] \notin {"rlock", "runlock"}

\* node.db is not locked under the cache's mutex.
CacheLast(s) ==
  \A i \in 1..Len(s) : s[i] = "lock" => ~HeldAt(s, i, "cacheLock", "cacheUnlock")

\* The cache's mutex is not taken under node.db's.
CacheFirst(s) ==
  \A i \in 1..Len(s) : s[i] = "cacheLock" => ~HeldAt(s, i, "lock", "unlock")

\* Only the collector takes the cache's mutex first, and always does so; the rollup leaves
\* it alone.
InOrder(p, s) ==
  /\ Split(s)
  /\ p # "collector" => CacheLast(s)
  /\ p = "collector" => CacheFirst(s)
  /\ p = "rollup" => \A i \in 1..Len(s) : s[i] # "cacheLock"

OrderInv == \A p \in Proc : InOrder(p, todo[p]) /\ InOrder(p, exit[p])

\* The rest of a script is in order if the script is.
LEMMA TailInOrder ==
  ASSUME NEW s \in Seq(Instruction), s # <<>>, NEW p, InOrder(p, s)
  PROVE  InOrder(p, Tail(s))
<1>1. Len(s) \in Nat \ {0} /\ Len(Tail(s)) = Len(s) - 1
      /\ \A i \in 1..Len(Tail(s)) : Tail(s)[i] = s[i + 1] /\ i + 1 \in 1..Len(s) /\ i \in Nat \ {0}
  BY EmptySeq, LenProperties, HeadTailProperties
<1>2. \A i \in 1..Len(Tail(s)) :
        /\ HeldAt(Tail(s), i, "cacheLock", "cacheUnlock") <=> HeldAt(s, i + 1, "cacheLock", "cacheUnlock")
        /\ HeldAt(Tail(s), i, "lock", "unlock") <=> HeldAt(s, i + 1, "lock", "unlock")
  BY <1>1, TailHeld
<1>3. Split(Tail(s))
  BY <1>1 DEF InOrder, Split
<1>4. (CacheLast(s) => CacheLast(Tail(s))) /\ (CacheFirst(s) => CacheFirst(Tail(s)))
  BY <1>1, <1>2 DEF CacheLast, CacheFirst
<1> QED BY <1>1, <1>3, <1>4 DEF InOrder

\* Who has nothing to do is in order.
LEMMA NothingInOrder == \A p : InOrder(p, <<>>)
BY DEF InOrder, Split, CacheLast, CacheFirst

\* A handler that only reads.
LEMMA ReaderInOrder ==
  ASSUME NEW b \in Seq({"query"}), NEW p
  PROVE  InOrder(p, Reader(b).body \o Reader(b).done) /\ InOrder(p, Reader(b).failed)
<1> PICK s : s = (<<"rlock">> \o b) \o <<"runlock", "respond">>
  OBVIOUS
<1> PICK n : n = Len(b)
  OBVIOUS
<1>1. /\ n \in Nat /\ Len(s) = n + 3
      /\ s[1] = "rlock" /\ s[n + 2] = "runlock" /\ s[n + 3] = "respond"
      /\ \A i \in 2..n + 1 : s[i] \in {"query"}
  BY Bracketed DEF Instruction
<1>2. \A i \in 1..Len(s) : s[i] \in {"rlock", "runlock", "respond", "query"}
  BY <1>1
<1>3. Reader(b).body \o Reader(b).done = s /\ Reader(b).failed = <<"runlock", "respond">>
  BY DEF Reader
<1>4. InOrder(p, s)
  BY <1>2 DEF InOrder, Split, CacheLast, CacheFirst
<1>5. InOrder(p, <<"runlock", "respond">>)
  BY DEF InOrder, Split, CacheLast, CacheFirst
<1> QED BY <1>3, <1>4, <1>5

\* A handler that works under Lock and leaves the cache alone.
LEMMA WriterInOrder ==
  ASSUME NEW b \in Seq(Reads \cup Writes \cup {"wg"}), NEW p,
         NEW e \in {<<"unlock", "respond">>, <<"put", "unlock", "respond">>}
  PROVE  InOrder(p, Writer(b).body \o Writer(b).done) /\ InOrder(p, e)
<1> PICK s : s = (<<"lock">> \o b) \o <<"unlock", "respond">>
  OBVIOUS
<1> PICK n : n = Len(b)
  OBVIOUS
<1>1. /\ s \in Seq(Instruction) /\ n \in Nat /\ Len(s) = n + 3
      /\ s[1] = "lock" /\ s[n + 2] = "unlock" /\ s[n + 3] = "respond"
      /\ \A i \in 2..n + 1 : s[i] \in Reads \cup Writes \cup {"wg"}
  BY Bracketed DEF Instruction, Reads, Writes
<1>2. ASSUME NEW i \in 1..Len(s)
      PROVE  s[i] \notin {"rlock", "runlock", "cacheLock", "cacheUnlock"}
  <2>1. i = 1 \/ i \in 2..n + 1 \/ i = n + 2 \/ i = n + 3
    BY <1>1
  <2> QED BY <1>1, <2>1 DEF Reads, Writes
<1>3. Writer(b).body \o Writer(b).done = s
  BY DEF Writer
<1>4. InOrder(p, s)
  BY <1>1, <1>2 DEF InOrder, Split, CacheLast, CacheFirst, HeldAt
<1>5. InOrder(p, e)
  <2>1. CASE e = <<"unlock", "respond">>
    BY <2>1 DEF InOrder, Split, CacheLast, CacheFirst, HeldAt
  <2>2. CASE e = <<"put", "unlock", "respond">>
    BY <2>2 DEF InOrder, Split, CacheLast, CacheFirst, HeldAt
  <2> QED BY <2>1, <2>2
<1> QED BY <1>3, <1>4, <1>5

\* What a goroutine begins is in order: the collector's script is the collector's.
LEMMA ScriptsInOrder ==
  ASSUME NEW name \in Endpoint \cup Routine, NEW p, p \in Routine \/ name \in Routine => p = name
  PROVE  /\ InOrder(p, Script(name).body \o Script(name).done)
         /\ InOrder(p, Script(name).failed)
<1>1. CASE name \in {"listPeers", "reservedSubnets", "peerStat", "peersStat"}
  <2>1. <<"query">> \in Seq({"query"}) /\ <<"query", "query", "query">> \in Seq({"query"})
    OBVIOUS
  <2>2. PICK b \in Seq({"query"}) : Script(name) = Reader(b)
    BY <1>1, <2>1 DEF Script, ListPeers, ReservedSubnets, PeerStat, PeersStat
  <2> QED BY <2>2, ReaderInOrder
<1>2. CASE name \in {"getPeer", "deletePeer", "updatePeer", "reserveSubnet"}
  <2> DEFINE Inner == Reads \cup Writes \cup {"wg"}
  <2>1. <<"query">> \in Seq(Inner) /\ <<"exec", "wg">> \in Seq(Inner)
        /\ <<"exec", "query", "wg", "wg">> \in Seq(Inner) /\ <<"tree", "exec">> \in Seq(Inner)
    BY DEF Reads, Writes
  <2>2. PICK b \in Seq(Inner) :
          /\ Script(name).body = Writer(b).body /\ Script(name).done = Writer(b).done
          /\ Script(name).failed \in {<<"unlock", "respond">>, <<"put", "unlock", "respond">>}
    <3> HIDE DEF Inner
    <3> QED BY <1>2, <2>1 DEF Script, GetPeer, DeletePeer, UpdatePeer, ReserveSubnet, Writer
  <2> QED BY <2>2, WriterInOrder
<1>3. CASE name = "peerSubnets"
  <2>1. InOrder(p, <<"rlock", "query", "query", "respond", "runlock">>)
        /\ InOrder(p, <<"respond", "runlock">>)
    BY DEF InOrder, Split, CacheLast, CacheFirst
  <2> QED BY <1>3, <2>1, WholeScripts DEF Script, PeerSubnets
<1>4. CASE name = "addPeer"
  <2> DEFINE u == <<"lock", "stage", "tree", "stage", "wg", "cacheLock", "cacheUnlock",
                    "commit", "unlock", "respond">>
             e == <<"put", "cacheLock", "cacheUnlock", "unlock", "respond">>
  <2>1. p # "rollup" /\ p # "collector"
    BY <1>4 DEF Routine
  <2>2. Split(u) /\ Split(e)
    BY DEF Split
  <2>3. CacheLast(u) /\ CacheLast(e)
    BY DEF CacheLast, HeldAt
  <2>4. AddPeer.body \o AddPeer.done = u /\ AddPeer.failed = e
    BY WholeScripts DEF AddPeer
  <2> QED BY <1>4, <2>1, <2>2, <2>3, <2>4 DEF Script, InOrder
<1>5. CASE name = "deleteSubnet"
  <2>1. InOrder(p, <<"lock", "query", "tree", "exec", "respond", "unlock">>)
        /\ InOrder(p, <<"respond", "unlock">>)
    BY DEF InOrder, Split, CacheLast, CacheFirst, HeldAt
  <2> QED BY <1>5, <2>1, WholeScripts DEF Script, DeleteSubnet
<1>6. CASE name = "collector"
  <2>1. p = "collector"
    BY <1>6 DEF Routine
  <2>2. Split(<<"wg", "cacheLock", "lock", "put", "put", "unlock", "cacheUnlock">>)
    BY DEF Split
  <2>3. CacheFirst(<<"wg", "cacheLock", "lock", "put", "put", "unlock", "cacheUnlock">>)
    BY DEF CacheFirst, HeldAt
  <2>4. InOrder(p, <<"wg", "cacheLock", "lock", "put", "put", "unlock", "cacheUnlock">>)
    BY <2>1, <2>2, <2>3 DEF InOrder
  <2> QED BY <1>6, <2>4, WholeScripts, NothingInOrder DEF Script, Collect
<1>7. CASE name = "rollup"
  <2>1. InOrder(p, <<"lock", "query", "stage", "stage", "commit", "unlock">>)
        /\ InOrder(p, <<"unlock">>)
    BY DEF InOrder, Split, CacheLast, CacheFirst, HeldAt
  <2> QED BY <1>7, <2>1, WholeScripts DEF Script, Rollup
<1> QED BY <1>1, <1>2, <1>3, <1>4, <1>5, <1>6, <1>7 DEF Endpoint, Validating, Routine

\* The order does not change on the way.
LEMMA OrderStep == Inv /\ OrderInv /\ [Next]_vars => OrderInv'
<1> SUFFICES ASSUME Inv, OrderInv, [Next]_vars PROVE OrderInv'
  OBVIOUS
<1>1. /\ DOMAIN todo = Proc /\ DOMAIN exit = Proc
      /\ \A p \in Proc : todo[p] \in Seq(Instruction)
  BY DEF Inv, DomainInv, ScriptInv
<1>2. ASSUME NEW p \in Proc, NEW s, NEW e, InOrder(p, s), InOrder(p, e),
             todo' = [todo EXCEPT ![p] = s], exit' = [exit EXCEPT ![p] = e]
      PROVE  OrderInv'
  BY <1>1, <1>2 DEF OrderInv
<1>3. ASSUME NEW p \in Proc, NEW s, NEW views, InOrder(p, s), Continue(p, s, views)
      PROVE  OrderInv'
  <2>1. todo' = [todo EXCEPT ![p] = s] /\ exit' = [exit EXCEPT ![p] = IF s = <<>> THEN <<>> ELSE exit[p]]
    BY <1>1, <1>3 DEF Continue
  <2>2. InOrder(p, IF s = <<>> THEN <<>> ELSE exit[p])
    BY NothingInOrder DEF OrderInv
  <2> QED BY <1>2, <1>3, <2>1, <2>2
<1>4. ASSUME NEW p \in Proc, NEW i, At(p, i), NEW views, Continue(p, Tail(todo[p]), views)
      PROVE  OrderInv'
  <2>1. InOrder(p, Tail(todo[p]))
    BY <1>1, <1>4, TailInOrder DEF At, OrderInv
  <2> QED BY <1>3, <1>4, <2>1
<1>5. ASSUME NEW w \in Worker, Request(w) PROVE OrderInv'
  <2>1. w \in Proc /\ w \notin Routine
    BY WorkerAssumption DEF Proc
  <2>2. PICK s, e : InOrder(w, s) /\ InOrder(w, e) /\ Begin(w, s, e)
    <3>1. Endpoints \cap Routine = {} /\ Endpoints \subseteq Endpoint
      BY EndpointAssumption DEF Endpoint, Validating, Routine
    <3>2. InOrder(w, <<"respond">>) /\ InOrder(w, <<>>)
      BY NothingInOrder DEF InOrder, Split, CacheLast, CacheFirst
    <3> QED BY <1>5, <2>1, <3>1, <3>2, ScriptsInOrder DEF Request
  <2> QED BY <1>2, <2>1, <2>2 DEF Begin
<1>6. ASSUME NEW r \in Routine, Round(r) PROVE OrderInv'
  <2>1. r \in Proc
    BY DEF Proc
  <2>2. InOrder(r, Script(r).body \o Script(r).done) /\ InOrder(r, Script(r).failed)
    BY ScriptsInOrder
  <2> QED BY <1>2, <1>6, <2>1, <2>2 DEF Round, Begin
<1>7. ASSUME NEW p \in Proc, Run(p) PROVE OrderInv'
  <2>1. CASE Lock(p) \/ RUnlock(p) \/ Unlock(p) \/ UnlockCache(p) \/ Respond(p)
    BY <1>4, <2>1 DEF Lock, RUnlock, Unlock, UnlockCache, Respond, Advance
  <2>2. CASE Work(p)
    <3>1. PICK i, views : At(p, i) /\ Continue(p, Tail(todo[p]), views)
      BY <2>2 DEF Work
    <3> QED BY <1>4, <3>1
  <2>3. CASE Fail(p) \/ CommitFails(p)
    <3>1. Continue(p, exit[p], view)
      BY <2>3 DEF Fail, CommitFails
    <3> QED BY <1>3, <3>1 DEF OrderInv
  <2>4. CASE UnlockFree(p)
    BY <2>4, NothingInOrder DEF UnlockFree, OrderInv
  <2>5. CASE UnlockOthers(p)
    BY <2>5 DEF UnlockOthers, OrderInv
  <2> QED BY <1>7, <2>1, <2>2, <2>3, <2>4, <2>5 DEF Run
<1>8. ASSUME NEW p \in Proc, Take(p) PROVE OrderInv'
  <2>1. CASE RLock(p) \/ LockCache(p)
    BY <1>4, <2>1 DEF RLock, LockCache, Advance
  <2>2. CASE Announce(p)
    BY <2>2 DEF Announce, OrderInv
  <2> QED BY <1>8, <2>1, <2>2 DEF Take
<1>9. CASE UNCHANGED vars
  BY <1>9 DEF vars, OrderInv
<1> QED BY <1>5, <1>6, <1>7, <1>8, <1>9 DEF Next

\* So it is kept in every state.
LEMMA OrderInvariant == Spec => []OrderInv
<1>1. Init => OrderInv
  BY NothingInOrder DEF Init, OrderInv
<1>2. Init /\ [][Next]_vars => []Inv
  BY InvInit, InvStep, PTL
<1> QED BY <1>1, <1>2, OrderStep, PTL DEF Spec

\* Who holds a mutex and waits: nobody who reads, of those who write only a handler that
\* wants the cache, of those who have the cache only the collector.
LEMMA WhoWaits ==
  ASSUME Inv, OrderInv, NEW p \in Proc, NEW q \in Proc, Blocks(q, p)
  PROVE  /\ reads[p] = 0
         /\ writer = p /\ writing => p \in Worker /\ At(p, "cacheLock")
         /\ cacheLock = p => p = "collector" /\ At(p, "lock")
<1> PICK s : s = todo[p]
  OBVIOUS
<1>1. /\ s \in Seq(Instruction) /\ s # <<>> /\ Head(s) \in {"rlock", "lock", "cacheLock"}
      /\ \A i : At(p, i) <=> Head(s) = i
  BY DEF Inv, ScriptInv, Blocks, At
<1>2. Head(s) = s[1] /\ 1 \in 1..Len(s) /\ Len(s) \in Nat
  BY <1>1, EmptySeq, LenProperties
<1>3. /\ Head(s) = "rlock" => ~ReadHeld(s)
      /\ Head(s) = "lock" => ~WriteHeld(s)
      /\ Head(s) = "cacheLock" => ~CacheHeld(s)
  BY <1>1, HeadHeld DEF ReadHeld, WriteHeld, CacheHeld
<1>4. InOrder(p, s)
  BY DEF OrderInv
<1>5. /\ ReadHeld(s) => \E i \in 1..Len(s) : s[i] = "runlock"
      /\ WriteHeld(s) => \E i \in 1..Len(s) : s[i] = "unlock"
      /\ CacheHeld(s) => \E i \in 1..Len(s) : s[i] = "cacheUnlock"
  BY DEF ReadHeld, WriteHeld, CacheHeld, HeldAt
<1>6. ~ReadHeld(s)
  BY <1>1, <1>2, <1>3, <1>4, <1>5 DEF InOrder, Split
<1>7. WriteHeld(s) => Head(s) = "cacheLock" /\ p \in Worker
  <2>1. WriteHeld(s) => Head(s) = "cacheLock"
    BY <1>1, <1>2, <1>3, <1>4, <1>5 DEF InOrder, Split
  <2>2. Head(s) = "cacheLock" => p # "rollup"
    BY <1>2, <1>4 DEF InOrder
  <2>3. Head(s) = "cacheLock" /\ WriteHeld(s) => ~CacheFirst(s)
    BY <1>2 DEF CacheFirst, WriteHeld
  <2> QED BY <1>4, <2>1, <2>2, <2>3 DEF InOrder, Proc, Routine
<1>8. CacheHeld(s) => Head(s) = "lock" /\ p = "collector"
  <2>1. CacheHeld(s) => Head(s) = "lock"
    BY <1>1, <1>2, <1>3, <1>4, <1>5 DEF InOrder, Split
  <2>2. Head(s) = "lock" /\ CacheHeld(s) => ~CacheLast(s)
    BY <1>2 DEF CacheLast, CacheHeld
  <2> QED BY <1>4, <2>1, <2>2 DEF InOrder
<1>9. writer = p => p \notin bare
  BY DEF Inv, BareInv
<1> QED BY <1>1, <1>6, <1>7, <1>8, <1>9 DEF Inv, LockInv

-----------------------------------------------------------------------------
(* Theorems                                                                *)

\* Every variable has its type; in particular nobody read-locks node.db twice.
THEOREM LocksTyped == Spec => []TypeOK
<1>1. Inv => TypeOK
  BY DEF Inv, ScriptInv, LockInv, BareInv, ViewInv, TypeOK
<1> QED BY <1>1, LocksInvariant, PTL

\* On every path through a handler, the collector or the rollup, whatever fails, only what
\* is held is released and nothing is kept when the call ends; the Unlock of a POST whose
\* COMMIT failed is the one that releases what it does not hold.
THEOREM LocksGivenBack == Spec => []LocksBalanced
<1>1. ASSUME Inv, NEW p \in Proc
      PROVE  /\ At(p, "runlock") => reads[p] > 0
             /\ At(p, "unlock") => (writer = p /\ writing <=> p \notin bare)
             /\ At(p, "cacheUnlock") => cacheLock = p
             /\ todo[p] = <<>> => reads[p] = 0 /\ writer # p /\ cacheLock # p
  <2>1. /\ At(p, "runlock") => ReadHeld(todo[p])
        /\ At(p, "unlock") => WriteHeld(todo[p])
        /\ At(p, "cacheUnlock") => CacheHeld(todo[p])
    BY <1>1, HeadHeld DEF At, Inv, ScriptInv, ReadHeld, WriteHeld, CacheHeld
  <2> QED BY <1>1, <2>1, NothingLeft DEF Inv, LockInv, BareInv, At
<1>2. Inv => LocksBalanced
  BY <1>1 DEF LocksBalanced
<1> QED BY <1>2, LocksInvariant, PTL

\* Between the first read of a call and its last read or write nobody else writes, if no
\* POST rolls back a COMMIT that failed.
THEOREM SnapshotsHold == Spec => []OneSnapshot
<1>1. ASSUME Inv, bare = {}, NEW p \in Proc, view[p] = "stale", NEW i \in Reads \cup Writes, At(p, i)
      PROVE  FALSE
  <2>1. /\ todo[p] \in Seq(Instruction) /\ todo[p] # <<>> /\ Sound(todo[p])
        /\ Head(todo[p]) \in DbWork
    BY <1>1 DEF At, Inv, ScriptInv, DbWork
  <2>2. HasWork(todo[p])
    BY <2>1, WorkLeft
  <2> QED BY <1>1, <2>2 DEF Inv, ViewInv
<1>2. Inv => OneSnapshot
  BY <1>1 DEF OneSnapshot
<1> QED BY <1>2, LocksInvariant, PTL

\* Goroutines that wait for each other do so because POST /peers and the collector do,
\* however many there are.
THEOREM OneDeadlockOnly == Spec => []OnlyLockCycle
<1>1. ASSUME Inv, OrderInv, NEW S \in SUBSET Proc, S # {}, \A p \in S : \E q \in S : Blocks(q, p)
      PROVE  LockCycle
  <2>1. \A p \in S : reads[p] = 0
    BY <1>1, WhoWaits
  <2>2. \A p \in S : writer = p => /\ writing /\ p \in Worker /\ At(p, "cacheLock")
    <3> SUFFICES ASSUME NEW p \in S, writer = p PROVE writing /\ p \in Worker /\ At(p, "cacheLock")
      OBVIOUS
    <3>1. PICK q \in S : Blocks(q, p)
      BY <1>1
    <3>2. ~writing => At(p, "lock")
      BY <1>1 DEF Inv, LockInv
    <3>3. At(p, "lock") => q = p /\ FALSE
      <4>1. reads[q] = 0
        BY <2>1
      <4> QED BY <3>1, <4>1 DEF Blocks, At
    <3>4. writing => p \in Worker /\ At(p, "cacheLock")
      BY <1>1, <3>1, WhoWaits
    <3> QED BY <1>1, <3>2, <3>3, <3>4 DEF Inv, LockInv
  <2>3. \A p \in S : cacheLock = p => p = "collector" /\ At(p, "lock")
    BY <1>1, WhoWaits
  <2>4. \A p \in S : At(p, "lock") \/ At(p, "rlock") => writer \in S
    BY <1>1, <2>1 DEF Blocks, At
  <2>5. \A p \in S : At(p, "cacheLock") => cacheLock \in S
    BY <1>1 DEF Blocks, At
  <2>6. \A p \in S : At(p, "lock") \/ At(p, "rlock") \/ At(p, "cacheLock")
    BY <1>1 DEF Blocks
  <2>7. writer \in S
    BY <1>1, <2>3, <2>4, <2>5, <2>6
  <2> QED BY <2>2, <2>3, <2>5, <2>7 DEF LockCycle
<1>2. Inv /\ OrderInv => OnlyLockCycle
  BY <1>1 DEF OnlyLockCycle
<1> QED BY <1>2, LocksInvariant, OrderInvariant, PTL

=============================================================================
