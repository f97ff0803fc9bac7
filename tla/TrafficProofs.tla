--------------------------- MODULE TrafficProofs ---------------------------
(***************************************************************************)
(* Proofs about the traffic statistics, for any keys, row ids, amounts of  *)
(* traffic and times.  What fails or is called is a hypothesis of a        *)
(* theorem only where the code needs it.                                   *)
(***************************************************************************)
EXTENDS Traffic, WellFoundedInduction, TLAPS

Row == [at : Time, id : Id, total : Nat]

\* LastTotal in any table.
LastOf(table, id, until) ==
  LET found == { r \in table : r.id = id /\ r.at <= until }
  IN IF found = {} THEN 0 ELSE (CHOOSE r \in found : \A s \in found : s.at <= r.at).total

\* The table as a parameter, before and after a step.
LEMMA LastOfRows ==
  ASSUME NEW id, NEW until
  PROVE  /\ LastTotal(id, until) = LastOf(rows, id, until)
         /\ LastTotal(id, until)' = LastOf(rows', id, until)
BY DEF LastTotal, LastOf

\* The timestamps are bounded: among any rows there is a last one.
LEMMA LastExists ==
  ASSUME NEW found \in SUBSET Row, found # {}
  PROVE  \E r \in found : \A s \in found : s.at <= r.at
<1> DEFINE Left == { MaxClock - r.at : r \in found }
<1>1. \A r \in found : r.at \in 0..MaxClock
  BY DEF Row, Time
<1>2. Left \subseteq Nat /\ Left # {}
  BY <1>1, RollupAssumption
<1>3. PICK m \in Left : \A n \in Left : ~(<<n, m>> \in OpToRel(<, Nat))
  <2> HIDE DEF Left
  <2> QED BY <1>2, NatLessThanWellFounded, WFMin
<1>4. PICK r \in found : m = MaxClock - r.at
  OBVIOUS
<1>5. ASSUME NEW s \in found PROVE s.at <= r.at
  <2>1. MaxClock - s.at \in Left /\ MaxClock - s.at \in Nat /\ m \in Nat
    BY <1>2
  <2>2. ~(MaxClock - s.at < m)
    BY <1>3, <2>1 DEF OpToRel
  <2> QED BY <1>1, <1>4, <2>2, RollupAssumption
<1> QED BY <1>5

\* LastTotal is the total of the last row there is, or zero.
LEMMA LastOfIs ==
  ASSUME NEW table \in SUBSET Row, NEW id, NEW until
  PROVE  /\ LastOf(table, id, until) \in Nat
         /\ \/ /\ LastOf(table, id, until) = 0
               /\ \A r \in table : ~(r.id = id /\ r.at <= until)
            \/ \E r \in table :
                 /\ r.id = id /\ r.at <= until
                 /\ LastOf(table, id, until) = r.total
                 /\ \A s \in table : s.id = id /\ s.at <= until => s.at <= r.at
<1> DEFINE found == { r \in table : r.id = id /\ r.at <= until }
           last == CHOOSE r \in found : \A s \in found : s.at <= r.at
<1>1. CASE found = {}
  BY <1>1 DEF LastOf
<1>2. CASE found # {}
  <2>1. found \in SUBSET Row
    OBVIOUS
  <2>2. last \in found /\ \A s \in found : s.at <= last.at
    <3> HIDE DEF found
    <3> QED BY <1>2, <2>1, LastExists
  <2>3. LastOf(table, id, until) = last.total
    BY <1>2 DEF LastOf
  <2>4. last.total \in Nat /\ last \in table /\ last.id = id /\ last.at <= until
    BY <2>2 DEF Row
  <2> HIDE DEF last
  <2> QED BY <2>2, <2>3, <2>4
<1> QED BY <1>1, <1>2

\* rollupOldStats on any table.
Rolled(table, oldest, ids) ==
  { r \in table : r.at > oldest }
    \cup { [at |-> oldest, id |-> i, total |-> LastOf(table, i, oldest)] : i \in ids }

\* The same for the rollup.
LEMMA RolledRows == RolledUp(Oldest) = Rolled(rows, Oldest, PeerIds)
BY DEF RolledUp, Rolled, LastTotal, LastOf

\* A row after the rollup is one of before or stands for the last of its peer's rows.
LEMMA RolledIs ==
  ASSUME NEW table \in SUBSET Row, NEW oldest \in Time, NEW ids \in SUBSET Id
  PROVE  /\ Rolled(table, oldest, ids) \in SUBSET Row
         /\ \A r \in Rolled(table, oldest, ids) :
              \/ r \in table /\ r.at > oldest
              \/ r.at = oldest /\ r.id \in ids /\ r.total = LastOf(table, r.id, oldest)
<1>1. \A i \in ids : LastOf(table, i, oldest) \in Nat
  BY LastOfIs
<1>2. ASSUME NEW r \in Rolled(table, oldest, ids)
      PROVE  /\ r \in Row
             /\ \/ r \in table /\ r.at > oldest
                \/ r.at = oldest /\ r.id \in ids /\ r.total = LastOf(table, r.id, oldest)
  <2>1. CASE r \in { s \in table : s.at > oldest }
    BY <2>1
  <2>2. CASE r \in { [at |-> oldest, id |-> i, total |-> LastOf(table, i, oldest)] : i \in ids }
    <3>1. PICK i \in ids : r = [at |-> oldest, id |-> i, total |-> LastOf(table, i, oldest)]
      BY <2>2
    <3> QED BY <1>1, <3>1 DEF Row
  <2> QED BY <2>1, <2>2 DEF Rolled
<1> QED BY <1>2

\* The type invariant, with the calculators' shape and the clock's lower bound.
Calc == [prevTx : Nat, prevRx : Nat, cur : {NoStat}]

TypeInv ==
  /\ TypeOK
  /\ calc \in [Key -> Calc]
  /\ clock >= RollupAfter
  /\ collector # "idle" => up /\ at >= RollupAfter
  /\ adding # 0 => nextPeer <= MaxPeerId

\* A calculator that has just been made.
LEMMA NewCalcIs == NewCalc \in Calc /\ NewCalc.prevTx = 0
BY DEF NewCalc, MakeTotalStatsCalc, Calc

\* The rollup's limit is a time, and a past one.
LEMMA OldestIs == TypeInv => Oldest \in Time /\ Oldest < clock
BY RollupAssumption DEF TypeInv, TypeOK, Oldest, Time

\* What the collector books of a peer: its calculator has seen nothing yet.
LEMMA TotalIs ==
  ASSUME NEW c \in Calc, NEW n \in Nat
  PROVE  Total(c, StatOf(n)).tx = c.prevTx + n
<1>1. ~NewPeriod(c, StatOf(n))
  BY DEF Calc, NoStat, StatOf, NewPeriod
<1>2. Calculated(c, StatOf(n)).prevTx = c.prevTx
  BY <1>1 DEF Calculated, Calc
<1> QED BY <1>2 DEF Total, StatOf

\* The types hold at the start.
LEMMA TypeInit == Init => TypeInv
<1> SUFFICES ASSUME Init PROVE TypeInv
  OBVIOUS
<1>1. calc \in [Key -> Calc]
  BY NewCalcIs DEF Init
<1>2. \A k \in Key : calc[k].prevTx \in Nat /\ calc[k].cur = NoStat
  BY <1>1 DEF Calc
<1>3. clock \in Time /\ at \in Time /\ clock >= RollupAfter
  BY RollupAssumption DEF Init, Time
<1>4. stepped \in BOOLEAN /\ ticked \in BOOLEAN /\ up \in BOOLEAN
  BY Zenon DEF Init
<1>5. /\ peerId \in [Key -> Id \cup {0}] /\ nextPeer \in 1..MaxPeerId + 1
      /\ cache \in [Key -> Id \cup {0}] /\ snap \in [Key -> 0..MaxBytes \cup {Absent}]
      /\ bytes \in [Key -> 0..MaxBytes] /\ carried \in [Id -> 0..MaxBytes]
  BY BoundAssumption DEF Init
<1>6. /\ shown \in [Key -> {"null", "zero", "handshake"}] /\ \A k \in Key : shown[k] = "null"
      /\ rows \subseteq [at : Time, id : Id, total : Nat]
      /\ wgPeers \subseteq Key /\ renewed \subseteq Id /\ inherited \subseteq Id
      /\ collector = "idle" /\ adding = 0 /\ refusing = 0 /\ updating = 0
  BY DEF Init
<1> QED BY <1>1, <1>2, <1>3, <1>4, <1>5, <1>6 DEF TypeInv, TypeOK

\* A rollup leaves rows.
LEMMA RollupTyped ==
  ASSUME TypeInv, rows' = RolledUp(Oldest) PROVE rows' \subseteq [at : Time, id : Id, total : Nat]
<1>1. PeerIds \subseteq Id
  BY DEF PeerIds, TypeInv, TypeOK
<1>2. rows \in SUBSET Row /\ Oldest \in Time
  BY OldestIs DEF TypeInv, TypeOK, Row
<1> QED BY <1>1, <1>2, RolledRows, RolledIs DEF Row

\* Every step keeps the types.
LEMMA TypeStep == TypeInv /\ [Step]_vars => TypeInv'
<1> SUFFICES ASSUME TypeInv, [Step]_vars PROVE TypeInv'
  OBVIOUS
<1> USE BoundAssumption, RollupAssumption
<1> DEFINE Typed ==
      /\ clock \in Time /\ clock >= RollupAfter /\ stepped \in BOOLEAN /\ ticked \in BOOLEAN
      /\ peerId \in [Key -> Id \cup {0}] /\ nextPeer \in 1..MaxPeerId + 1
      /\ shown \in [Key -> {"null", "zero", "handshake"}]
      /\ \A k \in Key : peerId[k] = 0 => shown[k] = "null"
      /\ rows \subseteq [at : Time, id : Id, total : Nat]
      /\ wgPeers \subseteq Key /\ bytes \in [Key -> 0..MaxBytes]
      /\ carried \in [Id -> 0..MaxBytes] /\ renewed \subseteq Id /\ inherited \subseteq Id
      /\ cache \in [Key -> Id \cup {0}] /\ calc \in [Key -> Calc]
      /\ snap \in [Key -> 0..MaxBytes \cup {Absent}] /\ at \in Time
      /\ collector \in {"idle", "dumped", "locked"}
      /\ collector # "idle" => up /\ at >= RollupAfter
      /\ adding \in Key \cup {0} /\ (adding # 0 => nextPeer <= MaxPeerId)
      /\ refusing \in Key \cup {0} /\ updating \in Key \cup {0} /\ up \in BOOLEAN
<1>0. Typed
  BY DEF TypeInv, TypeOK
<1> USE DEF timeVars, dbVars, wgVars, history, cacheVars, collectorVars, handlerVars
<1>1. SUFFICES Typed'
  BY DEF TypeInv, TypeOK, Calc
<1>2. ASSUME NEW k \in Key, Transfer(k) PROVE Typed'
  <2>1. bytes' \in [Key -> 0..MaxBytes] /\ carried' \in [Id -> 0..MaxBytes]
    BY <1>0, <1>2, SMTT(30) DEF Transfer, Id
  <2> QED BY <1>0, <1>2, <2>1 DEF Transfer
<1>3. ASSUME NEW k \in Key, AddPut(k) PROVE Typed'
  <2>1. wgPeers' \subseteq Key /\ inherited' \subseteq Id /\ adding' \in Key \cup {0}
        /\ nextPeer <= MaxPeerId
    BY <1>0, <1>3 DEF AddPut, Id
  <2> QED BY <1>0, <1>3, <2>1 DEF AddPut
<1>4. ASSUME NEW k \in Key, AddCommit(k) PROVE Typed'
  <2>1. /\ peerId' \in [Key -> Id \cup {0}] /\ cache' \in [Key -> Id \cup {0}]
        /\ nextPeer' \in 1..MaxPeerId + 1 /\ calc' \in [Key -> Calc] /\ adding' = 0
        /\ \A j \in Key : peerId'[j] = 0 => peerId[j] = 0
    BY <1>0, <1>4, KeyAssumption, NewCalcIs DEF AddCommit, Id
  <2> QED BY <1>0, <1>4, <2>1 DEF AddCommit
<1>5. ASSUME NEW k \in Key, AddFails(k) PROVE Typed'
  <2>1. carried' \in [Id -> 0..MaxBytes] /\ inherited' \subseteq Id /\ renewed' = renewed
    BY <1>0, <1>5 DEF AddFails, RowDropped
  <2>2. adding' = 0 /\ refusing' \in Key
    BY <1>5 DEF AddFails
  <2> QED BY <1>0, <1>5, <2>1, <2>2 DEF AddFails
<1>6. ASSUME NEW k \in Key, Refuse(k) PROVE Typed'
  BY <1>0, <1>6 DEF Refuse
<1>7. ASSUME NEW k \in Key, RollBack(k) PROVE Typed'
  <2>1. cache' \in [Key -> Id \cup {0}] /\ calc' \in [Key -> Calc]
    BY <1>0, <1>7, NewCalcIs DEF RollBack
  <2> QED BY <1>0, <1>7, <2>1 DEF RollBack
<1>8. ASSUME NEW k \in Key, DeletePeer(k) PROVE Typed'
  <2>1. /\ peerId' \in [Key -> Id \cup {0}] /\ shown' \in [Key -> {"null", "zero", "handshake"}]
        /\ \A j \in Key : peerId'[j] = 0 => shown'[j] = "null"
    BY <1>0, <1>8 DEF DeletePeer
  <2>2. wgPeers' \subseteq Key /\ bytes' \in [Key -> 0..MaxBytes]
    BY <1>0, <1>8 DEF DeletePeer, Cleared
  <2> QED BY <1>0, <1>8, <2>1, <2>2 DEF DeletePeer
<1>9. ASSUME NEW k \in Key, UpdateReset(k) PROVE Typed'
  <2>1. wgPeers' \subseteq Key /\ bytes' \in [Key -> 0..MaxBytes]
        /\ updating' \in Key \cup {0} /\ renewed' \subseteq Id
    BY <1>0, <1>9 DEF UpdateReset, Cleared
  <2> QED BY <1>0, <1>9, <2>1 DEF UpdateReset
<1>10. ASSUME NEW k \in Key, UpdatePut(k) PROVE Typed'
  BY <1>0, <1>10 DEF UpdatePut
<1>11. CASE Tick
  <2>1. clock' \in Time /\ clock' >= RollupAfter
    BY <1>0, <1>11 DEF Tick, Time
  <2> QED BY <1>0, <1>11, <2>1 DEF Tick
<1>12. CASE StepBack
  <2>1. clock' \in Time /\ clock' >= RollupAfter
    BY <1>0, <1>12 DEF StepBack, Time
  <2> QED BY <1>0, <1>12, <2>1 DEF StepBack
<1>13. CASE CollectDump
  <2>1. snap' \in [Key -> 0..MaxBytes \cup {Absent}]
    BY <1>0, <1>13 DEF CollectDump
  <2> QED BY <1>0, <1>13, <2>1 DEF CollectDump
<1>14. CASE CollectLock
  BY <1>0, <1>14 DEF CollectLock
<1>15. CASE CollectWrite
  <2>1. PICK written \in SUBSET Known, updated \in SUBSET Known :
          /\ rows' = rows \cup { [at |-> at, id |-> cache[k],
                                  total |-> Total(calc[k], StatOf(snap[k])).tx] : k \in written }
          /\ shown' = ShownAfter(updated)
    BY <1>15 DEF CollectWrite, Succeeding
  <2>2. \A k \in Known : cache[k] \in Id /\ Total(calc[k], StatOf(snap[k])).tx \in Nat
    <3>1. ASSUME NEW k \in Known
          PROVE  k \in Key /\ cache[k] \in Id /\ snap[k] \in Nat /\ calc[k] \in Calc
      BY <1>0 DEF Known, Absent
    <3>2. ASSUME NEW k \in Known PROVE Total(calc[k], StatOf(snap[k])).tx \in Nat
      <4>1. Total(calc[k], StatOf(snap[k])).tx = calc[k].prevTx + snap[k]
        BY <3>1, TotalIs
      <4> QED BY <3>1, <4>1 DEF Calc
    <3> QED BY <3>1, <3>2
  <2>3. rows' \subseteq [at : Time, id : Id, total : Nat]
    BY <1>0, <2>1, <2>2
  <2>4. /\ shown' \in [Key -> {"null", "zero", "handshake"}]
        /\ \A k \in Key : peerId[k] = 0 => shown'[k] = "null"
    <3>1. ASSUME NEW k \in Key, peerId[k] = 0
          PROVE  { j \in updated : cache[j] = peerId[k] } = {}
      BY <2>1, <3>1 DEF Known
    <3> QED BY <1>0, <2>1, <3>1 DEF ShownAfter
  <2>5. snap' \in [Key -> 0..MaxBytes \cup {Absent}] /\ at' \in Time /\ collector' = "idle"
        /\ UNCHANGED <<timeVars, peerId, nextPeer, wgVars, history, cacheVars, handlerVars, up>>
    BY <1>0, <1>15 DEF CollectWrite, Time
  <2> QED BY <1>0, <2>3, <2>4, <2>5
<1>16. CASE Rollup
  <2>1. rows' \subseteq [at : Time, id : Id, total : Nat]
    BY <1>16, RollupTyped DEF Rollup
  <2> QED BY <1>0, <1>16, <2>1 DEF Rollup
<1>17. CASE Crash
  <2>1. cache' \in [Key -> Id \cup {0}] /\ calc' \in [Key -> Calc]
        /\ snap' \in [Key -> 0..MaxBytes \cup {Absent}] /\ at' \in Time
    BY <1>17, NewCalcIs DEF Crash, Time
  <2>2. carried' \in [Id -> 0..MaxBytes] /\ inherited' \subseteq Id /\ renewed' = renewed
    BY <1>0, <1>17 DEF Crash, RowDropped
  <2> QED BY <1>0, <1>17, <2>1, <2>2 DEF Crash
<1>18. CASE Start
  <2>1. rows' \subseteq [at : Time, id : Id, total : Nat]
    BY <1>18, RollupTyped DEF Start
  <2>2. calc' \in [Key -> Calc]
    <3>1. ASSUME NEW k \in Key PROVE LoadedCalc(peerId[k]) \in Calc
      <4>1. LastTotal(peerId[k], NoLimit) \in Nat
        <5>1. rows \in SUBSET Row
          BY <1>0 DEF Row
        <5>2. LastOf(rows, peerId[k], NoLimit) \in Nat
          BY <5>1, LastOfIs
        <5> QED BY <5>2 DEF LastTotal, LastOf
      <4> QED BY <4>1 DEF LoadedCalc, MakeTotalStatsCalc, Calc
    <3> QED BY <1>18, <3>1, NewCalcIs DEF Start
  <2>3. wgPeers' \subseteq Key /\ bytes' \in [Key -> 0..MaxBytes]
    BY <1>0, <1>18 DEF Start, Registered, Cleared
  <2> QED BY <1>0, <1>18, <2>1, <2>2, <2>3 DEF Start
<1>19. CASE UNCHANGED vars
  BY <1>0, <1>19 DEF vars
<1> QED
  BY <1>2, <1>3, <1>4, <1>5, <1>6, <1>7, <1>8, <1>9, <1>10, <1>11, <1>12, <1>13, <1>14,
     <1>15, <1>16, <1>17, <1>18, <1>19
  DEF Step

\* So they hold in every state.
LEMMA TypeInvariant == Spec => []TypeInv
BY TypeInit, TypeStep, PTL DEF Spec

\* Every variable has its type, whatever is called and fails.
THEOREM TrafficTyped == Spec => []TypeOK
BY TypeInvariant, PTL DEF TypeInv

-----------------------------------------------------------------------------
(* Row ids and timestamps                                                  *)

\* Row ids are not used twice: of two keys at most one has a row, or an entry of the
\* cache, for it.
IdInv ==
  /\ \A k \in Key : peerId[k] < nextPeer /\ cache[k] < nextPeer
  /\ \A r \in rows : r.id < nextPeer
  /\ \A j, k \in Key : j # k =>
       /\ peerId[j] # 0 => peerId[j] # peerId[k]
       /\ cache[j] # 0 => cache[j] # cache[k]

\* Nothing was booked before the first collection.
OriginInv == \A r \in rows : r.at = 0 => r.total = 0

\* As long as the clock has not been set back, a dump is younger than every row, until
\* it is written, and younger than what a rollup replaces; a dump that a deadlock keeps
\* from being written grows old, but the rollup waits, too.
OrderInv ==
  ~stepped =>
    /\ \A r \in rows : r.at <= clock /\ (ticked => r.at < clock)
    /\ collector # "idle" =>
         /\ at <= clock /\ (ticked => at < clock) /\ \A r \in rows : r.at < at
         /\ ~Deadlocked => clock - at < RollupAfter
    /\ OneRowPerInstant

TimeInv == IdInv /\ OriginInv /\ OrderInv

\* No row and no dump at the start.
LEMMA TimeInit == Init => TimeInv
<1> SUFFICES ASSUME Init PROVE TimeInv
  OBVIOUS
<1>1. rows = {} /\ nextPeer = 1 /\ \A k \in Key : peerId[k] = 0 /\ cache[k] = 0
  BY DEF Init
<1>2. collector = "idle"
  BY DEF Init
<1> QED BY <1>1, <1>2 DEF TimeInv, IdInv, OriginInv, OrderInv, OneRowPerInstant

\* A rollup keeps all this.
LEMMA RolledInOrder ==
  ASSUME TypeInv, TimeInv, ~Deadlocked, rows' = RolledUp(Oldest)
  PROVE  /\ \A r \in rows' : r.id < nextPeer /\ (r.at = 0 => r.total = 0)
         /\ ~stepped =>
              /\ \A r \in rows' : r.at <= clock /\ (ticked => r.at < clock)
              /\ collector # "idle" => \A r \in rows' : r.at < at
              /\ \A r, s \in rows' : r.id = s.id /\ r.at = s.at => r = s
<1>1. rows \in SUBSET Row /\ Oldest \in Time /\ Oldest < clock /\ PeerIds \in SUBSET Id
      /\ clock \in Int /\ at \in Int /\ nextPeer \in Int
  BY OldestIs DEF TypeInv, TypeOK, Row, PeerIds, Time
<1>2. rows' = Rolled(rows, Oldest, PeerIds)
  BY RolledRows
<1>3. /\ rows' \in SUBSET Row
      /\ \A r \in rows' : \/ r \in rows /\ r.at > Oldest
                          \/ r.at = Oldest /\ r.id \in PeerIds /\ r.total = LastOf(rows, r.id, Oldest)
  BY <1>1, <1>2, RolledIs
<1>4. ASSUME NEW r \in rows' PROVE r.id < nextPeer /\ (r.at = 0 => r.total = 0)
  <2>1. CASE r \in rows
    BY <2>1 DEF TimeInv, IdInv, OriginInv
  <2>2. CASE r.at = Oldest /\ r.id \in PeerIds /\ r.total = LastOf(rows, r.id, Oldest)
    <3>1. r.id < nextPeer
      BY <2>2 DEF PeerIds, TimeInv, IdInv
    <3>2. ASSUME Oldest = 0 PROVE r.total = 0
      <4>1. \A s \in rows : s.at \in Nat
        BY <1>1 DEF Row, Time
      <4>2. \/ r.total = 0
            \/ \E s \in rows : s.at <= Oldest /\ r.total = s.total
        BY <1>1, <2>2, LastOfIs
      <4> QED BY <3>2, <4>1, <4>2 DEF TimeInv, OriginInv
    <3> QED BY <2>2, <3>1, <3>2
  <2> QED BY <1>3, <2>1, <2>2
<1>5. ASSUME ~stepped
      PROVE  /\ \A r \in rows' : r.at <= clock /\ (ticked => r.at < clock)
             /\ collector # "idle" => \A r \in rows' : r.at < at
  <2>1. collector # "idle" => Oldest < at
    BY <1>1, <1>5, RollupAssumption DEF TimeInv, OrderInv, Oldest
  <2> QED BY <1>1, <1>3, <1>5, <2>1 DEF TimeInv, OrderInv, Time
<1>6. ASSUME ~stepped, NEW r \in rows', NEW s \in rows', r.id = s.id, r.at = s.at
      PROVE  r = s
  <2>1. CASE r \in rows /\ s \in rows
    BY <1>6, <2>1 DEF TimeInv, OrderInv, OneRowPerInstant
  <2>2. CASE ~(r \in rows /\ r.at > Oldest) \/ ~(s \in rows /\ s.at > Oldest)
    <3>1. r.at = Oldest /\ s.at = Oldest
      BY <1>3, <1>6, <2>2
    <3>2. r.total = LastOf(rows, r.id, Oldest) /\ s.total = LastOf(rows, s.id, Oldest)
      BY <1>1, <1>3, <3>1 DEF Time
    <3> QED BY <1>3, <1>6, <3>2 DEF Row
  <2> QED BY <1>3, <1>6, <2>1, <2>2
<1> QED BY <1>4, <1>5, <1>6

\* Only the death of the process ends the deadlock.
LEMMA DeadlockStays ==
  ASSUME [Step]_vars, Deadlocked PROVE Deadlocked' \/ (Crash /\ collector' = "idle")
<1> USE DEF Deadlocked, collectorVars, handlerVars
<1>1. collector = "locked" /\ ~CacheFree /\ ~Free
  BY DEF CacheFree, Free
<1>2. ASSUME NEW k \in Key, AddFails(k) PROVE Deadlocked'
  BY <1>1, <1>2, KeyAssumption DEF AddFails
<1>3. ASSUME NEW k \in Key,
             \/ Transfer(k) \/ AddPut(k) \/ AddCommit(k) \/ Refuse(k) \/ RollBack(k)
             \/ DeletePeer(k) \/ UpdateReset(k) \/ UpdatePut(k)
      PROVE  Deadlocked'
  BY <1>1, <1>3
  DEF Transfer, AddPut, AddCommit, Refuse, RollBack, DeletePeer, UpdateReset, UpdatePut
<1>4. CASE Tick \/ StepBack \/ CollectDump \/ CollectLock \/ CollectWrite \/ Rollup \/ Start
  BY <1>1, <1>4 DEF Tick, StepBack, CollectDump, CollectLock, CollectWrite, Rollup, Start
<1>5. CASE Crash
  BY <1>5 DEF Crash
<1>6. CASE UNCHANGED vars
  BY <1>1, <1>6 DEF vars
<1> QED BY <1>2, <1>3, <1>4, <1>5, <1>6 DEF Step

\* A step that leaves tables, cache, dump and clock alone.
LEMMA TimeUntouched ==
  ASSUME TimeInv, Deadlocked => Deadlocked', collector' # "idle" => collector # "idle",
         UNCHANGED <<clock, stepped, ticked, peerId, nextPeer, rows, cache, at>>
  PROVE  TimeInv'
BY DEF TimeInv, IdInv, OriginInv, OrderInv, OneRowPerInstant

\* What the collector writes: a row for each of several peers at the time of its dump.
LEMMA WriteInOrder ==
  ASSUME TypeInv, TimeInv, CollectWrite
  PROVE  TimeInv'
<1>1. PICK written \in SUBSET Known :
        rows' = rows \cup { [at |-> at, id |-> cache[k],
                             total |-> Total(calc[k], StatOf(snap[k])).tx] : k \in written }
  BY DEF CollectWrite, Succeeding
<1>2. /\ collector = "locked" /\ collector' = "idle" /\ at \in Time /\ at >= RollupAfter
      /\ UNCHANGED <<clock, stepped, ticked, peerId, nextPeer, cache>>
  BY DEF CollectWrite, TypeInv, TypeOK, timeVars, cacheVars
<1>3. ASSUME NEW r \in rows'
      PROVE  \/ r \in rows
             \/ \E k \in Known : r = [at |-> at, id |-> cache[k],
                                      total |-> Total(calc[k], StatOf(snap[k])).tx]
  BY <1>1
<1>4. ASSUME NEW r \in rows', r \notin rows
      PROVE  r.at = at /\ r.id < nextPeer /\ r.at # 0
  BY <1>2, <1>3, <1>4, RollupAssumption DEF TimeInv, IdInv, Known, Time
<1>5. IdInv' /\ OriginInv'
  BY <1>2, <1>4 DEF TimeInv, IdInv, OriginInv
<1>6. ASSUME ~stepped PROVE \A r \in rows' : r.at <= clock /\ (ticked => r.at < clock)
  BY <1>2, <1>4, <1>6 DEF TimeInv, OrderInv
<1>7. ASSUME ~stepped, NEW r \in rows', NEW s \in rows', r.id = s.id, r.at = s.at
      PROVE  r = s
  <2>1. \A q \in rows : q.at < at
    BY <1>2, <1>7 DEF TimeInv, OrderInv
  <2>2. rows \in SUBSET Row
    BY DEF TypeInv, TypeOK, Row
  <2>3. CASE r \in rows /\ s \in rows
    BY <1>7, <2>3 DEF TimeInv, OrderInv, OneRowPerInstant
  <2>4. CASE r \notin rows /\ s \notin rows
    <3>1. PICK j \in Known : r = [at |-> at, id |-> cache[j],
                                  total |-> Total(calc[j], StatOf(snap[j])).tx]
      BY <1>3, <2>4
    <3>2. PICK k \in Known : s = [at |-> at, id |-> cache[k],
                                  total |-> Total(calc[k], StatOf(snap[k])).tx]
      BY <1>3, <2>4
    <3>3. j = k
      <4>1. j \in Key /\ k \in Key /\ cache[j] # 0 /\ cache[j] = cache[k]
        BY <1>7, <3>1, <3>2 DEF Known
      <4> QED BY <4>1 DEF TimeInv, IdInv
    <3> QED BY <3>1, <3>2, <3>3
  <2>5. CASE r \in rows <=> s \notin rows
    <3>1. r.at # at \/ s.at # at
      BY <1>2, <2>1, <2>2, <2>5 DEF Row, Time
    <3> QED BY <1>2, <1>4, <1>7, <2>1, <2>2, <2>5, <3>1 DEF Row, Time
  <2> QED BY <2>3, <2>4, <2>5
<1>8. OrderInv'
  BY <1>2, <1>6, <1>7 DEF OrderInv, OneRowPerInstant
<1> QED BY <1>5, <1>8 DEF TimeInv

\* Every step keeps row ids unique and timestamps in order.
LEMMA TimeStep == TypeInv /\ TimeInv /\ [Step]_vars => TimeInv'
<1> SUFFICES ASSUME TypeInv, TimeInv, [Step]_vars PROVE TimeInv'
  OBVIOUS
<1> USE DEF timeVars, dbVars, wgVars, history, cacheVars, collectorVars, handlerVars
<1>0. /\ clock \in Time /\ clock >= RollupAfter /\ nextPeer \in 1..MaxPeerId + 1
      /\ peerId \in [Key -> Id \cup {0}] /\ cache \in [Key -> Id \cup {0}]
      /\ rows \in SUBSET Row /\ at \in Time
      /\ Deadlocked /\ collector' # "idle" => Deadlocked'
  BY DeadlockStays DEF TypeInv, TypeOK, Row
<1>1. ASSUME NEW k \in Key,
             \/ Transfer(k) \/ AddPut(k) \/ AddFails(k) \/ Refuse(k)
             \/ UpdateReset(k) \/ UpdatePut(k)
      PROVE  TimeInv'
  <2>1. UNCHANGED <<clock, stepped, ticked, peerId, nextPeer, rows, cache, at, collector>>
    BY <1>1 DEF Transfer, AddPut, AddFails, Refuse, UpdateReset, UpdatePut
  <2>2. Deadlocked => collector # "idle"
    BY DEF Deadlocked
  <2> QED BY <1>0, <2>1, <2>2, TimeUntouched
<1>2. ASSUME NEW k \in Key, AddCommit(k) PROVE TimeInv'
  <2>1. /\ peerId' = [peerId EXCEPT ![k] = nextPeer] /\ cache' = [cache EXCEPT ![k] = nextPeer]
        /\ nextPeer' = nextPeer + 1
        /\ UNCHANGED <<clock, stepped, ticked, rows, at, collector>> /\ ~Deadlocked
    BY <1>2 DEF AddCommit, CacheFree, Deadlocked
  <2>2. IdInv'
    BY <1>0, <2>1, BoundAssumption DEF TimeInv, IdInv, Row, Id
  <2>3. OriginInv' /\ OrderInv'
    BY <2>1 DEF TimeInv, OriginInv, OrderInv, OneRowPerInstant
  <2> QED BY <2>2, <2>3 DEF TimeInv
<1>3. ASSUME NEW k \in Key, RollBack(k) PROVE TimeInv'
  <2>1. cache' = [cache EXCEPT ![k] = 0] /\ ~Deadlocked
        /\ UNCHANGED <<clock, stepped, ticked, peerId, nextPeer, rows, at, collector>>
    BY <1>3 DEF RollBack, CacheFree, Deadlocked
  <2>2. IdInv'
    BY <1>0, <2>1 DEF TimeInv, IdInv
  <2>3. OriginInv' /\ OrderInv'
    BY <2>1 DEF TimeInv, OriginInv, OrderInv, OneRowPerInstant
  <2> QED BY <2>2, <2>3 DEF TimeInv
<1>4. ASSUME NEW k \in Key, DeletePeer(k) PROVE TimeInv'
  <2>1. peerId' = [peerId EXCEPT ![k] = 0]
        /\ UNCHANGED <<clock, stepped, ticked, nextPeer, rows, cache, at, collector>> /\ ~Deadlocked
    BY <1>4 DEF DeletePeer, Free, Deadlocked
  <2>2. IdInv'
    <3>1. 0 < nextPeer /\ \A j \in Key : peerId'[j] = IF j = k THEN 0 ELSE peerId[j]
      BY <1>0, <2>1, BoundAssumption
    <3> QED BY <2>1, <3>1 DEF TimeInv, IdInv
  <2>3. OriginInv' /\ OrderInv'
    BY <2>1 DEF TimeInv, OriginInv, OrderInv, OneRowPerInstant
  <2> QED BY <2>2, <2>3 DEF TimeInv
<1>5. CASE Tick
  <2>1. /\ clock' = clock + 1
        /\ collector # "idle" /\ ~Deadlocked => clock' - at < RollupAfter
        /\ UNCHANGED <<stepped, peerId, nextPeer, rows, cache, at, collector>>
        /\ Deadlocked' <=> Deadlocked
    BY <1>0, <1>5 DEF Tick, Time, Deadlocked
  <2>2. OrderInv'
    BY <1>0, <2>1, RollupAssumption DEF TimeInv, OrderInv, OneRowPerInstant, Row, Time
  <2> QED BY <2>1, <2>2 DEF TimeInv, IdInv, OriginInv
<1>6. CASE StepBack
  <2>1. stepped' = TRUE /\ UNCHANGED <<peerId, nextPeer, rows, cache>>
    BY <1>6 DEF StepBack
  <2> QED BY <2>1 DEF TimeInv, IdInv, OriginInv, OrderInv
<1>7. CASE CollectDump
  <2>1. /\ ticked /\ ticked' = FALSE /\ at' = clock /\ collector' = "dumped"
        /\ UNCHANGED <<clock, stepped, peerId, nextPeer, rows, cache>>
    BY <1>7 DEF CollectDump
  <2>2. OrderInv'
    BY <1>0, <2>1, RollupAssumption DEF TimeInv, OrderInv, OneRowPerInstant, Row, Time
  <2> QED BY <2>1, <2>2 DEF TimeInv, IdInv, OriginInv
<1>8. CASE CollectLock
  <2>1. UNCHANGED <<clock, stepped, ticked, peerId, nextPeer, rows, cache, at>>
        /\ collector = "dumped" /\ ~Deadlocked
    BY <1>8 DEF CollectLock, Deadlocked
  <2> QED BY <2>1, TimeUntouched
<1>9. CASE CollectWrite
  BY <1>9, WriteInOrder
<1>10. CASE Rollup
  <2>1. rows' = RolledUp(Oldest)
        /\ UNCHANGED <<clock, stepped, ticked, peerId, nextPeer, cache, at, collector>>
        /\ ~Deadlocked
    BY <1>10 DEF Rollup, Free, Deadlocked
  <2> QED BY <2>1, RolledInOrder DEF TimeInv, IdInv, OriginInv, OrderInv, OneRowPerInstant
<1>11. CASE Crash
  <2>1. collector' = "idle" /\ ticked' = FALSE /\ cache' = [k \in Key |-> 0]
        /\ UNCHANGED <<clock, stepped, peerId, nextPeer, rows>>
    BY <1>11 DEF Crash
  <2> QED BY <1>0, <2>1 DEF TimeInv, IdInv, OriginInv, OrderInv, OneRowPerInstant
<1>12. CASE Start
  <2>1. rows' = RolledUp(Oldest) /\ cache' = peerId /\ collector = "idle" /\ ~Deadlocked
        /\ UNCHANGED <<clock, stepped, ticked, peerId, nextPeer, at, collector>>
    BY <1>12 DEF Start, TypeInv, Deadlocked
  <2> QED BY <2>1, RolledInOrder DEF TimeInv, IdInv, OriginInv, OrderInv, OneRowPerInstant
<1>13. CASE UNCHANGED vars
  BY <1>13, TimeUntouched DEF vars, Deadlocked
<1> QED
  BY <1>1, <1>2, <1>3, <1>4, <1>5, <1>6, <1>7, <1>8, <1>9, <1>10, <1>11, <1>12, <1>13
  DEF Step

\* So they are in every state.
LEMMA TimeInvariant == Spec => [](TypeInv /\ TimeInv)
<1>1. Init => TypeInv /\ TimeInv
  BY TypeInit, TimeInit
<1>2. TypeInv /\ TimeInv /\ [Step]_vars => TypeInv' /\ TimeInv'
  BY TypeStep, TimeStep
<1> QED BY <1>1, <1>2, PTL DEF Spec

\* Only the fault "clock" sets the clock back.
LEMMA SteadyInvariant ==
  ASSUME "clock" \notin Faults PROVE Spec => []~stepped
<1>1. Init => ~stepped
  BY DEF Init
<1>2. ~stepped /\ [Step]_vars => ~stepped'
  BY DEF Step, Transfer, AddPut, AddCommit, AddFails, Refuse, RollBack, DeletePeer, UpdateReset,
         UpdatePut, Tick, StepBack, CollectDump, CollectLock, CollectWrite, Rollup, Crash, Start,
         vars, timeVars
<1> QED BY <1>1, <1>2, PTL DEF Spec

\* No two rows of a peer have one timestamp, so the last row is one row, as long as the
\* wall clock is not set back.
THEOREM LastRowUnique ==
  ASSUME "clock" \notin Faults PROVE Spec => []OneRowPerInstant
<1>1. TypeInv /\ TimeInv /\ ~stepped => OneRowPerInstant
  BY DEF TimeInv, OrderInv
<1> QED BY <1>1, TimeInvariant, SteadyInvariant, PTL

-----------------------------------------------------------------------------
(* The rollup                                                              *)

Unique(table) == \A r, s \in table : r.id = s.id /\ r.at = s.at => r = s

\* A rollup keeps the last total of a peer at every time from `oldest' on.
LEMMA RolledKeepsLast ==
  ASSUME NEW table \in SUBSET Row, Unique(table), NEW oldest \in Time, NEW ids \in SUBSET Id,
         NEW i \in ids, NEW until \in Int, until >= oldest
  PROVE  LastOf(Rolled(table, oldest, ids), i, until) = LastOf(table, i, until)
<1> DEFINE new == Rolled(table, oldest, ids)
           own == [at |-> oldest, id |-> i, total |-> LastOf(table, i, oldest)]
<1>1. /\ new \in SUBSET Row
      /\ \A r \in new : \/ r \in table /\ r.at > oldest
                        \/ r.at = oldest /\ r.id \in ids /\ r.total = LastOf(table, r.id, oldest)
      /\ \A r \in table : r.at > oldest => r \in new
      /\ own \in new
  <2>1. (\A r \in table : r.at > oldest => r \in new) /\ own \in new
    BY DEF Rolled
  <2> HIDE DEF new
  <2> QED BY <2>1, RolledIs DEF new
<1> SUFFICES LastOf(new, i, until) = LastOf(table, i, until)
  OBVIOUS
<1> HIDE DEF new
<1>2. \A r \in table : r.at \in Int
  BY DEF Row, Time
<1>3. oldest \in Int /\ \A r \in new : r.at \in Int
  BY <1>1 DEF Row, Time
<1>4. PICK r \in new :
        /\ r.id = i /\ r.at <= until /\ LastOf(new, i, until) = r.total
        /\ \A s \in new : s.id = i /\ s.at <= until => s.at <= r.at
  <2>1. own.id = i /\ own.at <= until
    BY <1>3
  <2> HIDE DEF own
  <2> QED BY <1>1, <2>1, LastOfIs
<1>5. CASE r \in table /\ r.at > oldest
  <2>1. PICK s \in table :
          /\ s.id = i /\ s.at <= until /\ LastOf(table, i, until) = s.total
          /\ \A q \in table : q.id = i /\ q.at <= until => q.at <= s.at
    BY <1>4, <1>5, LastOfIs
  <2>2. s.at >= r.at /\ s \in new
    BY <1>1, <1>2, <1>3, <1>4, <1>5, <2>1
  <2>3. s.at = r.at
    BY <1>2, <1>3, <1>4, <2>1, <2>2
  <2> QED BY <1>4, <1>5, <2>1, <2>3 DEF Unique
<1>6. CASE r.at = oldest /\ r.total = LastOf(table, i, oldest)
  <2>1. \A s \in table : s.id = i /\ s.at <= until => s.at <= oldest
    BY <1>1, <1>2, <1>3, <1>4, <1>6
  <2>2. LastOf(table, i, until) = LastOf(table, i, oldest)
    <3>1. CASE \A s \in table : ~(s.id = i /\ s.at <= oldest)
      BY <2>1, <3>1, LastOfIs
    <3>2. CASE \E s \in table : s.id = i /\ s.at <= oldest
      <4>1. PICK s \in table :
              /\ s.id = i /\ s.at <= oldest /\ LastOf(table, i, oldest) = s.total
              /\ \A q \in table : q.id = i /\ q.at <= oldest => q.at <= s.at
        BY <3>2, LastOfIs
      <4>2. s.at <= until
        BY <1>2, <1>3, <4>1
      <4>3. PICK q \in table :
              /\ q.id = i /\ q.at <= until /\ LastOf(table, i, until) = q.total
              /\ \A t \in table : t.id = i /\ t.at <= until => t.at <= q.at
        BY <4>1, <4>2, LastOfIs
      <4>4. s.at = q.at
        BY <1>2, <2>1, <4>1, <4>2, <4>3
      <4> QED BY <4>1, <4>3, <4>4 DEF Unique
    <3> QED BY <3>1, <3>2
  <2> QED BY <1>4, <1>6, <2>2
<1> QED BY <1>1, <1>4, <1>5, <1>6

\* Before the first collection there is nothing, also after a rollup.
LEMMA NothingBefore ==
  ASSUME NEW table \in SUBSET Row, \A r \in table : r.at = 0 => r.total = 0,
         NEW i, NEW until \in Int, until <= 0
  PROVE  LastOf(table, i, until) = 0
<1>1. \A r \in table : r.at \in Nat
  BY DEF Row, Time
<1>2. \A r \in table : r.at <= until => r.at = 0
  BY <1>1
<1> QED BY <1>2, LastOfIs

\* A rollup changes no answer about a window that begins behind the rows it replaces.
THEOREM AnswersOutliveRollups ==
  ASSUME "clock" \notin Faults PROVE Spec => RollupKeepsAnswers
<1> DEFINE Kept ==
      \A k \in Registered : \A w \in Windows :
        rows' # rows /\ collector' = collector /\ (w[1] > Oldest \/ w[1] <= 1)
          /\ (w[2] >= Oldest \/ w[2] = 0)
          => GetPeerStats(peerId[k], w[1], w[2])' = GetPeerStats(peerId[k], w[1], w[2])
<1>1. ASSUME TypeInv, TimeInv, TypeInv', TimeInv', ~stepped, [Step]_vars PROVE [Kept]_vars
  <2> SUFFICES ASSUME Step, NEW k \in Registered, NEW w \in Windows,
                      rows' # rows, collector' = collector, w[1] > Oldest \/ w[1] <= 1,
                      w[2] >= Oldest \/ w[2] = 0
               PROVE  GetPeerStats(peerId[k], w[1], w[2])' = GetPeerStats(peerId[k], w[1], w[2])
    BY <1>1
  <2>1. rows' = RolledUp(Oldest) /\ peerId' = peerId
    <3>1. CASE Rollup
      BY <3>1 DEF Rollup
    <3>2. CASE Start
      BY <3>2 DEF Start
    <3>3. CASE CollectWrite
      BY <3>3 DEF CollectWrite
    <3>4. CASE UNCHANGED rows
      BY <3>4
    <3> QED
      BY <3>1, <3>2, <3>3, <3>4
      DEF Step, Transfer, AddPut, AddCommit, AddFails, Refuse, RollBack, DeletePeer, UpdateReset,
          UpdatePut, Tick, StepBack, CollectDump, CollectLock, Crash, dbVars
  <2>2. PICK i : i = peerId[k]
    OBVIOUS
  <2>3. i \in PeerIds /\ PeerIds \in SUBSET Id /\ rows \in SUBSET Row /\ Unique(rows)
        /\ Oldest \in Time
    BY <1>1, <2>2, OldestIs
    DEF Registered, PeerIds, TypeInv, TypeOK, Row, TimeInv, OrderInv, OneRowPerInstant, Unique
  <2>4. rows' = Rolled(rows, Oldest, PeerIds) /\ rows' \in SUBSET Row
    BY <2>1, <2>3, RolledRows, RolledIs
  <2>5. w[1] \in 0..MaxClock /\ w[2] \in 0..MaxClock /\ Oldest \in 0..MaxClock
    BY <2>3 DEF Windows, Time
  <2>6. ASSUME NEW until \in Int, until >= Oldest \/ until <= 0
        PROVE  LastOf(rows', i, until) = LastOf(rows, i, until)
    <3>1. CASE until >= Oldest
      BY <2>3, <2>4, <3>1, RolledKeepsLast
    <3>2. CASE until <= 0
      <4>1. LastOf(rows, i, until) = 0
        BY <1>1, <2>3, <3>2, NothingBefore DEF TimeInv, OriginInv
      <4>2. LastOf(rows', i, until) = 0
        BY <1>1, <2>4, <3>2, NothingBefore DEF TimeInv, OriginInv
      <4> QED BY <4>1, <4>2
    <3> QED BY <2>6, <3>1, <3>2
  <2> DEFINE last == IF w[2] = 0 THEN NoLimit ELSE w[2]
  <2>7. LastOf(rows', i, last) = LastOf(rows, i, last)
    <3>1. last \in Int /\ last >= Oldest
      BY <2>5, RollupAssumption DEF NoLimit
    <3> HIDE DEF last
    <3> QED BY <2>6, <3>1
  <2>8. LastOf(rows', i, w[1] - 1) = LastOf(rows, i, w[1] - 1)
    <3>1. w[1] - 1 \in Int /\ (w[1] - 1 >= Oldest \/ w[1] - 1 <= 0)
      BY <2>5
    <3> QED BY <2>6, <3>1
  <2>9. /\ GetPeerStats(i, w[1], w[2]) = LastOf(rows, i, last) - LastOf(rows, i, w[1] - 1)
        /\ GetPeerStats(i, w[1], w[2])' = LastOf(rows', i, last) - LastOf(rows', i, w[1] - 1)
    BY DEF GetPeerStats, LastTotal, LastOf
  <2>10. /\ GetPeerStats(peerId[k], w[1], w[2]) = GetPeerStats(i, w[1], w[2])
         /\ GetPeerStats(peerId[k], w[1], w[2])' = GetPeerStats(i, w[1], w[2])'
    BY <2>1, <2>2 DEF GetPeerStats, LastTotal
  <2> QED BY <2>7, <2>8, <2>9, <2>10
<1> QED BY <1>1, TimeInvariant, SteadyInvariant, PTL DEF Spec, RollupKeepsAnswers

-----------------------------------------------------------------------------
(* The books                                                               *)

\* The cache has no other row for a peer than the table, and the peer that a POST has put
\* has no row yet.
CacheInv ==
  /\ \A k \in Key : /\ cache[k] \in {0, peerId[k]}
                    /\ updating = k => peerId[k] # 0
                    /\ adding = k => peerId[k] = 0 /\ k \in wgPeers
  /\ collector = "idle" => \A k \in Key : snap[k] = Absent

\* What is not in the interface has no counter, and without a row it is in no dump.
NothingLeft ==
  \A k \in Key : k \notin wgPeers => bytes[k] = 0 /\ (RowOf(k) = 0 => snap[k] = Absent)

PeersInv == CacheInv /\ NothingLeft

\* A row that its POST has not given to a peer left in the interface.
Own(i) == i # 0 /\ i \notin inherited

\* No row, no calculator with what it is about to be given and no dump is ahead of what
\* the kernel has carried.
BooksInv ==
  /\ \A r \in rows : Own(r.id) => r.total <= carried[r.id]
  /\ \A k \in Key :
       /\ Own(RowOf(k)) => bytes[k] <= carried[RowOf(k)] /\ snap[k] <= carried[RowOf(k)]
       /\ Own(cache[k]) =>
            /\ calc[k].prevTx + bytes[k] <= carried[cache[k]]
            /\ calc[k].prevTx + snap[k] <= carried[cache[k]]
  /\ HandshakeShown

\* No peer at the start.
LEMMA PeersInit == Init => PeersInv
<1> SUFFICES ASSUME Init PROVE PeersInv
  OBVIOUS
<1>1. ASSUME NEW k \in Key PROVE cache[k] = 0 /\ bytes[k] = 0 /\ snap[k] = Absent /\ k # 0
  BY KeyAssumption DEF Init
<1>2. wgPeers = {} /\ adding = 0 /\ updating = 0
  BY DEF Init
<1> QED BY <1>1, <1>2 DEF PeersInv, CacheInv, NothingLeft

\* Without DELETE, every step keeps the cache to the rows of table peers.
LEMMA CacheStep ==
  ASSUME "delete" \notin Ops PROVE TypeInv /\ CacheInv /\ [Step]_vars => CacheInv'
<1> SUFFICES ASSUME TypeInv, CacheInv, [Step]_vars PROVE CacheInv'
  OBVIOUS
<1> USE DEF timeVars, dbVars, wgVars, history, cacheVars, collectorVars, handlerVars
<1>0. /\ peerId \in [Key -> Id \cup {0}] /\ cache \in [Key -> Id \cup {0}] /\ nextPeer # 0
      /\ \A k \in Key : k # 0
  BY BoundAssumption, KeyAssumption DEF TypeInv, TypeOK
<1>1. ASSUME NEW k \in Key, Transfer(k) \/ UpdatePut(k) PROVE CacheInv'
  <2>1. /\ UNCHANGED <<cache, peerId, snap, collector, adding>> /\ wgPeers \subseteq wgPeers'
        /\ updating' \in {0, updating}
    BY <1>1 DEF Transfer, UpdatePut
  <2> QED BY <1>0, <2>1 DEF CacheInv
<1>2. ASSUME NEW k \in Key, UpdateReset(k) PROVE CacheInv'
  <2>1. /\ UNCHANGED <<cache, peerId, snap, collector, adding>> /\ adding = 0
        /\ peerId[k] # 0 /\ updating' \in {0, k}
    BY <1>2 DEF UpdateReset, Free
  <2> QED BY <1>0, <2>1 DEF CacheInv
<1>3. ASSUME NEW k \in Key, AddPut(k) PROVE CacheInv'
  <2>1. /\ UNCHANGED <<cache, peerId, snap, collector, updating>>
        /\ peerId[k] = 0 /\ adding' = k /\ k \in wgPeers'
    BY <1>3 DEF AddPut
  <2> QED BY <1>0, <2>1 DEF CacheInv
<1>4. ASSUME NEW k \in Key, AddCommit(k) PROVE CacheInv'
  <2>1. /\ peerId' = [peerId EXCEPT ![k] = nextPeer] /\ cache' = [cache EXCEPT ![k] = nextPeer]
        /\ adding' = 0 /\ UNCHANGED <<snap, updating, collector>>
    BY <1>4 DEF AddCommit
  <2> QED BY <1>0, <2>1 DEF CacheInv
<1>5. ASSUME NEW k \in Key, AddFails(k) \/ Refuse(k) \/ RollBack(k) PROVE CacheInv'
  <2>1. /\ \A j \in Key : cache'[j] \in {0, cache[j]}
        /\ UNCHANGED <<peerId, snap, updating, collector, wgPeers>> /\ adding' \in {0, adding}
    BY <1>0, <1>5 DEF AddFails, Refuse, RollBack
  <2> QED BY <1>0, <2>1 DEF CacheInv
<1>6. CASE Tick \/ StepBack \/ Rollup
  BY <1>6 DEF CacheInv, Tick, StepBack, Rollup
<1>7. CASE CollectDump \/ CollectLock
  BY <1>7 DEF CollectDump, CollectLock, CacheInv
<1>8. CASE CollectWrite \/ Crash
  <2>1. /\ \A k \in Key : snap'[k] = Absent /\ cache'[k] \in {0, cache[k]}
        /\ UNCHANGED <<peerId, wgPeers>> /\ updating' \in {0, updating} /\ adding' \in {0, adding}
    BY <1>8 DEF CollectWrite, Crash
  <2> QED BY <1>0, <2>1 DEF CacheInv
<1>9. CASE Start
  <2>1. /\ cache' = peerId /\ UNCHANGED <<peerId, snap, collector, adding, updating>>
        /\ wgPeers \subseteq wgPeers'
    BY <1>9 DEF Start
  <2> QED BY <2>1 DEF CacheInv
<1>10. CASE UNCHANGED vars
  BY <1>10 DEF CacheInv, vars
<1> QED
  BY <1>1, <1>2, <1>3, <1>4, <1>5, <1>6, <1>7, <1>8, <1>9, <1>10 DEF Step, DeletePeer

\* ... and what is not in the interface without counters.
LEMMA PeersStep ==
  ASSUME "delete" \notin Ops PROVE TypeInv /\ PeersInv /\ [Step]_vars => PeersInv'
<1> SUFFICES ASSUME TypeInv, PeersInv, [Step]_vars PROVE NothingLeft'
  BY CacheStep DEF PeersInv
<1> USE DEF timeVars, dbVars, wgVars, history, cacheVars, collectorVars, handlerVars, NothingLeft
<1>0. /\ peerId \in [Key -> Id \cup {0}] /\ nextPeer # 0 /\ NothingLeft
      /\ bytes \in [Key -> 0..MaxBytes] /\ \A k \in Key : k # 0
      /\ \A k \in Key : adding = k => k \in wgPeers
  BY BoundAssumption, KeyAssumption DEF TypeInv, TypeOK, PeersInv, CacheInv
<1>1. ASSUME NEW k \in Key, Transfer(k) PROVE NothingLeft'
  <2>1. /\ k \in wgPeers /\ bytes' = [bytes EXCEPT ![k] = @ + 1]
        /\ UNCHANGED <<wgPeers, peerId, nextPeer, adding, snap>>
    BY <1>1 DEF Transfer
  <2> QED BY <1>0, <2>1 DEF RowOf
<1>2. ASSUME NEW k \in Key, AddPut(k) PROVE NothingLeft'
  <2>1. /\ wgPeers' = wgPeers \cup {k} /\ adding = 0 /\ adding' = k
        /\ UNCHANGED <<bytes, snap, peerId, nextPeer>>
    BY <1>2 DEF AddPut, Free
  <2> QED BY <1>0, <2>1 DEF RowOf
<1>3. ASSUME NEW k \in Key, AddCommit(k) \/ AddFails(k) PROVE NothingLeft'
  <2>1. /\ adding = k /\ adding' = 0 /\ UNCHANGED <<wgPeers, bytes, snap>>
        /\ \A j \in Key : j # k => peerId'[j] = peerId[j]
    BY <1>0, <1>3 DEF AddCommit, AddFails
  <2> QED BY <1>0, <2>1 DEF RowOf
<1>4. ASSUME NEW k \in Key, Refuse(k) \/ RollBack(k) PROVE NothingLeft'
  BY <1>0, <1>4 DEF Refuse, RollBack, RowOf
<1>5. ASSUME NEW k \in Key, UpdateReset(k) PROVE NothingLeft'
  <2>1. /\ wgPeers' = wgPeers \ {k} /\ peerId[k] # 0 /\ adding = 0 /\ adding' = 0
        /\ UNCHANGED <<peerId, nextPeer, snap>>
        /\ \A j \in Key : bytes'[j] = IF j = k THEN 0 ELSE bytes[j]
    BY <1>5 DEF UpdateReset, Cleared, Free
  <2> QED BY <1>0, <2>1 DEF RowOf
<1>6. ASSUME NEW k \in Key, UpdatePut(k) PROVE NothingLeft'
  <2>1. wgPeers \subseteq wgPeers' /\ UNCHANGED <<peerId, nextPeer, adding, bytes, snap>>
    BY <1>6 DEF UpdatePut
  <2> QED BY <1>0, <2>1 DEF RowOf
<1>7. CASE Tick \/ StepBack \/ Rollup \/ CollectLock
  BY <1>0, <1>7 DEF Tick, StepBack, Rollup, CollectLock, RowOf
<1>8. CASE CollectDump \/ CollectWrite \/ Crash
  <2>1. /\ \A k \in Key : snap'[k] = Absent \/ k \in wgPeers
        /\ UNCHANGED <<wgPeers, bytes>>
    BY <1>8 DEF CollectDump, CollectWrite, Crash
  <2> QED BY <1>0, <2>1
<1>9. CASE Start
  <2>1. /\ wgPeers' = wgPeers \cup Registered /\ UNCHANGED <<peerId, nextPeer, adding, snap>>
        /\ \A k \in Key : bytes'[k] = IF k \in Registered THEN 0 ELSE bytes[k]
    BY <1>9 DEF Start, Cleared, Removed
  <2> QED BY <1>0, <2>1 DEF Registered, RowOf
<1>10. CASE UNCHANGED vars
  BY <1>0, <1>10 DEF vars, RowOf
<1> QED
  BY <1>1, <1>2, <1>3, <1>4, <1>5, <1>6, <1>7, <1>8, <1>9, <1>10 DEF Step, DeletePeer

\* What the collector books for the peers of its dump.
LEMMA BookedIs ==
  ASSUME TypeInv, NEW k \in Known
  PROVE  /\ k \in Key /\ cache[k] \in Id /\ snap[k] \in Nat /\ calc[k].prevTx \in Nat
         /\ Total(calc[k], StatOf(snap[k])).tx = calc[k].prevTx + snap[k]
<1>1. k \in Key /\ cache[k] \in Id /\ snap[k] \in Nat /\ calc[k] \in Calc
  BY DEF Known, TypeInv, TypeOK, Absent
<1> QED BY <1>1, TotalIs DEF Calc

\* A row of a rolled up table has the total of a row of its peer that is not younger, or
\* none.
LEMMA RolledTotals ==
  ASSUME TypeInv, rows' = RolledUp(Oldest), NEW r \in rows'
  PROVE  /\ r.id \in Id /\ r.at \in Int
         /\ \/ r.total = 0
            \/ \E s \in rows : s.id = r.id /\ s.at <= r.at /\ r.total = s.total
<1>1. rows \in SUBSET Row /\ Oldest \in Time /\ PeerIds \in SUBSET Id
  BY OldestIs DEF TypeInv, TypeOK, Row, PeerIds
<1>2. /\ r \in Row
      /\ \/ r \in rows
         \/ r.at = Oldest /\ r.total = LastOf(rows, r.id, Oldest)
  <2>1. r \in Rolled(rows, Oldest, PeerIds)
    BY RolledRows
  <2> QED BY <1>1, <2>1, RolledIs
<1>3. r.id \in Id /\ r.at \in Int
  BY <1>2 DEF Row, Time
<1>4. CASE r \in rows
  BY <1>3, <1>4
<1>5. CASE r.at = Oldest /\ r.total = LastOf(rows, r.id, Oldest)
  BY <1>1, <1>3, <1>5, LastOfIs
<1> QED BY <1>2, <1>3, <1>4, <1>5

\* No books at the start.
LEMMA BooksInit == Init => BooksInv
<1> SUFFICES ASSUME Init PROVE BooksInv
  OBVIOUS
<1>1. /\ rows = {} /\ adding = 0
      /\ \A k \in Key : peerId[k] = 0 /\ cache[k] = 0 /\ k # 0 /\ shown[k] = "null"
  BY KeyAssumption DEF Init
<1> QED BY <1>1 DEF BooksInv, Own, RowOf, HandshakeShown

\* The numbers the books are made of.
LEMMA BookNumbers ==
  ASSUME TypeInv, PeersInv
  PROVE  /\ \A k \in Key :
              /\ bytes[k] \in Nat /\ snap[k] \in Int /\ calc[k].prevTx \in Nat /\ k # 0
              /\ peerId[k] # 0 => peerId[k] \in Id
              /\ RowOf(k) # 0 => RowOf(k) \in Id
              /\ cache[k] # 0 => cache[k] \in Id /\ cache[k] = peerId[k] /\ cache[k] = RowOf(k)
         /\ \A i \in Id : carried[i] \in Nat /\ i # 0
         /\ rows \in SUBSET Row /\ \A r \in rows : r.id \in Id /\ r.total \in Nat
<1>1. /\ peerId \in [Key -> Id \cup {0}] /\ cache \in [Key -> Id \cup {0}]
      /\ bytes \in [Key -> 0..MaxBytes] /\ carried \in [Id -> 0..MaxBytes]
      /\ snap \in [Key -> 0..MaxBytes \cup {Absent}] /\ calc \in [Key -> Calc]
      /\ rows \in SUBSET Row /\ (adding # 0 => nextPeer \in Id)
  BY BoundAssumption DEF TypeInv, TypeOK, Row, Id
<1>2. ASSUME NEW k \in Key
      PROVE  /\ bytes[k] \in Nat /\ snap[k] \in Int /\ calc[k].prevTx \in Nat /\ k # 0
             /\ peerId[k] # 0 => peerId[k] \in Id
  BY <1>1, BoundAssumption, KeyAssumption DEF Calc, Absent
<1>3. ASSUME NEW k \in Key
      PROVE  /\ RowOf(k) # 0 => RowOf(k) \in Id
             /\ cache[k] # 0 => cache[k] \in Id /\ cache[k] = peerId[k] /\ cache[k] = RowOf(k)
  BY <1>1, <1>2 DEF PeersInv, CacheInv, RowOf
<1>4. \A i \in Id : carried[i] \in Nat /\ i # 0
  BY <1>1, BoundAssumption DEF Id
<1>5. \A r \in rows : r.id \in Id /\ r.total \in Nat
  BY <1>1 DEF Row
<1> QED BY <1>1, <1>2, <1>3, <1>4, <1>5

\* Traffic: what the kernel has carried grows with its counter.
LEMMA BooksTransfer ==
  ASSUME TypeInv, PeersInv, BooksInv, NEW k \in Key, Transfer(k)
  PROVE  BooksInv'
<1>1. /\ \A j \in Key : bytes'[j] = IF j = k THEN bytes[j] + 1 ELSE bytes[j]
      /\ \A i \in Id : carried'[i] = IF RowOf(k) = i THEN carried[i] + 1 ELSE carried[i]
      /\ UNCHANGED <<rows, shown, peerId, nextPeer, adding, cache, calc, snap, inherited>>
  BY DEF Transfer, dbVars, cacheVars, collectorVars, handlerVars, TypeInv, TypeOK
<1>2. \A i \in Id : carried'[i] \in Nat /\ carried'[i] >= carried[i]
  BY <1>1, BookNumbers
<1>3. \A r \in rows' : Own(r.id)' => r.total <= carried'[r.id]
  BY <1>1, <1>2, BookNumbers DEF BooksInv, Own
<1>4. ASSUME NEW j \in Key
      PROVE  /\ Own(RowOf(j))' => bytes'[j] <= carried'[RowOf(j)'] /\ snap'[j] <= carried'[RowOf(j)']
             /\ Own(cache[j])' =>
                  /\ calc'[j].prevTx + bytes'[j] <= carried'[cache'[j]]
                  /\ calc'[j].prevTx + snap'[j] <= carried'[cache'[j]]
  <2>1. /\ bytes[j] \in Int /\ snap[j] \in Int /\ calc[j].prevTx \in Int
        /\ bytes'[j] = IF j = k THEN bytes[j] + 1 ELSE bytes[j]
        /\ RowOf(j)' = RowOf(j) /\ Own(RowOf(j))' = Own(RowOf(j)) /\ Own(cache[j])' = Own(cache[j])
    BY <1>1, BookNumbers DEF RowOf, Own
  <2>2. ASSUME NEW i \in Id, i = RowOf(j)
        PROVE  /\ carried[i] \in Int /\ carried'[i] \in Int /\ carried[i] <= carried'[i]
               /\ j = k => carried'[i] = carried[i] + 1
    BY <1>1, <1>2, <2>2, BookNumbers
  <2>3. CASE Own(RowOf(j))
    <3>1. PICK i \in Id : i = RowOf(j)
      BY <2>3, BookNumbers DEF Own
    <3>2. bytes[j] <= carried[i] /\ snap[j] <= carried[i]
      BY <2>3, <3>1 DEF BooksInv
    <3>3. bytes'[j] <= carried'[i] /\ snap[j] <= carried'[i]
      BY <2>1, <2>2, <3>1, <3>2
    <3>4. CASE cache[j] = 0
      BY <1>1, <2>1, <3>1, <3>3, <3>4 DEF Own
    <3>5. CASE cache[j] # 0
      <4>1. cache[j] = i
        BY <3>1, <3>5, BookNumbers
      <4>2. calc[j].prevTx + bytes[j] <= carried[i] /\ calc[j].prevTx + snap[j] <= carried[i]
        BY <2>3, <3>1, <4>1 DEF BooksInv
      <4> QED BY <1>1, <2>1, <2>2, <3>1, <3>3, <4>1, <4>2
    <3> QED BY <3>4, <3>5
  <2>4. CASE ~Own(RowOf(j))
    <3>1. ~Own(cache[j])
      BY <2>4, BookNumbers DEF Own
    <3> QED BY <2>1, <2>4, <3>1
  <2> QED BY <2>3, <2>4
<1>5. HandshakeShown'
  <2>1. ASSUME NEW j \in Key, shown[j] = "handshake", peerId[j] \notin inherited
        PROVE  carried'[peerId[j]] > 0
    <3>1. peerId[j] \in Id /\ carried[peerId[j]] > 0
      BY <2>1, BookNumbers DEF TypeInv, TypeOK, BooksInv, HandshakeShown
    <3> QED BY <1>2, <3>1, BookNumbers
  <2> QED BY <1>1, <2>1 DEF HandshakeShown
<1> QED BY <1>3, <1>4, <1>5 DEF BooksInv

\* The row that POST is about to insert begins with no traffic, unless the peer was left in
\* the interface.
LEMMA BooksPut ==
  ASSUME TypeInv, PeersInv, BooksInv, NEW k \in Key, AddPut(k)
  PROVE  BooksInv'
<1>1. /\ peerId[k] = 0 /\ adding = 0 /\ adding' = k /\ nextPeer \in Id
      /\ inherited' = IF k \in wgPeers THEN inherited \cup {nextPeer} ELSE inherited
      /\ UNCHANGED <<rows, shown, peerId, nextPeer, bytes, carried, cache, calc, snap>>
  BY BoundAssumption DEF AddPut, Free, dbVars, cacheVars, collectorVars, TypeInv, TypeOK, Id
<1>2. \A i : Own(i)' => Own(i)
  BY <1>1 DEF Own
<1>3. ASSUME NEW j \in Key, Own(RowOf(j))'
      PROVE  bytes'[j] <= carried'[RowOf(j)'] /\ snap'[j] <= carried'[RowOf(j)']
  <2>1. CASE j = k
    <3>1. RowOf(k) = 0 /\ RowOf(j)' = nextPeer /\ k \notin wgPeers
      BY <1>1, <1>3, <2>1, BookNumbers DEF RowOf, Own
    <3>2. bytes[k] = 0 /\ snap[k] = -1
      BY <3>1 DEF PeersInv, NothingLeft, Absent
    <3> QED BY <1>1, <2>1, <3>1, <3>2, BookNumbers
  <2>2. CASE j # k
    <3>1. RowOf(j)' = RowOf(j)
      BY <1>1, <2>2, BookNumbers DEF RowOf
    <3> QED BY <1>1, <1>2, <1>3, <3>1 DEF BooksInv
  <2> QED BY <2>1, <2>2
<1>4. ASSUME NEW j \in Key, Own(cache[j])'
      PROVE  /\ calc'[j].prevTx + bytes'[j] <= carried'[cache'[j]]
             /\ calc'[j].prevTx + snap'[j] <= carried'[cache'[j]]
  <2>1. Own(cache[j])
    BY <1>1, <1>2, <1>4 DEF Own
  <2> QED BY <1>1, <2>1 DEF BooksInv
<1>5. \A r \in rows' : Own(r.id)' => r.total <= carried'[r.id]
  BY <1>1 DEF BooksInv, Own
<1>6. HandshakeShown'
  BY <1>1 DEF BooksInv, HandshakeShown
<1> QED BY <1>3, <1>4, <1>5, <1>6 DEF BooksInv

\* COMMIT makes it the peer's row, with a calculator that has booked nothing.
LEMMA BooksCommit ==
  ASSUME TypeInv, PeersInv, BooksInv, NEW k \in Key, AddCommit(k)
  PROVE  BooksInv'
<1>1. /\ adding = k /\ adding' = 0 /\ peerId[k] = 0 /\ RowOf(k) = nextPeer
      /\ \A j \in Key : /\ peerId'[j] = IF j = k THEN nextPeer ELSE peerId[j]
                        /\ cache'[j] = IF j = k THEN nextPeer ELSE cache[j]
                        /\ j # k => calc'[j] = calc[j]
      /\ calc'[k].prevTx = 0
      /\ UNCHANGED <<rows, shown, bytes, carried, inherited, snap>>
  BY NewCalcIs
  DEF AddCommit, wgVars, history, collectorVars, TypeInv, TypeOK, PeersInv, CacheInv, RowOf
<1>2. \A j \in Key : RowOf(j)' = RowOf(j)
  BY <1>1, BookNumbers DEF RowOf
<1>3. ASSUME NEW j \in Key, Own(cache[j])'
      PROVE  /\ calc'[j].prevTx + bytes'[j] <= carried'[cache'[j]]
             /\ calc'[j].prevTx + snap'[j] <= carried'[cache'[j]]
  <2>1. CASE j = k
    <3>1. cache'[j] = RowOf(j) /\ Own(RowOf(j)) /\ calc'[j].prevTx = 0
      BY <1>1, <1>3, <2>1 DEF Own
    <3>2. bytes[j] <= carried[cache'[j]] /\ snap[j] <= carried[cache'[j]]
      BY <3>1 DEF BooksInv
    <3> QED BY <1>1, <3>1, <3>2, BookNumbers
  <2>2. CASE j # k
    <3>1. cache'[j] = cache[j] /\ calc'[j] = calc[j] /\ Own(cache[j])
      BY <1>1, <1>3, <2>2 DEF Own
    <3> QED BY <1>1, <3>1 DEF BooksInv
  <2> QED BY <2>1, <2>2
<1>4. ASSUME NEW j \in Key, Own(RowOf(j))'
      PROVE  bytes'[j] <= carried'[RowOf(j)'] /\ snap'[j] <= carried'[RowOf(j)']
  BY <1>1, <1>2, <1>4 DEF BooksInv, Own
<1>5. \A r \in rows' : Own(r.id)' => r.total <= carried'[r.id]
  BY <1>1 DEF BooksInv, Own
<1>6. HandshakeShown'
  BY <1>1 DEF BooksInv, HandshakeShown, TypeInv, TypeOK
<1> QED BY <1>3, <1>4, <1>5, <1>6 DEF BooksInv

\* A POST that fails behind its PutPeer, or a process that dies there, takes no row from
\* anybody: the id it would have used has no traffic yet.
LEMMA BooksDropped ==
  ASSUME TypeInv, TimeInv, PeersInv, BooksInv, RowDropped, adding' = 0,
         \A k \in Key : /\ cache'[k] \in {0, cache[k]} /\ (cache'[k] # 0 => calc'[k] = calc[k])
                        /\ snap'[k] \in {Absent, snap[k]},
         UNCHANGED <<rows, shown, peerId, bytes>>
  PROVE  BooksInv'
<1>1. /\ \A i \in Id : i < nextPeer => carried'[i] = carried[i]
      /\ \A i : i < nextPeer /\ Own(i)' => Own(i)
  BY DEF RowDropped, Own
<1>2. \A k \in Key : RowOf(k)' = peerId[k] /\ peerId[k] < nextPeer /\ cache[k] < nextPeer
  BY BookNumbers DEF RowOf, TimeInv, IdInv
<1>3. \A r \in rows' : Own(r.id)' => r.total <= carried'[r.id]
  BY <1>1, BookNumbers DEF BooksInv, TimeInv, IdInv
<1>4. ASSUME NEW k \in Key, Own(RowOf(k))'
      PROVE  bytes'[k] <= carried'[RowOf(k)'] /\ snap'[k] <= carried'[RowOf(k)']
  <2>1. Own(peerId[k]) /\ peerId[k] \in Id /\ carried'[peerId[k]] = carried[peerId[k]]
    BY <1>1, <1>2, <1>4, BookNumbers DEF Own
  <2>2. RowOf(k) = peerId[k]
    BY <2>1 DEF RowOf, Own, PeersInv, CacheInv
  <2>3. bytes[k] <= carried[peerId[k]] /\ snap[k] <= carried[peerId[k]]
    BY <2>1, <2>2 DEF BooksInv
  <2> QED BY <1>2, <2>1, <2>3, BookNumbers DEF Absent
<1>5. ASSUME NEW k \in Key, Own(cache[k])'
      PROVE  /\ calc'[k].prevTx + bytes'[k] <= carried'[cache'[k]]
             /\ calc'[k].prevTx + snap'[k] <= carried'[cache'[k]]
  <2>1. /\ cache'[k] = cache[k] /\ calc'[k] = calc[k] /\ Own(cache[k]) /\ cache[k] \in Id
        /\ carried'[cache[k]] = carried[cache[k]]
    BY <1>1, <1>2, <1>5, BookNumbers DEF Own
  <2>2. calc[k].prevTx + bytes[k] <= carried[cache[k]] /\ calc[k].prevTx + snap[k] <= carried[cache[k]]
    BY <2>1 DEF BooksInv
  <2> QED BY <2>1, <2>2, BookNumbers DEF Absent
<1>6. HandshakeShown'
  <2>1. ASSUME NEW k \in Key, shown[k] = "handshake", peerId[k] \notin inherited'
        PROVE  carried'[peerId[k]] > 0
    <3>1. peerId[k] \in Id /\ peerId[k] \notin inherited
      BY <1>2, <2>1, BookNumbers DEF TypeInv, TypeOK, RowDropped
    <3> QED BY <1>1, <1>2, <2>1, <3>1 DEF BooksInv, HandshakeShown
  <2> QED BY <2>1 DEF HandshakeShown
<1> QED BY <1>3, <1>4, <1>5, <1>6 DEF BooksInv

\* PUT /peers clears a counter.
LEMMA BooksUpdate ==
  ASSUME TypeInv, PeersInv, BooksInv, NEW k \in Key, UpdateReset(k)
  PROVE  BooksInv'
<1>1. /\ \A j \in Key : bytes'[j] = IF j = k THEN 0 ELSE bytes[j]
      /\ UNCHANGED <<rows, shown, peerId, nextPeer, adding, carried, inherited, cache, calc, snap>>
  BY DEF UpdateReset, Cleared, dbVars, cacheVars, collectorVars
<1>2. \A j \in Key : bytes'[j] <= bytes[j] /\ bytes'[j] \in Nat /\ RowOf(j)' = RowOf(j)
  BY <1>1, BookNumbers DEF RowOf
<1>3. ASSUME NEW j \in Key
      PROVE  /\ Own(RowOf(j))' => bytes'[j] <= carried'[RowOf(j)'] /\ snap'[j] <= carried'[RowOf(j)']
             /\ Own(cache[j])' =>
                  /\ calc'[j].prevTx + bytes'[j] <= carried'[cache'[j]]
                  /\ calc'[j].prevTx + snap'[j] <= carried'[cache'[j]]
  <2>1. ASSUME Own(RowOf(j))'
        PROVE  bytes'[j] <= carried'[RowOf(j)'] /\ snap'[j] <= carried'[RowOf(j)']
    BY <1>1, <1>2, <2>1, BookNumbers DEF BooksInv, Own
  <2>2. ASSUME Own(cache[j])'
        PROVE  /\ calc'[j].prevTx + bytes'[j] <= carried'[cache'[j]]
               /\ calc'[j].prevTx + snap'[j] <= carried'[cache'[j]]
    BY <1>1, <1>2, <2>2, BookNumbers DEF BooksInv, Own
  <2> QED BY <2>1, <2>2
<1>4. HandshakeShown'
  BY <1>1 DEF BooksInv, HandshakeShown
<1>5. \A r \in rows' : Own(r.id)' => r.total <= carried'[r.id]
  BY <1>1 DEF BooksInv, Own
<1> QED BY <1>3, <1>4, <1>5 DEF BooksInv

\* A dump is what the kernel has counted.
LEMMA BooksDump ==
  ASSUME TypeInv, PeersInv, BooksInv, CollectDump
  PROVE  BooksInv'
<1>1. /\ snap' = [k \in Key |-> IF k \in wgPeers THEN bytes[k] ELSE Absent]
      /\ UNCHANGED <<rows, shown, peerId, nextPeer, adding, bytes, carried, inherited, cache, calc>>
  BY DEF CollectDump, dbVars, wgVars, history, cacheVars, handlerVars
<1>2. \A k \in Key : snap'[k] \in Int /\ snap'[k] <= bytes[k] /\ RowOf(k)' = RowOf(k)
  BY <1>1, BookNumbers DEF Absent, RowOf
<1>3. ASSUME NEW k \in Key
      PROVE  /\ Own(RowOf(k))' => bytes'[k] <= carried'[RowOf(k)'] /\ snap'[k] <= carried'[RowOf(k)']
             /\ Own(cache[k])' =>
                  /\ calc'[k].prevTx + bytes'[k] <= carried'[cache'[k]]
                  /\ calc'[k].prevTx + snap'[k] <= carried'[cache'[k]]
  <2>1. ASSUME Own(RowOf(k))'
        PROVE  bytes'[k] <= carried'[RowOf(k)'] /\ snap'[k] <= carried'[RowOf(k)']
    BY <1>1, <1>2, <2>1, BookNumbers DEF BooksInv, Own
  <2>2. ASSUME Own(cache[k])'
        PROVE  /\ calc'[k].prevTx + bytes'[k] <= carried'[cache'[k]]
               /\ calc'[k].prevTx + snap'[k] <= carried'[cache'[k]]
    BY <1>1, <1>2, <2>2, BookNumbers DEF BooksInv, Own
  <2> QED BY <2>1, <2>2
<1>4. HandshakeShown'
  BY <1>1 DEF BooksInv, HandshakeShown
<1>5. \A r \in rows' : Own(r.id)' => r.total <= carried'[r.id]
  BY <1>1 DEF BooksInv, Own
<1> QED BY <1>3, <1>4, <1>5 DEF BooksInv

\* The collector books no more than the kernel had carried when it was dumped, and to
\* the row the dump was read for.
LEMMA BooksWrite ==
  ASSUME TypeInv, TimeInv, PeersInv, BooksInv, CollectWrite
  PROVE  BooksInv'
<1>1. PICK written \in SUBSET Known, updated \in SUBSET Known :
        /\ rows' = rows \cup { [at |-> at, id |-> cache[k],
                                total |-> Total(calc[k], StatOf(snap[k])).tx] : k \in written }
        /\ shown' = ShownAfter(updated)
  BY DEF CollectWrite, Succeeding
<1>2. /\ \A k \in Key : snap'[k] = -1
      /\ UNCHANGED <<peerId, nextPeer, adding, bytes, carried, inherited, cache, calc>>
  BY DEF CollectWrite, wgVars, history, cacheVars, handlerVars, Absent
<1>3. ASSUME NEW r \in rows', Own(r.id)' PROVE r.total <= carried'[r.id]
  <2>1. CASE r \in rows
    BY <1>2, <1>3, <2>1 DEF BooksInv, Own
  <2>2. ASSUME NEW k \in Known,
               r = [at |-> at, id |-> cache[k], total |-> Total(calc[k], StatOf(snap[k])).tx]
        PROVE  r.total <= carried'[r.id]
    <3>1. k \in Key /\ Own(cache[k]) /\ r.id = cache[k] /\ r.total = calc[k].prevTx + snap[k]
      BY <1>2, <1>3, <2>2, BookedIs DEF Known, Own
    <3> QED BY <1>2, <3>1 DEF BooksInv
  <2> QED BY <1>1, <2>1, <2>2
<1>4. ASSUME NEW k \in Key
      PROVE  /\ Own(RowOf(k))' => bytes'[k] <= carried'[RowOf(k)'] /\ snap'[k] <= carried'[RowOf(k)']
             /\ Own(cache[k])' =>
                  /\ calc'[k].prevTx + bytes'[k] <= carried'[cache'[k]]
                  /\ calc'[k].prevTx + snap'[k] <= carried'[cache'[k]]
  <2>1. ASSUME Own(RowOf(k))'
        PROVE  bytes'[k] <= carried'[RowOf(k)'] /\ snap'[k] <= carried'[RowOf(k)']
    <3>1. Own(RowOf(k)) /\ RowOf(k)' = RowOf(k) /\ RowOf(k) \in Id
      BY <1>2, <2>1, BookNumbers DEF RowOf, Own
    <3> QED BY <1>2, <3>1, BookNumbers DEF BooksInv
  <2>2. ASSUME Own(cache[k])'
        PROVE  /\ calc'[k].prevTx + bytes'[k] <= carried'[cache'[k]]
               /\ calc'[k].prevTx + snap'[k] <= carried'[cache'[k]]
    <3>1. Own(cache[k]) /\ cache[k] \in Id /\ calc[k].prevTx + bytes[k] <= carried[cache[k]]
      BY <1>2, <2>2, BookNumbers DEF BooksInv, Own
    <3> QED BY <1>2, <3>1, BookNumbers
  <2> QED BY <2>1, <2>2
<1>5. ASSUME NEW k \in Key, shown'[k] = "handshake", peerId[k] \notin inherited
      PROVE  carried[peerId[k]] > 0
  <2> DEFINE own == { j \in updated : cache[j] = peerId[k] }
  <2>1. shown'[k] = IF own = {} THEN shown[k]
                    ELSE IF \E j \in own : StatOf(snap[j]).handshake THEN "handshake" ELSE "zero"
    BY <1>1 DEF ShownAfter
  <2>2. CASE own = {}
    BY <1>5, <2>1, <2>2 DEF BooksInv, HandshakeShown
  <2>3. CASE own # {}
    <3>1. PICK j \in updated : cache[j] = peerId[k] /\ StatOf(snap[j]).handshake
      BY <1>5, <2>1, <2>3
    <3>2. j \in Key /\ snap[j] \in Nat /\ snap[j] > 0 /\ cache[j] # 0 /\ cache[j] \in Id
      BY <3>1, BookedIs, BookNumbers DEF StatOf, Known
    <3>3. calc[j].prevTx + snap[j] <= carried[cache[j]]
      BY <1>5, <3>1, <3>2 DEF BooksInv, Own
    <3> QED BY <3>1, <3>2, <3>3, BookNumbers
  <2> QED BY <2>2, <2>3
<1>6. HandshakeShown'
  BY <1>2, <1>5 DEF HandshakeShown
<1> QED BY <1>3, <1>4, <1>6 DEF BooksInv

\* Rows that a rollup leaves are covered as those before.
LEMMA BooksRolled ==
  ASSUME TypeInv, PeersInv, BooksInv, rows' = RolledUp(Oldest), UNCHANGED <<carried, inherited>>
  PROVE  \A r \in rows' : Own(r.id)' => r.total <= carried'[r.id]
<1> SUFFICES ASSUME NEW r \in rows', Own(r.id) PROVE r.total <= carried[r.id]
  BY DEF Own
<1>1. /\ r.id \in Id
      /\ r.total = 0 \/ \E s \in rows : s.id = r.id /\ s.at <= r.at /\ r.total = s.total
  BY RolledTotals
<1> QED BY <1>1, BookNumbers DEF BooksInv

\* Every calculator goes on from what was booked last.
LEMMA BooksStart ==
  ASSUME TypeInv, PeersInv, BooksInv, Start
  PROVE  BooksInv'
<1>1. /\ ~up /\ cache' = peerId /\ rows' = RolledUp(Oldest)
      /\ \A k \in Key : /\ bytes'[k] \in {0, bytes[k]}
                        /\ peerId[k] # 0 =>
                             bytes'[k] = 0 /\ calc'[k].prevTx = LastTotal(peerId[k], NoLimit)
      /\ UNCHANGED <<shown, peerId, nextPeer, adding, carried, inherited, snap>>
  BY DEF Start, Cleared, Removed, Registered, LoadedCalc, MakeTotalStatsCalc, history,
         collectorVars, handlerVars
<1>2. \A k \in Key : snap[k] = -1
  BY <1>1 DEF TypeInv, TypeOK, PeersInv, CacheInv, Absent
<1>3. \A r \in rows' : Own(r.id)' => r.total <= carried'[r.id]
  BY <1>1, BooksRolled
<1>4. ASSUME NEW i \in Id, Own(i)
      PROVE  LastTotal(i, NoLimit) \in Nat /\ LastTotal(i, NoLimit) <= carried[i]
  <2>1. LastOf(rows, i, NoLimit) \in Nat /\ LastOf(rows, i, NoLimit) <= carried[i]
    BY <1>4, BookNumbers, LastOfIs DEF BooksInv
  <2> QED BY <2>1, LastOfRows
<1>5. ASSUME NEW k \in Key, Own(cache[k])'
      PROVE  /\ calc'[k].prevTx + bytes'[k] <= carried'[cache'[k]]
             /\ calc'[k].prevTx + snap'[k] <= carried'[cache'[k]]
  <2>1. peerId[k] \in Id /\ Own(peerId[k]) /\ cache'[k] = peerId[k]
    BY <1>1, <1>5, BookNumbers DEF Own
  <2>2. PICK last \in Nat : calc'[k].prevTx = last /\ last <= carried[peerId[k]]
    BY <1>1, <1>4, <2>1 DEF Own
  <2>3. bytes'[k] = 0 /\ snap'[k] = -1
    BY <1>1, <1>2, <2>1 DEF Own
  <2> QED BY <1>1, <2>1, <2>2, <2>3, BookNumbers
<1>6. ASSUME NEW k \in Key, Own(RowOf(k))'
      PROVE  bytes'[k] <= carried'[RowOf(k)'] /\ snap'[k] <= carried'[RowOf(k)']
  <2>1. RowOf(k)' = RowOf(k) /\ Own(RowOf(k)) /\ RowOf(k) \in Id
    BY <1>1, <1>6, BookNumbers DEF RowOf, Own
  <2>2. bytes[k] <= carried[RowOf(k)]
    BY <2>1 DEF BooksInv
  <2> QED BY <1>1, <1>2, <2>1, <2>2, BookNumbers
<1>7. HandshakeShown'
  BY <1>1 DEF BooksInv, HandshakeShown
<1> QED BY <1>3, <1>5, <1>6, <1>7 DEF BooksInv

\* Every step keeps the books covered.
LEMMA BooksStep ==
  ASSUME "delete" \notin Ops
  PROVE  TypeInv /\ TimeInv /\ PeersInv /\ BooksInv /\ [Step]_vars => BooksInv'
<1> SUFFICES ASSUME TypeInv, TimeInv, PeersInv, BooksInv, [Step]_vars PROVE BooksInv'
  OBVIOUS
<1> USE DEF timeVars, dbVars, wgVars, history, cacheVars, collectorVars, handlerVars
<1>1. ASSUME NEW k \in Key, Transfer(k) \/ AddPut(k) \/ AddCommit(k) \/ UpdateReset(k)
      PROVE  BooksInv'
  BY <1>1, BooksTransfer, BooksPut, BooksCommit, BooksUpdate
<1>2. ASSUME NEW k \in Key, AddFails(k) PROVE BooksInv'
  <2>1. /\ RowDropped /\ adding' = 0
        /\ UNCHANGED <<rows, shown, peerId, bytes, cache, calc, snap>>
    BY <1>2 DEF AddFails
  <2> QED BY <2>1, BooksDropped
<1>3. ASSUME NEW k \in Key, RollBack(k) PROVE BooksInv'
  <2>1. /\ cache' = [cache EXCEPT ![k] = 0] /\ calc' = [calc EXCEPT ![k] = NewCalc]
        /\ UNCHANGED <<rows, shown, peerId, nextPeer, adding, bytes, carried, inherited, snap>>
    BY <1>3 DEF RollBack
  <2>2. ASSUME NEW j \in Key
        PROVE  cache'[j] # 0 => cache'[j] = cache[j] /\ calc'[j] = calc[j]
    BY <2>1 DEF TypeInv, TypeOK
  <2> QED BY <2>1, <2>2 DEF BooksInv, HandshakeShown, Own, RowOf
<1>4. ASSUME NEW k \in Key, Refuse(k) \/ UpdatePut(k) PROVE BooksInv'
  BY <1>4 DEF Refuse, UpdatePut, BooksInv, HandshakeShown, Own, RowOf
<1>5. CASE Tick \/ StepBack \/ CollectLock
  BY <1>5 DEF Tick, StepBack, CollectLock, BooksInv, HandshakeShown, Own, RowOf
<1>6. CASE CollectDump \/ CollectWrite \/ Start
  BY <1>6, BooksDump, BooksWrite, BooksStart
<1>7. CASE Rollup
  <2>1. /\ rows' = RolledUp(Oldest)
        /\ UNCHANGED <<shown, peerId, nextPeer, adding, bytes, carried, inherited, cache, calc, snap>>
    BY <1>7 DEF Rollup
  <2>2. \A r \in rows' : Own(r.id)' => r.total <= carried'[r.id]
    BY <2>1, BooksRolled
  <2> QED BY <2>1, <2>2 DEF BooksInv, HandshakeShown, Own, RowOf
<1>8. CASE Crash
  <2>1. /\ \A k \in Key : snap'[k] = Absent /\ cache'[k] = 0
        /\ RowDropped /\ adding' = 0 /\ UNCHANGED <<rows, shown, peerId, bytes>>
    BY <1>8 DEF Crash
  <2> QED BY <2>1, BooksDropped
<1>9. CASE UNCHANGED vars
  BY <1>9 DEF BooksInv, HandshakeShown, Own, RowOf, vars
<1> QED
  BY <1>1, <1>2, <1>3, <1>4, <1>5, <1>6, <1>7, <1>8, <1>9 DEF Step, DeletePeer

\* So they are covered in every state.
LEMMA BooksInvariant ==
  ASSUME "delete" \notin Ops PROVE Spec => [](TypeInv /\ TimeInv /\ PeersInv /\ BooksInv)
<1>1. Init => PeersInv /\ BooksInv
  BY PeersInit, BooksInit
<1>2. TypeInv /\ TimeInv /\ PeersInv /\ BooksInv /\ [Step]_vars => PeersInv' /\ BooksInv'
  BY PeersStep, BooksStep
<1> QED BY <1>1, <1>2, TypeInit, TimeInit, TypeStep, TimeStep, PTL DEF Spec

\* What a window shows: the difference of two totals there are.
LEMMA WindowIs ==
  ASSUME NEW i, NEW w \in Windows
  PROVE  /\ GetPeerStats(i, w[1], w[2]) =
              LastOf(rows, i, IF w[2] = 0 THEN NoLimit ELSE w[2]) - LastOf(rows, i, w[1] - 1)
         /\ w[1] - 1 \in Int /\ (IF w[2] = 0 THEN NoLimit ELSE w[2]) \in Int
         /\ w[1] - 1 <= IF w[2] = 0 THEN NoLimit ELSE w[2]
<1>1. GetPeerStats(i, w[1], w[2]) =
        LastOf(rows, i, IF w[2] = 0 THEN NoLimit ELSE w[2]) - LastOf(rows, i, w[1] - 1)
  BY DEF GetPeerStats, LastTotal, LastOf
<1>2. w[1] \in 0..MaxClock /\ w[2] \in 0..MaxClock /\ (w[1] <= w[2] \/ w[2] = 0)
  BY DEF Windows, Time
<1>3. /\ w[1] - 1 \in Int /\ (IF w[2] = 0 THEN NoLimit ELSE w[2]) \in Int
      /\ w[1] - 1 <= IF w[2] = 0 THEN NoLimit ELSE w[2]
  BY <1>2, RollupAssumption DEF NoLimit
<1> QED BY <1>1, <1>3

\* No window of a peer's statistics claims more than the kernel carried for the peer,
\* whatever is collected late, rolled up, restarted or lost, wherever a POST fails or the
\* process dies and however the clock jumps, unless the row's POST found its peer in the
\* interface.
THEOREM NothingOverbilled ==
  ASSUME "delete" \notin Ops PROVE Spec => []NeverOverbilled
<1>1. TypeInv /\ BooksInv => NeverOverbilled
  <2> SUFFICES ASSUME TypeInv, BooksInv, NEW k \in Registered, peerId[k] \notin inherited,
                      NEW w \in Windows
               PROVE  GetPeerStats(peerId[k], w[1], w[2]) <= carried[peerId[k]]
    BY DEF NeverOverbilled
  <2>1. PICK i \in Id : i = peerId[k]
    BY DEF Registered, TypeInv, TypeOK
  <2>2. rows \in SUBSET Row /\ carried[i] \in Nat
    BY BoundAssumption DEF TypeInv, TypeOK, Row
  <2>3. \A until : LastOf(rows, i, until) \in Nat /\ LastOf(rows, i, until) <= carried[i]
    BY <2>1, <2>2, LastOfIs DEF BooksInv, Own, Registered
  <2>4. GetPeerStats(i, w[1], w[2]) <= carried[i]
    BY <2>2, <2>3, WindowIs
  <2> QED BY <2>1, <2>4
<1> QED BY <1>1, BooksInvariant, PTL

\* A time of a handshake other than the zero time is shown only of a peer that has
\* transferred something since its PutPeer, with the same exception.
THEOREM HandshakesAreOwn ==
  ASSUME "delete" \notin Ops PROVE Spec => []HandshakeShown
<1>1. BooksInv => HandshakeShown
  BY DEF BooksInv
<1> QED BY <1>1, BooksInvariant, PTL

-----------------------------------------------------------------------------
(* Totals never drop                                                       *)

\* Unless PUT /peers has recreated the peer: a later row of it has no smaller total, and
\* what is about to be booked is not behind what was booked.  The last part holds of
\* peers in the interface without a row, too: a later POST goes on from their counters.
Grown ==
  /\ \A r, s \in rows : r.id = s.id /\ r.id \notin renewed /\ r.at <= s.at => r.total <= s.total
  /\ \A k \in Key : cache[k] # 0 /\ cache[k] \notin renewed =>
       \A r \in rows : r.id = cache[k] =>
         /\ r.total <= calc[k].prevTx + bytes[k]
         /\ snap[k] # Absent => r.total <= calc[k].prevTx + snap[k]
  /\ \A k \in Key : peerId[k] \notin renewed => snap[k] <= bytes[k]

\* With the wall clock set back a later collection has an earlier timestamp.
GrowInv == ~stepped => Grown

\* No totals at the start.
LEMMA GrowInit == Init => GrowInv
<1> SUFFICES ASSUME Init PROVE GrowInv
  OBVIOUS
<1>1. rows = {} /\ \A k \in Key : cache[k] = 0 /\ snap[k] = -1 /\ bytes[k] = 0
  BY DEF Init, Absent
<1> QED BY <1>1 DEF GrowInv, Grown

\* The numbers of a state.
LEMMA Counters ==
  ASSUME TypeInv
  PROVE  /\ \A k \in Key : bytes[k] \in Nat /\ snap[k] \in Int /\ calc[k].prevTx \in Nat
         /\ \A k \in Key : snap[k] # Absent => snap[k] \in Nat
         /\ \A k \in Key : peerId[k] # 0 => peerId[k] \in Id
         /\ \A r \in rows : r.total \in Nat /\ r.at \in Nat /\ r.id \in Id
BY BoundAssumption DEF TypeInv, TypeOK, Absent, Time

\* A counter grows.
LEMMA GrownTransfer ==
  ASSUME TypeInv, Grown, NEW k \in Key, Transfer(k)
  PROVE  Grown'
<1>1. /\ \A j \in Key : bytes'[j] = IF j = k THEN bytes[j] + 1 ELSE bytes[j]
      /\ UNCHANGED <<rows, renewed, peerId, cache, calc, snap>>
  BY DEF Transfer, dbVars, cacheVars, collectorVars, TypeInv, TypeOK
<1>2. \A j \in Key : bytes'[j] \in Nat /\ bytes'[j] >= bytes[j]
  BY <1>1, Counters
<1>3. \A j \in Key : peerId'[j] \notin renewed' => snap'[j] <= bytes'[j]
  BY <1>1, <1>2, Counters DEF Grown
<1>4. \A j \in Key : cache'[j] # 0 /\ cache'[j] \notin renewed' =>
        \A r \in rows' : r.id = cache'[j] =>
          /\ r.total <= calc'[j].prevTx + bytes'[j]
          /\ snap'[j] # Absent => r.total <= calc'[j].prevTx + snap'[j]
  BY <1>1, <1>2, Counters DEF Grown
<1>5. \A r, s \in rows' : r.id = s.id /\ r.id \notin renewed' /\ r.at <= s.at => r.total <= s.total
  BY <1>1 DEF Grown
<1> QED BY <1>3, <1>4, <1>5 DEF Grown

\* A new row has no totals.
LEMMA GrownAdd ==
  ASSUME TypeInv, TimeInv, CacheInv, Grown, NEW k \in Key, AddCommit(k)
  PROVE  Grown'
<1>1. /\ peerId[k] = 0
      /\ \A j \in Key : /\ peerId'[j] = IF j = k THEN nextPeer ELSE peerId[j]
                        /\ cache'[j] = IF j = k THEN nextPeer ELSE cache[j]
                        /\ j # k => calc'[j] = calc[j]
      /\ UNCHANGED <<rows, renewed, bytes, snap>>
  BY DEF AddCommit, wgVars, history, collectorVars, TypeInv, TypeOK, CacheInv
<1>2. \A r \in rows : r.id # nextPeer
  BY DEF TypeInv, TypeOK, TimeInv, IdInv, Id
<1>3. peerId[k] \notin renewed
  BY <1>1 DEF TypeInv, TypeOK, Id
<1>4. \A j \in Key : peerId'[j] \notin renewed' => snap'[j] <= bytes'[j]
  BY <1>1, <1>3 DEF Grown
<1>5. \A j \in Key : cache'[j] # 0 /\ cache'[j] \notin renewed' =>
        \A r \in rows' : r.id = cache'[j] =>
          /\ r.total <= calc'[j].prevTx + bytes'[j]
          /\ snap'[j] # Absent => r.total <= calc'[j].prevTx + snap'[j]
  BY <1>1, <1>2 DEF Grown
<1> QED BY <1>1, <1>4, <1>5 DEF Grown

\* PUT /peers exempts the row whose counter it clears.
LEMMA GrownUpdate ==
  ASSUME CacheInv, Grown, NEW k \in Key, UpdateReset(k)
  PROVE  Grown'
<1>1. /\ \A j \in Key : bytes'[j] = IF j = k THEN 0 ELSE bytes[j]
      /\ renewed' = renewed \cup {peerId[k]} /\ cache[k] \in {0, peerId[k]}
      /\ UNCHANGED <<rows, peerId, cache, calc, snap>>
  BY DEF UpdateReset, Cleared, dbVars, cacheVars, collectorVars, CacheInv
<1>2. ASSUME NEW j \in Key
      PROVE  /\ peerId[j] # 0 /\ peerId[j] \notin renewed' => j # k
             /\ cache[j] # 0 /\ cache[j] \notin renewed' => j # k
  BY <1>1
<1>3. \A j \in Key : peerId'[j] \notin renewed' => snap'[j] <= bytes'[j]
  BY <1>1, <1>2 DEF Grown
<1>4. \A j \in Key : cache'[j] # 0 /\ cache'[j] \notin renewed' =>
        \A r \in rows' : r.id = cache'[j] =>
          /\ r.total <= calc'[j].prevTx + bytes'[j]
          /\ snap'[j] # Absent => r.total <= calc'[j].prevTx + snap'[j]
  BY <1>1, <1>2 DEF Grown
<1> QED BY <1>1, <1>3, <1>4 DEF Grown

\* A dump is not behind what was dumped before.
LEMMA GrownDump ==
  ASSUME TypeInv, Grown, CollectDump
  PROVE  Grown'
<1>1. /\ \A k \in Key : snap'[k] = IF k \in wgPeers THEN bytes[k] ELSE Absent
      /\ UNCHANGED <<rows, renewed, peerId, bytes, cache, calc>>
  BY DEF CollectDump, dbVars, wgVars, history, cacheVars
<1>2. \A k \in Key : snap'[k] <= bytes'[k]
  BY <1>1, Counters DEF Absent
<1>3. \A k \in Key : cache'[k] # 0 /\ cache'[k] \notin renewed' =>
        \A r \in rows' : r.id = cache'[k] =>
          /\ r.total <= calc'[k].prevTx + bytes'[k]
          /\ snap'[k] # Absent => r.total <= calc'[k].prevTx + snap'[k]
  BY <1>1 DEF Grown
<1> QED BY <1>1, <1>2, <1>3 DEF Grown

\* The collector appends: what it books of a peer is younger and not less than any row,
\* and no more than what the next collection will find.
LEMMA GrownWrite ==
  ASSUME TypeInv, TimeInv, CacheInv, ~stepped, Grown, CollectWrite
  PROVE  Grown'
<1>1. PICK written \in SUBSET Known :
        rows' = rows \cup { [at |-> at, id |-> cache[k],
                             total |-> Total(calc[k], StatOf(snap[k])).tx] : k \in written }
  BY DEF CollectWrite, Succeeding
<1>2. /\ \A k \in Key : snap'[k] = -1
      /\ UNCHANGED <<peerId, renewed, bytes, cache, calc>>
      /\ at \in Nat /\ \A r \in rows : r.at < at
  BY DEF CollectWrite, wgVars, history, cacheVars, Absent, TypeInv, TypeOK, Time, TimeInv, OrderInv
<1>3. ASSUME NEW r \in rows'
      PROVE  \/ r \in rows
             \/ \E k \in Known : /\ k \in Key /\ cache[k] # 0 /\ r.at = at /\ r.id = cache[k]
                                 /\ r.total = calc[k].prevTx + snap[k]
                                 /\ snap[k] # Absent /\ peerId[k] = cache[k]
  <2>1. \A k \in Known : /\ k \in Key /\ cache[k] # 0 /\ snap[k] # Absent /\ peerId[k] = cache[k]
                         /\ Total(calc[k], StatOf(snap[k])).tx = calc[k].prevTx + snap[k]
    BY BookedIs DEF Known, CacheInv
  <2> QED BY <1>1, <2>1
<1>4. ASSUME NEW r \in rows', NEW s \in rows', r.id = s.id, r.id \notin renewed', r.at <= s.at
      PROVE  r.total <= s.total
  <2>1. CASE s \in rows
    <3>1. r \in rows
      BY <1>2, <1>3, <1>4, <2>1, Counters
    <3> QED BY <1>2, <1>4, <2>1, <3>1 DEF Grown
  <2>2. CASE s \notin rows
    <3>1. PICK k \in Key : /\ cache[k] # 0 /\ s.id = cache[k] /\ snap[k] # Absent
                           /\ s.total = calc[k].prevTx + snap[k]
      BY <1>3, <2>2
    <3>2. CASE r \in rows
      BY <1>2, <1>4, <3>1, <3>2 DEF Grown
    <3>3. CASE r \notin rows
      <4>1. PICK j \in Key : /\ cache[j] # 0 /\ r.id = cache[j]
                             /\ r.total = calc[j].prevTx + snap[j]
        BY <1>3, <3>3
      <4>2. j = k
        BY <1>4, <3>1, <4>1 DEF TimeInv, IdInv
      <4> QED BY <3>1, <4>1, <4>2, Counters
    <3> QED BY <3>2, <3>3
  <2> QED BY <2>1, <2>2
<1>5. ASSUME NEW k \in Key, cache'[k] # 0, cache'[k] \notin renewed',
             NEW r \in rows', r.id = cache'[k]
      PROVE  r.total <= calc'[k].prevTx + bytes'[k] /\ snap'[k] = Absent
  <2>1. CASE r \in rows
    BY <1>2, <1>5, <2>1 DEF Grown, Absent
  <2>2. CASE r \notin rows
    <3>1. PICK j \in Key : /\ cache[j] # 0 /\ r.id = cache[j] /\ peerId[j] = cache[j]
                           /\ r.total = calc[j].prevTx + snap[j]
      BY <1>3, <2>2
    <3>2. j = k
      BY <1>2, <1>5, <3>1 DEF TimeInv, IdInv
    <3>3. snap[k] <= bytes[k]
      BY <1>2, <1>5, <3>1, <3>2 DEF Grown
    <3> QED BY <1>2, <3>1, <3>2, <3>3, Counters DEF Absent
  <2> QED BY <2>1, <2>2
<1>6. \A k \in Key : snap'[k] <= bytes'[k]
  BY <1>2, Counters
<1> QED BY <1>4, <1>5, <1>6 DEF Grown

\* A rolled up row has the total of a row that is as old or older.
LEMMA GrownRolled ==
  ASSUME TypeInv, Grown, rows' = RolledUp(Oldest), renewed' = renewed,
         NEW r \in rows', NEW s \in rows', r.id = s.id, r.id \notin renewed', r.at <= s.at
  PROVE  r.total <= s.total
<1>1. rows \in SUBSET Row /\ Oldest \in Time /\ PeerIds \in SUBSET Id /\ rows' \in SUBSET Row
  <2>1. rows \in SUBSET Row /\ Oldest \in Time /\ PeerIds \in SUBSET Id
    BY OldestIs DEF TypeInv, TypeOK, Row, PeerIds
  <2> QED BY <2>1, RolledRows, RolledIs
<1>2. \A q \in rows' : \/ q \in rows /\ q.at > Oldest
                       \/ q.at = Oldest /\ q.total = LastOf(rows, q.id, Oldest)
  <2>1. rows' = Rolled(rows, Oldest, PeerIds)
    BY RolledRows
  <2> QED BY <1>1, <2>1, RolledIs
<1>3. \A q \in Row : q.at \in Int /\ q.total \in Nat
  BY DEF Row, Time
<1>4. CASE r \in rows /\ s \in rows
  BY <1>4 DEF Grown
<1>5. CASE r.at = Oldest /\ r.total = LastOf(rows, r.id, Oldest)
  <2>1. CASE s \in rows /\ s.at > Oldest
    <3>1. \/ r.total = 0
          \/ \E q \in rows : q.id = r.id /\ q.at <= Oldest /\ r.total = q.total
      BY <1>1, <1>5, LastOfIs
    <3>2. CASE r.total = 0
      BY <1>1, <1>3, <3>2
    <3>3. ASSUME NEW q \in rows, q.id = r.id, q.at <= Oldest, r.total = q.total
          PROVE  r.total <= s.total
      <4>1. q.at <= s.at
        BY <1>1, <1>3, <2>1, <3>3 DEF Time
      <4> QED BY <2>1, <3>3, <4>1 DEF Grown
    <3> QED BY <3>1, <3>2, <3>3
  <2>2. CASE s.at = Oldest /\ s.total = LastOf(rows, s.id, Oldest)
    BY <1>1, <1>3, <1>5, <2>2
  <2> QED BY <1>2, <2>1, <2>2
<1>6. CASE r \in rows /\ r.at > Oldest /\ s.at = Oldest
  BY <1>1, <1>3, <1>6 DEF Time
<1> QED BY <1>2, <1>4, <1>5, <1>6

\* A rollup, while a dump waits or not.
LEMMA GrownRollup ==
  ASSUME TypeInv, Grown, Rollup
  PROVE  Grown'
<1>1. rows' = RolledUp(Oldest) /\ UNCHANGED <<renewed, peerId, bytes, cache, calc, snap>>
  BY DEF Rollup, wgVars, history, cacheVars, collectorVars
<1>2. \A r, s \in rows' : r.id = s.id /\ r.id \notin renewed' /\ r.at <= s.at => r.total <= s.total
  BY <1>1, GrownRolled
<1>3. ASSUME NEW k \in Key, cache[k] # 0, cache[k] \notin renewed, NEW r \in rows', r.id = cache[k]
      PROVE  /\ r.total <= calc[k].prevTx + bytes[k]
             /\ snap[k] # Absent => r.total <= calc[k].prevTx + snap[k]
  <2>1. \/ r.total = 0
        \/ \E s \in rows : s.id = r.id /\ s.at <= r.at /\ r.total = s.total
    BY <1>1, RolledTotals
  <2>2. CASE r.total = 0
    BY <2>2, Counters
  <2>3. CASE \E s \in rows : s.id = r.id /\ s.at <= r.at /\ r.total = s.total
    BY <1>3, <2>3 DEF Grown
  <2> QED BY <2>1, <2>2, <2>3
<1> QED BY <1>1, <1>2, <1>3 DEF Grown

\* Every calculator goes on from the last total of its peer, the largest there is.
LEMMA GrownStart ==
  ASSUME TypeInv, CacheInv, Grown, Start
  PROVE  Grown'
<1>1. /\ ~up /\ cache' = peerId /\ rows' = RolledUp(Oldest)
      /\ \A k \in Key : peerId[k] # 0 =>
           bytes'[k] = 0 /\ calc'[k].prevTx = LastTotal(peerId[k], NoLimit)
      /\ UNCHANGED <<renewed, peerId, snap>>
  BY DEF Start, Cleared, Removed, Registered, LoadedCalc, MakeTotalStatsCalc, history,
         collectorVars
<1>2. \A k \in Key : snap[k] = -1
  BY <1>1 DEF TypeInv, TypeOK, CacheInv, Absent
<1>3. \A r, s \in rows' : r.id = s.id /\ r.id \notin renewed' /\ r.at <= s.at => r.total <= s.total
  BY <1>1, GrownRolled
<1>4. ASSUME NEW k \in Key, peerId[k] # 0, peerId[k] \notin renewed, NEW r \in rows', r.id = peerId[k]
      PROVE  r.total <= calc'[k].prevTx + bytes'[k]
  <2>1. PICK i \in Id : i = peerId[k]
    BY <1>4, Counters
  <2>2. rows \in SUBSET Row
    BY DEF TypeInv, TypeOK, Row
  <2>3. \A s \in rows : s.at <= NoLimit /\ s.at \in Int
    BY RollupAssumption DEF TypeInv, TypeOK, Time, NoLimit
  <2>4. PICK last \in Nat : last = LastOf(rows, i, NoLimit)
    BY <2>2, LastOfIs
  <2>5. ASSUME NEW s \in rows, s.id = i PROVE s.total <= last
    <3>1. PICK q \in rows : /\ q.id = i /\ LastOf(rows, i, NoLimit) = q.total
                            /\ \A t \in rows : t.id = i /\ t.at <= NoLimit => t.at <= q.at
      BY <2>2, <2>3, <2>5, LastOfIs
    <3>2. s.at <= q.at
      BY <2>3, <2>5, <3>1
    <3> QED BY <1>4, <2>1, <2>4, <2>5, <3>1, <3>2 DEF Grown
  <2>6. r.total = 0 \/ \E s \in rows : s.id = r.id /\ r.total = s.total
    BY <1>1, RolledTotals
  <2>7. r.total <= last
    BY <1>4, <2>1, <2>4, <2>5, <2>6
  <2>8. calc'[k].prevTx = last /\ bytes'[k] = 0
    BY <1>1, <1>4, <2>1, <2>4, LastOfRows
  <2>9. r.total \in Nat
    BY <2>6, Counters
  <2> QED BY <2>4, <2>7, <2>8, <2>9
<1>5. \A k \in Key : snap'[k] <= bytes'[k]
  <2>1. \A k \in Key : bytes'[k] \in {bytes[k], 0}
    BY <1>1 DEF Start, Cleared, Removed
  <2> QED BY <1>1, <1>2, <2>1, Counters
<1> QED BY <1>1, <1>2, <1>3, <1>4, <1>5 DEF Grown, Absent

\* Every step keeps the totals of a peer growing.
LEMMA GrowStep ==
  ASSUME "delete" \notin Ops PROVE TypeInv /\ TimeInv /\ CacheInv /\ GrowInv /\ [Step]_vars => GrowInv'
<1> SUFFICES ASSUME TypeInv, TimeInv, CacheInv, GrowInv, [Step]_vars, ~stepped' PROVE Grown'
  BY DEF GrowInv
<1> USE DEF timeVars, dbVars, wgVars, history, cacheVars, collectorVars, handlerVars
<1>0. ~stepped /\ Grown
  <2>1. stepped => stepped'
    BY DEF Step, Transfer, AddPut, AddCommit, AddFails, Refuse, RollBack, DeletePeer, UpdateReset,
           UpdatePut, Tick, StepBack, CollectDump, CollectLock, CollectWrite, Rollup, Crash, Start,
           vars
  <2> QED BY <2>1 DEF GrowInv
<1>1. ASSUME NEW k \in Key, Transfer(k) \/ AddCommit(k) \/ UpdateReset(k) PROVE Grown'
  BY <1>0, <1>1, GrownTransfer, GrownAdd, GrownUpdate
<1>2. ASSUME NEW k \in Key, RollBack(k) PROVE Grown'
  <2>1. /\ cache' = [cache EXCEPT ![k] = 0] /\ calc' = [calc EXCEPT ![k] = NewCalc]
        /\ UNCHANGED <<rows, renewed, peerId, bytes, snap>>
    BY <1>2 DEF RollBack
  <2>2. ASSUME NEW j \in Key
        PROVE  cache'[j] # 0 => cache'[j] = cache[j] /\ calc'[j] = calc[j]
    BY <2>1 DEF TypeInv, TypeOK
  <2> QED BY <1>0, <2>1, <2>2 DEF Grown
<1>3. ASSUME NEW k \in Key, AddPut(k) \/ AddFails(k) \/ Refuse(k) \/ UpdatePut(k) PROVE Grown'
  BY <1>0, <1>3 DEF AddPut, AddFails, RowDropped, Refuse, UpdatePut, Grown
<1>4. CASE Tick \/ StepBack \/ CollectLock
  BY <1>0, <1>4 DEF Tick, StepBack, CollectLock, Grown
<1>5. CASE CollectDump \/ CollectWrite \/ Rollup \/ Start
  BY <1>0, <1>5, GrownDump, GrownWrite, GrownRollup, GrownStart
<1>6. CASE Crash
  <2>1. /\ \A k \in Key : snap'[k] = -1 /\ cache'[k] = 0
        /\ UNCHANGED <<rows, renewed, peerId, bytes>>
    BY <1>6 DEF Crash, RowDropped, Absent
  <2>2. \A k \in Key : bytes[k] \in Nat
    BY Counters
  <2> QED BY <1>0, <2>1, <2>2 DEF Grown
<1>7. CASE UNCHANGED vars
  BY <1>0, <1>7 DEF Grown, vars
<1> QED
  BY <1>1, <1>2, <1>3, <1>4, <1>5, <1>6, <1>7 DEF Step, DeletePeer

\* So they grow in every state.
LEMMA GrowInvariant ==
  ASSUME "delete" \notin Ops PROVE Spec => [](TypeInv /\ GrowInv)
<1>1. Init => CacheInv /\ GrowInv
  BY PeersInit, GrowInit DEF PeersInv
<1>2. TypeInv /\ TimeInv /\ CacheInv /\ GrowInv /\ [Step]_vars => CacheInv' /\ GrowInv'
  BY CacheStep, GrowStep
<1> QED BY <1>1, <1>2, TypeInit, TimeInit, TypeStep, TimeStep, PTL DEF Spec

\* The transfer of a window is not negative as long as the peer has not been recreated
\* and the clock not been set back: restarts, rollups and a POST that fails behind its
\* PutPeer do not let a total drop.
THEOREM NothingTakenBack ==
  ASSUME "delete" \notin Ops PROVE Spec => []NeverNegative
<1>1. TypeInv /\ GrowInv => NeverNegative
  <2> SUFFICES ASSUME TypeInv, Grown, NEW k \in Registered, peerId[k] \notin renewed,
                      NEW w \in Windows
               PROVE  GetPeerStats(peerId[k], w[1], w[2]) >= 0
    BY DEF NeverNegative, GrowInv
  <2>1. PICK i \in Id : i = peerId[k]
    BY DEF Registered, TypeInv, TypeOK
  <2>2. rows \in SUBSET Row /\ \A r \in rows : r.at \in Int
    BY DEF TypeInv, TypeOK, Row, Time
  <2>3. ASSUME NEW from \in Int, NEW until \in Int, from <= until
        PROVE  LastOf(rows, i, from) <= LastOf(rows, i, until)
    <3>1. LastOf(rows, i, from) \in Nat /\ LastOf(rows, i, until) \in Nat
      BY <2>2, LastOfIs
    <3>2. CASE LastOf(rows, i, from) = 0
      BY <3>1, <3>2
    <3>3. CASE LastOf(rows, i, from) # 0
      <4>1. PICK r \in rows : r.id = i /\ r.at <= from /\ LastOf(rows, i, from) = r.total
        BY <2>2, <3>3, LastOfIs
      <4>2. r.at <= until
        BY <2>2, <2>3, <4>1
      <4>3. PICK s \in rows : /\ s.id = i /\ LastOf(rows, i, until) = s.total
                              /\ \A t \in rows : t.id = i /\ t.at <= until => t.at <= s.at
        BY <2>2, <4>1, <4>2, LastOfIs
      <4> QED BY <2>1, <4>1, <4>2, <4>3 DEF Grown
    <3> QED BY <3>2, <3>3
  <2>4. \A until : LastOf(rows, i, until) \in Nat
    BY <2>2, LastOfIs
  <2>5. GetPeerStats(i, w[1], w[2]) >= 0
    <3>1. PICK until \in Int : until = IF w[2] = 0 THEN NoLimit ELSE w[2]
      BY WindowIs
    <3>2. PICK from \in Int : from = w[1] - 1
      BY WindowIs
    <3>3. /\ GetPeerStats(i, w[1], w[2]) = LastOf(rows, i, until) - LastOf(rows, i, from)
          /\ from <= until
      BY <3>1, <3>2, WindowIs
    <3> QED BY <2>3, <2>4, <3>3
  <2> QED BY <2>1, <2>5
<1> QED BY <1>1, GrowInvariant, PTL

=============================================================================
