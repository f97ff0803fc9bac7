------------------------------- MODULE Traffic -------------------------------
(***************************************************************************)
(* The traffic statistics: the kernel's counters, the statistics cache,    *)
(* table peer_stats, the collector, the rollup, and what the handlers and  *)
(* the start of the process do to them.                                    *)
(*                                                                         *)
(* Under node.db's mutex a handler works alone (module Node), but others   *)
(* can look or interfere where it is not at its end: the collector reads   *)
(* the interface before it has a lock, the process may die, and POST wants *)
(* the cache's mutex, too.  So POST is split behind its PutPeer and before *)
(* its Remove, PUT between RemovePeer and PutPeer, and the collector where *)
(* it has its dump, and where it has the cache's mutex.  How a failing     *)
(* COMMIT goes on, which has unlocked already, is module Locking's.        *)
(* A byte is counted in both directions.                                   *)
(***************************************************************************)
EXTENDS PeerStats

CONSTANTS
  Key,          \* public keys
  Ops,          \* the operations that occur
  Faults,       \* the failures that occur
  RollupAfter,  \* StatRollupAfterSecs
  MaxPeerId,    \* bound on the rows ever put into table peers
  MaxBytes,     \* bound on the traffic of all peers
  MaxClock      \* bound on the time

\* "conflict": a POST /peers that fails before its PutPeer.
Operation == {"add", "conflict", "delete", "update", "rollup", "crash"}

\* "wg": a wg command of a handler fails.  "add": POST /peers fails behind
\* PutPeer.  "db": a statement of the collector fails, unnoticed.  "clock": the
\* wall clock is set back, once.
Fault == {"wg", "add", "db", "clock"}

ASSUME KeyAssumption == 0 \notin Key
ASSUME ScopeAssumption == Ops \subseteq Operation /\ Faults \subseteq Fault
ASSUME RollupAssumption == RollupAfter \in Nat \ {0} /\ MaxClock \in Nat
                           /\ RollupAfter < MaxClock
ASSUME BoundAssumption == MaxPeerId \in Nat /\ MaxBytes \in Nat

VARIABLES
  clock,      \* the wall clock, time.Now()
  stepped,    \* history: it has been set back
  ticked,     \* the collector's ticker has fired
  peerId,     \* table peers: the row id of a key (0: no row)
  nextPeer,   \* its next AUTOINCREMENT id
  shown,      \* its column latest_handshake_at: "null", "zero" or "handshake"
  rows,       \* table peer_stats: rows [at, id, total]
  wgPeers,    \* the kernel: peers of the interface
  bytes,      \* and what it has counted for them
  carried,    \* history: what it counted for a row of table peers, from PutPeer on
  renewed,    \* history: the row ids whose peer PUT /peers has recreated
  inherited,  \* history: the row ids whose POST found the peer in the interface
  cache,      \* peerStatsCache.m: the row id of a key (0: no entry)
  calc,       \* and the calculator of the entry
  snap, at,   \* the collector's dump of the interface and its time
  collector,  \* "idle", "dumped" or, with the cache's mutex, "locked"
  adding,     \* the key apiAddPeer has put into the interface, before its COMMIT, or 0
  refusing,   \* the key whose POST has failed, before its rollback is over, or 0
  updating,   \* the key apiUpdatePeer has taken out of the interface, or 0
  up          \* the process serves

dbVars == <<peerId, nextPeer, shown, rows>>
timeVars == <<clock, stepped, ticked>>
wgVars == <<wgPeers, bytes>>
cacheVars == <<cache, calc>>
collectorVars == <<snap, at, collector>>
history == <<carried, renewed, inherited>>
handlerVars == <<adding, refusing, updating>>
vars == <<timeVars, dbVars, wgVars, history, cacheVars, collectorVars, handlerVars, up>>

Id == 1..MaxPeerId
Time == 0..MaxClock

\* Defect: a handshake at time 0 is a handshake.
StatOfEpoch(n) == [rx |-> n, tx |-> n, handshake |-> TRUE, endpoint |-> n > 0]

\* What the kernel shows of a peer that has transferred n bytes each way.
StatOf(n) == [rx |-> n, tx |-> n, handshake |-> n > 0, endpoint |-> n > 0]

NewCalc == MakeTotalStatsCalc(0, 0)

\* The dump has no line for the peer.
Absent == -1

-----------------------------------------------------------------------------
(* Table peer_stats                                                        *)

\* GetLastPeerStat, or the zero its callers use when there is no row.
LastTotal(id, until) ==
  LET found == { r \in rows : r.id = id /\ r.at <= until }
  IN IF found = {} THEN 0
     ELSE (CHOOSE r \in found : \A s \in found : s.at <= r.at).total

\* The upper limit of a statement or of a request that names none.
NoLimit == MaxClock

\* getPeerStats: what GET .../stat answers; to_ms = 0 is no upper limit.
GetPeerStats(id, from, to) ==
  LastTotal(id, IF to = 0 THEN NoLimit ELSE to) - LastTotal(id, from - 1)

Registered == { k \in Key : peerId[k] # 0 }

PeerIds == { peerId[k] : k \in Key } \ {0}

\* Defect: old rows go and nothing takes their place.
RemovedOld(oldest) == { r \in rows : r.at > oldest }

\* rollupOldStats: one row of each peer stands for all its rows until oldest.
RolledUp(oldest) ==
  { r \in rows : r.at > oldest }
    \cup { [at |-> oldest, id |-> i, total |-> LastTotal(i, oldest)] : i \in PeerIds }

\* Defect: the wrong sign.
OldestAhead == clock + RollupAfter

\* Defect: rows are rolled up at once.
OldestNow == clock

Oldest == clock - RollupAfter

-----------------------------------------------------------------------------
(* Traffic and time                                                        *)

\* The row that a key has or is about to have; 0: none.
RowOf(k) == IF adding = k THEN nextPeer ELSE peerId[k]

\* A peer of the interface transfers, whether or not the process runs.  Traffic
\* ends one instant before the bounded time does.
Transfer(k) ==
  /\ k \in wgPeers
  /\ clock < MaxClock
  /\ bytes[k] < MaxBytes
  /\ RowOf(k) # 0 => carried[RowOf(k)] < MaxBytes
  /\ bytes' = [bytes EXCEPT ![k] = @ + 1]
  /\ carried' = [i \in Id |-> IF RowOf(k) = i THEN carried[i] + 1 ELSE carried[i]]
  /\ UNCHANGED <<timeVars, dbVars, wgPeers, renewed, inherited, cacheVars, collectorVars,
                 handlerVars, up>>

\* The collector has the cache's mutex and wants node.db's, a POST the other way round.
Deadlocked == collector = "locked" /\ (adding # 0 \/ refusing # 0)

\* The collector waits less than RollupAfter (a week in example.conf) for locks that it
\* ever gets.
Tick ==
  /\ clock < MaxClock
  /\ collector # "idle" /\ ~Deadlocked => clock + 1 - at < RollupAfter
  /\ clock' = clock + 1
  /\ ticked' = up
  /\ UNCHANGED <<stepped, dbVars, wgVars, history, cacheVars, collectorVars, handlerVars, up>>

\* Somebody sets the wall clock.  Tickers run on the monotonic clock.
StepBack ==
  /\ "clock" \in Faults /\ ~stepped
  /\ clock' \in RollupAfter..clock - 1
  /\ stepped' = TRUE
  /\ UNCHANGED <<ticked, dbVars, wgVars, history, cacheVars, collectorVars, handlerVars, up>>

-----------------------------------------------------------------------------
(* The handlers                                                            *)

\* The database's mutex is free.
Free == up /\ adding = 0 /\ refusing = 0 /\ updating = 0

\* The cache's mutex is free.
CacheFree == collector # "locked"

\* Counters of peers that have been taken out of the interface.
Cleared(keys) == [k \in Key |-> IF k \in keys THEN 0 ELSE bytes[k]]

\* The row that a POST was about to commit will never be.
RowDropped ==
  /\ carried' = [i \in Id |-> IF i < nextPeer THEN carried[i] ELSE 0]
  /\ inherited' = { i \in inherited : i < nextPeer }
  /\ UNCHANGED renewed

\* apiAddPeer up to PutPeer, which leaves the counters of a peer that is there alone.
AddPut(k) ==
  /\ "add" \in Ops /\ Free
  /\ peerId[k] = 0
  /\ nextPeer <= MaxPeerId
  /\ wgPeers' = wgPeers \cup {k}
  /\ inherited' = IF k \in wgPeers THEN inherited \cup {nextPeer} ELSE inherited
  /\ adding' = k
  /\ UNCHANGED <<timeVars, dbVars, bytes, carried, renewed, cacheVars, collectorVars, refusing,
                 updating, up>>

\* Its PutNew and COMMIT (peers.go:324, 193).
AddCommit(k) ==
  /\ adding = k /\ CacheFree
  /\ peerId' = [peerId EXCEPT ![k] = nextPeer]
  /\ nextPeer' = nextPeer + 1
  /\ cache' = [cache EXCEPT ![k] = nextPeer]
  /\ calc' = [calc EXCEPT ![k] = NewCalc]
  /\ adding' = 0
  /\ UNCHANGED <<timeVars, shown, rows, wgVars, history, collectorVars, refusing, updating, up>>

\* Or it fails behind PutPeer: the interface is left as it is ...
AddFails(k) ==
  /\ "add" \in Faults
  /\ adding = k
  /\ adding' = 0 /\ refusing' = k
  /\ RowDropped
  /\ UNCHANGED <<timeVars, dbVars, wgVars, cacheVars, collectorVars, updating, up>>

\* ... as it is when POST fails before, for instance because the key has a row.
Refuse(k) ==
  /\ "conflict" \in Ops /\ Free
  /\ refusing' = k
  /\ UNCHANGED <<timeVars, dbVars, wgVars, history, cacheVars, collectorVars, adding, updating,
                 up>>

\* The rollback takes the key out of the cache, whoever's entry it is.
RollBack(k) ==
  /\ refusing = k /\ CacheFree
  /\ cache' = [cache EXCEPT ![k] = 0]
  /\ calc' = [calc EXCEPT ![k] = NewCalc]
  /\ refusing' = 0
  /\ UNCHANGED <<timeVars, dbVars, wgVars, history, collectorVars, adding, updating, up>>

\* apiDeletePeer; the cache is left alone.
DeletePeer(k) ==
  /\ "delete" \in Ops /\ Free
  /\ peerId[k] # 0
  /\ peerId' = [peerId EXCEPT ![k] = 0]
  /\ shown' = [shown EXCEPT ![k] = "null"]
  /\ \/ wgPeers' = wgPeers \ {k} /\ bytes' = Cleared({k})
     \/ "wg" \in Faults /\ UNCHANGED wgVars
  /\ UNCHANGED <<timeVars, nextPeer, rows, history, cacheVars, collectorVars, handlerVars, up>>

\* apiUpdatePeer up to RemovePeer; a disabled peer stays out.
UpdateReset(k) ==
  /\ "update" \in Ops /\ Free
  /\ peerId[k] # 0
  /\ wgPeers' = wgPeers \ {k}
  /\ bytes' = Cleared({k})
  /\ updating' \in {0, k}
  /\ renewed' = renewed \cup {peerId[k]}
  /\ UNCHANGED <<timeVars, dbVars, carried, inherited, cacheVars, collectorVars, adding, refusing,
                 up>>

\* and from there to its PutPeer.
UpdatePut(k) ==
  /\ updating = k
  /\ \/ wgPeers' = wgPeers \cup {k}
     \/ "wg" \in Faults /\ UNCHANGED wgPeers
  /\ updating' = 0
  /\ UNCHANGED <<timeVars, dbVars, bytes, history, cacheVars, collectorVars, adding, refusing, up>>

-----------------------------------------------------------------------------
(* The collector and the rollup                                            *)

\* GetPeerStats of package wg and time.Now, before any lock, when the ticker has
\* fired.
CollectDump ==
  /\ up /\ collector = "idle"
  /\ ticked
  /\ ticked' = FALSE
  /\ collector' = "dumped"
  /\ at' = clock
  /\ snap' = [k \in Key |-> IF k \in wgPeers THEN bytes[k] ELSE Absent]
  /\ UNCHANGED <<clock, stepped, dbVars, wgVars, history, cacheVars, handlerVars, up>>

\* It takes the cache's mutex first.
CollectLock ==
  /\ collector = "dumped"
  /\ collector' = "locked"
  /\ UNCHANGED <<timeVars, dbVars, wgVars, history, cacheVars, snap, at, handlerVars, up>>

\* The keys of the dump that the cache knows.
Known == { k \in Key : snap[k] # Absent /\ cache[k] # 0 }

\* UpdatePeerHandshakeData for the entries `updated' of the cache.  It is given a pointer
\* to the time, which is the zero time of a peer that had no handshake, not NULL.
ShownAfter(updated) ==
  [k \in Key |->
     LET own == { j \in updated : cache[j] = peerId[k] }
     IN IF own = {} THEN shown[k]
        ELSE IF \E j \in own : StatOf(snap[j]).handshake THEN "handshake" ELSE "zero"]

\* Which of several statements succeed.
Succeeding(keys) == IF "db" \in Faults THEN SUBSET keys ELSE {keys}

\* Under both locks.  Calculate is called on a copy of the map's entry, so what
\* it remembers of the current period is lost; a statement that fails is not
\* noticed.
CollectWrite ==
  /\ collector = "locked" /\ Free
  /\ \E written, updated \in Succeeding(Known) :
       /\ rows' = rows \cup { [at |-> at, id |-> cache[k],
                               total |-> Total(calc[k], StatOf(snap[k])).tx] : k \in written }
       /\ shown' = ShownAfter(updated)
  /\ collector' = "idle"
  /\ snap' = [k \in Key |-> Absent] /\ at' = 0
  /\ UNCHANGED <<timeVars, peerId, nextPeer, wgVars, history, cacheVars, handlerVars, up>>

\* A rollup that fails is a transaction that is rolled back.
Rollup ==
  /\ "rollup" \in Ops /\ Free
  /\ rows' = RolledUp(Oldest)
  /\ UNCHANGED <<timeVars, peerId, nextPeer, shown, wgVars, history, cacheVars, collectorVars,
                 handlerVars, up>>

-----------------------------------------------------------------------------
(* Death and start of the process                                          *)

\* The interface and the committed rows outlive the process.
Crash ==
  /\ "crash" \in Ops
  /\ up
  /\ up' = FALSE
  /\ adding' = 0 /\ refusing' = 0 /\ updating' = 0
  /\ RowDropped
  /\ cache' = [k \in Key |-> 0]
  /\ calc' = [k \in Key |-> NewCalc]
  /\ collector' = "idle"
  /\ snap' = [k \in Key |-> Absent] /\ at' = 0
  /\ ticked' = FALSE
  /\ UNCHANGED <<clock, stepped, dbVars, wgVars>>

\* Defect: the total starts at zero.
FreshCalc(id) == NewCalc

\* Every peer goes on from its last total.
LoadedCalc(id) == MakeTotalStatsCalc(LastTotal(id, NoLimit), LastTotal(id, NoLimit))

\* Defect: PutPeer without RemovePeer before it.
NoneRemoved == {}

\* The peers prepareWGAndPeerStatsCache removes before it puts them.
Removed == Registered

\* prepareWGAndPeerStatsCache and the first rollup.
Start ==
  /\ ~up
  /\ up' = TRUE
  /\ wgPeers' = wgPeers \cup Registered
  /\ bytes' = Cleared(Removed)
  /\ cache' = peerId
  /\ calc' = [k \in Key |-> IF peerId[k] = 0 THEN NewCalc ELSE LoadedCalc(peerId[k])]
  /\ rows' = RolledUp(Oldest)
  /\ UNCHANGED <<timeVars, peerId, nextPeer, shown, history, collectorVars, handlerVars>>

-----------------------------------------------------------------------------

Init ==
  /\ clock = RollupAfter /\ stepped = FALSE /\ ticked = FALSE
  /\ peerId = [k \in Key |-> 0] /\ nextPeer = 1 /\ shown = [k \in Key |-> "null"] /\ rows = {}
  /\ wgPeers = {} /\ bytes = [k \in Key |-> 0]
  /\ carried = [i \in Id |-> 0] /\ renewed = {} /\ inherited = {}
  /\ cache = [k \in Key |-> 0] /\ calc = [k \in Key |-> NewCalc]
  /\ snap = [k \in Key |-> Absent] /\ at = 0 /\ collector = "idle"
  /\ adding = 0 /\ refusing = 0 /\ updating = 0 /\ up = TRUE

Step ==
  \/ \E k \in Key : \/ Transfer(k) \/ AddPut(k) \/ AddCommit(k) \/ AddFails(k) \/ Refuse(k)
                     \/ RollBack(k) \/ DeletePeer(k) \/ UpdateReset(k) \/ UpdatePut(k)
  \/ Tick \/ StepBack \/ CollectDump \/ CollectLock \/ CollectWrite \/ Rollup \/ Crash \/ Start

Spec == Init /\ [][Step]_vars

\* Time passes, the collector runs when its ticker fires and gets node.db's mutex if that
\* is free ever again, a handler goes on that can, and the service is started again.
Fairness ==
  /\ WF_vars(Tick) /\ WF_vars(CollectDump) /\ WF_vars(CollectLock) /\ SF_vars(CollectWrite)
  /\ \A k \in Key : WF_vars(AddCommit(k)) /\ WF_vars(RollBack(k)) /\ WF_vars(UpdatePut(k))
  /\ WF_vars(Start)

FairSpec == Spec /\ Fairness

-----------------------------------------------------------------------------
(* Properties                                                              *)

TypeOK ==
  /\ clock \in Time /\ stepped \in BOOLEAN /\ ticked \in BOOLEAN
  /\ peerId \in [Key -> Id \cup {0}] /\ nextPeer \in 1..MaxPeerId + 1
  /\ shown \in [Key -> {"null", "zero", "handshake"}]
  /\ \A k \in Key : peerId[k] = 0 => shown[k] = "null"
  /\ rows \subseteq [at : Time, id : Id, total : Nat]
  /\ wgPeers \subseteq Key /\ bytes \in [Key -> 0..MaxBytes]
  /\ carried \in [Id -> 0..MaxBytes] /\ renewed \subseteq Id /\ inherited \subseteq Id
  /\ cache \in [Key -> Id \cup {0}]
  /\ \A k \in Key : calc[k].prevTx \in Nat /\ calc[k].cur = NoStat
  /\ snap \in [Key -> 0..MaxBytes \cup {Absent}] /\ at \in Time
  /\ collector \in {"idle", "dumped", "locked"}
  /\ adding \in Key \cup {0} /\ refusing \in Key \cup {0} /\ updating \in Key \cup {0}
  /\ up \in BOOLEAN

\* <<from_ms, to_ms>>; 0 stands for a limit that is not given.
Windows == { w \in Time \X Time : w[1] <= w[2] \/ w[2] = 0 }

\* No answer of GET /peers/{pubkey}/stat claims more bytes than the kernel
\* carried for that peer: no byte is booked twice across collections, restarts
\* and rollups, and none is booked to a peer that did not send it, not even when
\* the wall clock has been set back and later rows have earlier timestamps.  The one
\* exception is a row whose POST took over a peer that an earlier POST had left in the
\* interface, because it failed or the process died behind its PutPeer.
NeverOverbilled ==
  \A k \in Registered : \A w \in Windows :
    peerId[k] \notin inherited => GetPeerStats(peerId[k], w[1], w[2]) <= carried[peerId[k]]

\* "Remove subnets that possibly were added" and the cache's entry (peers.go:205-212):
\* a POST that fails leaves nothing behind, so that a later row with its key is charged
\* with its own traffic only.  The code leaves the peer in the interface.
OwnBytesOnly ==
  \A k \in Registered : \A w \in Windows :
    GetPeerStats(peerId[k], w[1], w[2]) <= carried[peerId[k]]

\* No window has a negative transfer: the totals of a peer never drop, neither
\* at a restart nor where a rollup has put one row for many, unless PUT /peers
\* has recreated the peer or the wall clock was set back.
NeverNegative ==
  \A k \in Registered : ~stepped /\ peerId[k] \notin renewed =>
    \A w \in Windows : GetPeerStats(peerId[k], w[1], w[2]) >= 0

\* "newPeriod expected to be true" (peerstats/stats_test.go:57-67): the total of a peer
\* goes on when the peer is recreated.  The code calculates on a copy.
RecreatedGoesOn ==
  \A k \in Registered : \A w \in Windows : GetPeerStats(peerId[k], w[1], w[2]) >= 0

\* "ORDER BY timestamp_ms DESC LIMIT 1" (queries.sql:104) has one answer: a late
\* collection and a rollup never leave two rows of a peer at one instant.
OneRowPerInstant == \A r, s \in rows : r.id = s.id /\ r.at = s.at => r = s

\* A rollup changes no answer about a window that begins behind the rows it
\* has replaced, and it forgets no byte that was booked.
RollupKeepsAnswers ==
  [][\A k \in Registered : \A w \in Windows :
       rows' # rows /\ collector' = collector /\ (w[1] > Oldest \/ w[1] <= 1)
         /\ (w[2] >= Oldest \/ w[2] = 0)
         => GetPeerStats(peerId[k], w[1], w[2])' = GetPeerStats(peerId[k], w[1], w[2])]_vars

\* A time of a handshake other than the zero time is in a row of table peers only if its
\* own peer has transferred something since its PutPeer: what the collector has read
\* reaches the row it was read for, whatever POST, PUT and the rollup do before it is
\* written.  Rows that took over a peer left in the interface are excepted.
HandshakeShown ==
  \A k \in Key :
    shown[k] = "handshake" /\ peerId[k] \notin inherited => carried[peerId[k]] > 0

\* latest_handshake is "optional" (peers.go:38), and of a peer without handshake the dump
\* is to "prevent Jan 1 1970" (wg/wg.go:139): such a peer shows none.  The code stores,
\* and GET /peers shows, the year 1.
NeverConnectedShowsNone == \A k \in Key : shown[k] # "zero"

\* What a peer has transferred is booked in the end, unless the collector and a POST have
\* locked each other out: no other order of collection, POST and rollup, and no time that
\* passes between a dump and its writing, loses a byte of a peer that stays.
BookedInTheEnd ==
  \A k \in Key : \A n \in 1..MaxBytes :
    (peerId[k] # 0 /\ carried[peerId[k]] >= n) ~>
      (peerId[k] # 0 /\ LastTotal(peerId[k], MaxClock) >= n) \/ Deadlocked

=============================================================================
