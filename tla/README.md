# A TLA+ model of tanlnode

`tanlnode` serves one WireGuard interface. It keeps peers and their subnets in
SQLite, assigns addresses from in-memory trees, configures the interface with
`wg(8)`, and books the traffic of every peer. The repository is written in Go;
paths below are relative to its root.

## The system

| Component | State | Operations | What makes it correct |
|---|---|---|---|
| Allocation tree, `nettree/` | a binary trie with a wrapping counter in every node | Put, Delete, Overlaps, PutNthFree, Size, AllocateRandom | it is a set of disjoint prefixes; a random pick is free, uniform over the free addresses, and found whenever there is one |
| Subnet service, `subnets/subnets.go` | one tree for each net of `WG_ALLOC_NETS` | NewService, Reserve, Delete, AssignRandomInEachNet | all-or-nothing over the nets; trees rebuilt from the rows at a start |
| Peer handlers, `peers.go` | rows of `peers` and `subnets`; the trees; the interface; the cache | POST, GET, PUT, DELETE `/peers` | tables, trees, interface and cache agree between requests, whatever fails in one |
| Subnet handlers, `subnets.go` | rows of `subnets`; the trees | POST `/subnets/reserved`, DELETE `/subnets/{id}`, two GETs | table and trees agree |
| Transactions, `tx/` | a staged SQLite transaction | Action, Commit, Rollback | exactly one of commit and rollback takes effect |
| Statistics cache and collector, `stats_cache.go` | `peerStatsCache.m`, rows of `peer_stats` | collectStats, rollupOldStats, prepareWGAndPeerStatsCache | no byte booked twice or to somebody else, across resets of the kernel's counters |
| Total calculation, `peerstats/` | the total of past periods and the current period | Calculate | a total never drops, whether or not a reset is noticed |
| Statistics handlers, `stats.go` | none | GET `.../stat` | the difference of two totals |
| WireGuard service, `wg/`, `cmd/` | the kernel's interface | PutPeer, RemovePeer, GetPeerStats | |
| Mutexes of `db.DB` and `peerStatsCache` | readers, a writer, who holds the cache | RLock, Lock and their Unlocks in every handler, the collector and the rollup | a call rests on one state, releases what it took, and ends |
| Configuration, `main.go`, `example.conf` | `WG_ALLOC_NETS` | parseAllocNets, then a start | the rows of earlier starts still find their trees |
| Plumbing, `api.go`, `docs/` | | | |

**Interaction.** Handlers run concurrently and take `node.db`'s mutex, which
guards the tables and the trees. Inside it they call `wg` and, for POST
`/peers`, take the cache's mutex. The collector reads the interface without a
lock, then takes the cache's mutex, then the database's. A rollup takes the
database's mutex and works in a transaction. Lists and statistics are read under
the database's read lock. At a start the trees are rebuilt
from the rows, every peer is removed from the interface and put again, and the
cache is filled with the last totals.

**Hard behaviours.** Two mutexes in two orders; a transaction whose commit fails
after the mutex is released; steps over four stores (SQLite, memory, kernel,
cache) of which any can fail; death between any two of them; counters that the
kernel resets; a dump that is older than the locks; rollups that replace rows a
late collection may be stamped before; counters that wrap by design.
`PROJECT.json` lists each at its line, under "hazards".

## The modules

| Module | Models |
|---|---|
| `IPPrefix` | prefixes of a net as bit sequences, overlap, the hosts a new tree fixes |
| `Trie` | the trie of `nettree/tree.go` as a value: what its loops leave behind |
| `UintTree` | one trie in use: `nettree/tree.go`, and AllocateRandom of `nettree/ip.go` |
| `AddrPool` | the abstract specification of a tree: the list of ranges (`dumbUintTree`) that the package's own random test compares with |
| `Pools` | the allocation nets as sets of prefixes: reserve, put, drop, pick |
| `AllocNets` | `netip` prefixes with all their bits, parseAllocNets, in which net a prefix lies |
| `SubnetService` | `subnets/subnets.go` on tries of both IP versions, the handlers' use of it, and starts with changed nets |
| `SubnetPool` | the abstract specification of that service: sets of prefixes, on `Pools` |
| `Node` | handlers, mutexes, tables, trees, interface, cache's row ids, death and start |
| `NodeClaims` | statements of docs and comments about the node that the code does not keep |
| `NodeProofs` | theorems about `Node`: types, the mutex, the trees, the table and reservations, the cache's row ids |
| `NodeWgProofs` | theorems about `Node`: answers, the interface and its routes |
| `PeerStats` | `peerstats/stats.go` as pure operators |
| `TotalStat` | a calculator that is kept from call to call, as the package intends |
| `Traffic` | counters, cache with calculators, rows of `peer_stats`, handshakes, collector, rollup, restarts, the wall clock |
| `Locking` | every endpoint, the collector and the rollup as sequences of lock, unlock, read and write |
| `TrieProofs` | lemmas about `Trie`: what Put, Delete, Overlaps, the counters and the walk of PutNthFree do to the set of leaves |
| `SubnetServiceProofs` | theorems about `SubnetService`, its refinement of `SubnetPool` included |
| `UintTreeProofs`, `TotalStatProofs`, `TrafficProofs`, `LockingProofs` | theorems about the module each is named after |
| `MCNode`, `MCUintTree`, `MCSubnetService` | values of constants for TLC |

The address trees appear at three levels. `UintTree` shows that a trie is a list
of ranges (`AddrPool`). `SubnetService` shows that the tries of all nets, together
with the rows, are sets of prefixes (`SubnetPool`). `Node` has the sets only, and
adds concurrency and failures. `SubnetPool` and `Node` share the operators of
`Pools`, so what `Node` assumes of Reserve, Delete and the random assignment is
what the refinement establishes.

### Trie, UintTree and AddrPool

A node of the trie is named by the path to it, so `nodes` is the pointer
structure. `Inserted` and `Removed` state what the loops of Put and Delete leave
behind; `NthFree` is the descent of PutNthFree with wrapped subtraction, and a walk
that ends at an address in use is the code's `panic`. `ImplementsPool` is
`AddrPool`'s specification with the trie's leaves as `taken`: same answers, same
addresses. `AddrPool` orders the free addresses as numbers and picks the n-th, so
the refinement also shows that the walk by counters finds exactly the n-th free
address.

### SubnetService and SubnetPool

A prefix has an IP version, an address and a length. `PutError` is the answer of a
tree of either version, the panic at a prefix of the other version included;
`Tried` is the loop of Reserve over the trees, `Assigned` that of
AssignRandomInEachNet with its rollback, `Load` that of NewService over the rows.
`Start(ns)` may find any value of `WG_ALLOC_NETS`: `ParsedNets` is parseAllocNets,
and `Starts` what has to succeed before main goes on. A request is one step, since
it runs under `node.db`'s mutex; an INSERT fails when the table is full or for no
reason. A DELETE of a row that fails is left to `Node`. `TreesMatchRows` says what the
trees hold, as an equality: a rollback that gives back less than it took, a DELETE that
misses its tree or a start that reserves a shared row breaks it.

`SubnetPool` says the same in one condition per answer: a prefix is out of every net
(400), overlaps what its own net holds (409), or is taken. `WideningAccepts` is about
starts alone: if every net of the last start lies in a net of the next one, in any
order, the rows are accepted.

### Node

One action is one stretch of a handler between two points where somebody else
or a failure can be seen: a mutex, an SQL statement, a `wg` command. `pc[w]`
names where a handler is. The correspondence for POST `/peers`:

| action | `peers.go` |
|---|---|
| `Receive`, `LockDb` | 111-217, parsing and `db.Lock` |
| `AddRow` | 217-238, the row of `peers` |
| `AddReserve`, `AddAssignRandom` | 240-273 |
| `AddSubnetRows` | 275-291 |
| `AddPutPeer` | 293-310 |
| `AddPutNew` | 312-326, the endpoint port and the cache |
| `AddCommit` | 190-197, and the response 348-379 |
| `AddRollback`, `AddUncache` | 198-215 |
| `FatalUnlock` | 199 after 191: nobody holds the mutex, the process ends |

The other handlers, the collector (`Collect...`) and the start (`Start...`)
follow in the same way; `PROJECT.json`'s "map" has every definition.

What the model abstracts, and why that loses nothing the properties speak of:

* What a request asks is chosen when its handler has the mutex, and forgotten
  with the answer. Nothing depends on it outside, and it keeps the states few.
* Rows staged in a transaction appear in `peerId` and `subnets` with COMMIT. Only
  the handler that holds the mutex could see them before.
* GET of lists and statistics only read, under the read lock: they are in
  `Locking`. The GET of one peer, which locks for writing, is in both.
* An allowed IP belongs to one peer of the interface: `route` maps a prefix to
  it. `Destination` is the kernel's longest-prefix match.
* Foreign keys are not enforced: the connection is opened without
  `_foreign_keys`, so a deleted peer leaves its rows of `subnets`.
* Columns nothing depends on are left out: comment, owner, pre-shared key, keepalive.
* After a failed COMMIT the rollback runs without the mutex and then unlocks it, which
  ends the process (`FatalUnlock`) or lets go of the mutex of another handler, which
  will miss it at its own Unlock. The model follows both. That the rollback then changes
  the tries beside somebody else is a data race in the code; here each change is a step.
  The collector's work under both mutexes is one step, so its mutex is not taken away.

### Traffic

Under `node.db`'s mutex a handler is alone, as `Node` shows, but others can interfere
between its steps: the collector reads the interface before it has a lock, the process
may die, and POST wants the cache's mutex as well. So POST is two steps, up to PutPeer
(`AddPut`) and from PutNew on (`AddCommit`), or `AddPut`, `AddFails` and `RollBack`; a POST
that fails earlier is `Refuse` and `RollBack`. PUT is split between its RemovePeer and its
PutPeer. The collector is three steps: the dump, the cache's mutex, `node.db`'s mutex with
the writing. It and a POST can lock each other out (`Deadlocked`). Death may come between any
two of these steps, and leaves the interface as it is; a row that was not committed is gone.

A byte counts in both directions, so there is one counter; `TotalStat` has two. `carried`
(what a row of `peers` has really transferred, from its PutPeer on), `renewed` (rows whose
peer PUT has recreated) and `inherited` (rows whose POST found the peer in the interface
already, left there by a POST that failed, a death or a failed `wg` command) are history, read
by the properties only. `shown` is the column `latest_handshake_at`: NULL, the zero time, which
is what the collector stores for a peer that never connected, or the time of a handshake;
the endpoint is written by the same statement and left out. The collector waits less than
`StatRollupAfterSecs` (a week in `example.conf`) for locks it gets at all, and dumps once for
each tick of its ticker. `StepBack` sets the wall clock back once; the ticker, which runs on
the monotonic clock, goes on.

### Locking

A call is the sequence of its instructions: `body`, then `done`, and `failed` in
place of the rest when an instruction that can fail does. The sequences have the
order of the code: a deferred Unlock that runs after the answer is written stands
behind `respond`, POST's rollback changes the trees and takes the cache's mutex
before it unlocks. `Announce` and `Lock` are the two halves of Go's `RWMutex.Lock`:
keep new readers out, then wait for the readers there are, which is why a second
RLock under a first one can hang. `view` follows the reads of a call: a write by
somebody else makes them stale.

COMMIT can fail like every other statement. In POST it has released the mutex by then
(`CommitFails`), so the rollback is `bare`: it works without the mutex and comes to an Unlock
that is not its own. `UnlockFree`: nobody has the mutex for writing, and the runtime ends the
process. `UnlockOthers`: somebody has it or is about to, and loses it; what two writers do
side by side is not followed any further (`broken`).

## The runs

| Run | Question |
|---|---|
| `node_core` | two handlers and the collector interleaved, failing SQL: do tables, trees, interface and cache agree? |
| `node_faults` | every failure but a failing DELETE of a subnet row, death between any two steps, failing starts: is an address leaked or given twice, is a start ever refused, does a start repair the routes, is an answer of success true? |
| `node_routing` | an IPv4 and an IPv6 net that fill up: does every packet for an exclusive address reach its owner? |
| `trie_v6` | does the trie implement the list of ranges when its counters and the size computation are exactly as wide as its host bits? |
| `service` | do the tries of both versions do what the sets do, under requests, full tables and restarts with other nets, do the trees always hold what the table says, and which starts accept the rows? |
| `locks` | is every answer and every write based on one state, every mutex released by its holder and nobody else, every call ended, and which goroutines can wait for each other? |
| `total_stat` | does a kept calculator stay right when resets go unnoticed? |
| `traffic_books` | is a byte booked twice or does a total drop, with POSTs that are refused, fail or are cut off by a death behind PutPeer, restarts, rollups, a PUT during a collection and a clock that is set back? is a handshake stored for a peer that had none? |
| `traffic_any` | with keys that come back, and lost rows: do rollups keep answers, is the last row unique? |
| `traffic_live` | is every byte booked in the end, unless a POST and the collector lock each other out? |
| `claim_deadlock`, `claim_disabled` | counterexamples, see below |

The properties, by what they relate:

* `DbMutex`: the critical sections and the holder of the mutex.
* `TreeAgrees`: trees against rows, what requests under way hold, and what DELETE
  has freed and not yet dropped. It is an equality: no address leaks, none is
  lost, after any rollback or restart.
* `ExclusiveDisjoint`, `TreesDisjoint`: no address is given twice.
* `StartupAccepts`, `StartRestoresRoutes`: a start accepts what the node wrote and
  repairs what failed handlers left in the interface.
* `WgMatches`, `RoutesToOwner`, `ReachesOwner`: the interface against the rows. The
  last one is about single addresses and nested allowed IPs, and is checked
  without DELETE `/subnets` (see below).
* `AnswersAreTrue`: a 201 or 204 against tables, trees, interface and cache at the
  moment it is decided; and a peer that was committed is answered 201, unless the
  request asked to share a subnet (the nil Tree of `peers.go:357`).
* `TreesMatchRows`, `WideningAccepts`, `ImplementsPools`: the service's trees against the
  rows, across starts with other nets.
* `OneSnapshot`, `LocksBalanced`: what a call has read against what others write, as long
  as no POST is rolling back a failed COMMIT; what it holds against where it is, on every
  failing path. A goroutine is at an Unlock of `node.db` without holding it exactly if it
  is such a POST.
* `OnlyLockCycle`, `CallsEndOrLockCycle`: no goroutines wait for each other, all of them
  or some, but for the deadlock `claim_deadlock` shows; every call ends unless that happens
  or such a POST takes somebody's mutex away.
* `CacheIds`: no traffic under the row id of an earlier peer with the same key.
* `CountsAddUp`, `RootZeroMeansFull`: `checkInvariant` of `tree_test.go` and the
  comment of `tree.go:9`.
* `NeverMore`, `NeverDrops`, `NoFalseAlarm`, `NeverOverbilled`, `NeverNegative`,
  `OneRowPerInstant`, `RollupKeepsAnswers`, `HandshakeShown`, `BookedInTheEnd`: the
  books. A window may have no upper limit (`to_ms` 0). `NeverNegative` excludes
  peers recreated by PUT and clocks that were set back, where the code does answer
  negative transfers; `NeverOverbilled` does not. `NeverOverbilled` and `HandshakeShown`
  except the rows that took over a peer left in the interface, whose earlier traffic is
  booked to them (`claim_leftover`). `BookedInTheEnd` excepts the deadlock.

**Bounds.** `MaxPeerId` and `MaxSubnetId` stand for the largest row id; beyond it
an INSERT fails, as SQLite's does. Two keys let a key conflict, come back, and
take over another's prefix; three row ids let it come back twice. A net of two host
bits has room for a subnet, an address in it, an address beside it, and fills up
with the second random assignment. Two handlers are what mutual exclusion and
lost updates need; the theorems are for any number. The trie has height 3: an inner
node with an inner child, full halves, a wrapping root. In `Traffic` a
rollup's age is two ticks, in `traffic_books` one, and three or four more follow; a row can be lost, written late, rolled
up, and rolled up again. `MaxBytes` lets a counter grow, be reset and grow again. One
key and one row id are enough for `traffic_books`: a POST that fails gives its id back,
so that a row, the death before it and the POST after it all have the same. There no
statement of the collector fails; to the books a lost row is a round that was not run,
and the theorems include it. `traffic_live` has two keys, one that stays and one whose
POST may lock out the collector, and no restart, for the bytes of a counter that a start
resets are lost. The states are 4.0 million for `traffic_books`, 3.4 for `traffic_any`,
5.0 for `node_faults`, 3.1 for `node_core`, and below 0.7 for each other run.
Traffic ends one instant before the time does, so the last bytes can be collected.
`SubnetService` has IPv4 addresses of 3 bits and IPv6 addresses of 4, with counters
of 3 bits: nets of 2 and 3 host bits, one too small and one too large for its
counters, nets that overlap or have host bits, one that is the widening of two
others. Three row ids let a row be deleted and its prefix be given again beside
another. `Locking` has two requests at a time: a cycle among the two mutexes needs at
most one goroutine for each, plus a writer that keeps readers out; the loop of
GET `/peers/stat` over the peers is one round, whose locks are the same as those of
many.

**Fairness.** A runnable goroutine runs (weak fairness of `HandlerStep`,
`CollectDump`, `StartStep`). Taking a mutex is strongly fair: Go's mutexes switch
to handing over in order after a millisecond of waiting. Clients, failures and
death have no fairness. In `Traffic` the ticker, time, and a POST or PUT that has begun
are fair; the collector's taking of `node.db`'s mutex is strongly fair, which gives it
the mutex if that is free ever again, and nothing while a POST holds it and waits for the
cache's mutex (`Deadlocked`). In `Locking` an instruction
that can run runs, taking a mutex that is free again and again is strongly fair
(RWMutex lets the waiting readers in before the next writer), and the tickers tick.

**Deadlock** is checked except in `node_core` and `locks`, which reach the deadlock
described below and check properties around it, `claim_deadlock`, and the runs of
`Traffic`, whose time ends.

## Counterexamples

Two runs expect a violation.

* `claim_deadlock`: POST `/peers` holds `node.db` and wants the cache's mutex
  (`peers.go:324`), the collector holds the cache's and wants `node.db`
  (`stats_cache.go:174-176`). Without the collector every accepted request of
  `Node` is answered; `node_answers.cfg`, to be run by hand, has TLC show it.
* `claim_disabled`: a start puts every peer into the interface, disabled ones too
  (`stats_cache.go:140-147`), while PUT does so only if the peer is enabled.

More of them are kept as configurations to be run by hand with
`tlc -config claim_x.cfg`, on `MCNode` or, for the last four, on `Traffic`.

| Configuration | Property | What it shows |
|---|---|---|
| `claim_stats` | `CacheCoversPeers` | a POST refused because the key exists takes the existing peer out of the cache (`peers.go:212`) |
| `claim_mutex` | `DbMutex` | after a failed COMMIT the rollback runs without the mutex, and unlocks it again (`peers.go:191-199`) |
| `claim_commit` | `TreeAgrees` | beside a second handler: the second Unlock of such a rollback releases the other one's mutex, and a third request gets in between its tree and its row |
| `claim_commit_answer` | `AnswersAreTrue` | the rollback removes the cache entry that a second POST of the key has just made (`peers.go:212`), which then answers 201 |
| `claim_cascade` | `CascadeHolds` | rows of `subnets` outlive their peer, although the schema cascades |
| `claim_unique` | `ExclusiveDisjoint` | DELETE `/subnets` frees the tree, fails to delete the row, and the prefix is given again next to it, although the migration says rows are unique; the next start refuses the table |
| `claim_created` | `CreatedAnswered` | POST with a subnet that may overlap creates the peer and panics at a nil Tree (`peers.go:357`) |
| `claim_notfound` | `GetMissing404` | GET of an unknown peer answers 400, documented as 404 |
| `claim_exclusive` | `ReachesOwner` | DELETE `/subnets` of a peer's subnet leaves it among the peer's allowed IPs |
| `claim_recreated` | `RecreatedGoesOn` | the collector calculates on a copy of the cached calculator: a peer recreated by PUT starts from its old total again, and a period gets a negative transfer |
| `claim_leftover` | `OwnBytesOnly` | a POST fails behind PutPeer, or the process dies there, and the peer stays in the interface; what it transfers is booked to the next POST's row |
| `claim_handshake` | `NeverConnectedShowsNone` | the collector stores a pointer to the zero time of a peer that never connected (`stats_cache.go:199`): GET `/peers` shows the year 1 instead of nothing |
| `claim_stale_dump` | `NeverOverbilled` | a dump taken before DELETE and POST of one key is booked to the new peer |

## The proofs

The theorems hold for every value of the constants that satisfies the assumptions of
their module: any number of handlers and keys, any nets, any lists a request may ask
for, any trie. Where a theorem has a hypothesis about `Faults` or `Ops`, the code
breaks the property without it, as TLC shows on instances of the runs' size, and the
table says where.

`CommitAlone`, the hypothesis of seven theorems about `Node`, says that COMMIT does not
fail or that a lone handler, without the collector, is all there is. The code always has
more, so what these theorems say of the code is: as long as no COMMIT fails. A failed COMMIT
beside another handler breaks six of the properties (`claim_commit`, `claim_commit_answer`,
and with deaths and DELETEs of peers and subnets `ExclusiveDisjoint`, `StartupAccepts`, `CacheIds` and
`RoutesToOwner` too). The seventh, `TreesDisjoint`, still holds in the model, where each change
of a trie is one step; the code's tries are then changed in a data race, and nothing is
claimed of them.

| Theorem | Property | Hypothesis, and what breaks the property without it |
|---|---|---|
| `TypeCorrect` | `TypeOK` of `Node` | |
| `MutexSafe` | `DbMutex` | COMMIT does not fail: the rollback runs without the mutex (`claim_mutex`) |
| `TreesNeverOverlap` | `TreesDisjoint` | `CommitAlone` |
| `NeverFatal` | `NoFatal` of `NodeProofs`: no handler unlocks a mutex nobody holds | COMMIT does not fail |
| `TreesMatchTable` | `TreeAgrees` | `CommitAlone`; no DELETE of a subnet's row fails: the tree is freed before (`claim_unique`) |
| `RowsNeverOverlap` | `ExclusiveDisjoint` | the same |
| `StartNeverRefused` | `StartupAccepts` | the same |
| `CacheNeverStale` | `CacheIds` | `CommitAlone` |
| `AnswersHold` | `AnswersAreTrue` | `CommitAlone` |
| `InterfaceMatches` | `WgMatches` | only SQL statements fail: a failed `wg` command, a failed COMMIT or a death leaves the interface as it is until the next start |
| `RoutesFollowTable` | `RoutesToOwner` | `CommitAlone`; no `wg` command and no reading of a peer's subnets fails, which leaves PUT's peer out of the interface; no DELETE of a subnet's row fails. A POST that fails or a death takes no route from anybody. |
| `StartRepairs` | `StartRestoresRoutes` | |
| `PacketsReachOwner` | `ReachesOwner` | as for `InterfaceMatches`, and no DELETE `/subnets` (`claim_exclusive`): a failed POST leaves allowed IPs that may be nested in a prefix given later |
| `CalcTyped`, `NothingCountedTwice`, `TotalsGrow`, `AlarmsAreTrue` | `TypeOK`, `NeverMore`, `NeverDrops`, `NoFalseAlarm` of `TotalStat` | |
| `LocksTyped`, `LocksGivenBack`, `SnapshotsHold`, `OneDeadlockOnly` | `TypeOK`, `LocksBalanced`, `OneSnapshot`, `OnlyLockCycle` of `Locking` | |
| `TrafficTyped` | `TypeOK` of `Traffic` | |
| `LastRowUnique`, `AnswersOutliveRollups` | `OneRowPerInstant`, `RollupKeepsAnswers` | the wall clock is not set back: a second row may get the timestamp of an earlier one, and which of them is the last is then up to SQLite, so that nothing is claimed of a rollup either |
| `NothingTakenBack` | `NeverNegative` | no DELETE `/peers` (`claim_stale_dump`: a dump of the former peer is booked, and the new counter starts from less) |
| `NothingOverbilled`, `HandshakesAreOwn` | `NeverOverbilled`, `HandshakeShown` | no DELETE `/peers` (`claim_stale_dump`) |
| `ServiceTyped`, `TreesHoldRows`, `WideningHolds` | `TypeOK`, `TreesMatchRows`, `WideningAccepts` of `SubnetService` | |
| `PrefixesGivenOnce` | `GivenOnce` of `SubnetServiceProofs`: no exclusive row lies in another one, each lies in a net of the last start | |
| `ServiceIsPools` | `ImplementsPools` of `SubnetService` | |
| `TreeTyped`, `CountersStayRight`, `RootTells` | `TypeOK`, `CountsAddUp`, `RootZeroMeansFull` of `UintTree` | |
| `TreeIsPool` | `ImplementsPool` of `UintTree` | a host is fixed, or the size is wider than the net: the size of an empty tree is 0 otherwise. The trees of `nettree/ip.go` always hold host 0. |

**Node.** `TypeOK` is not inductive, because a step reads fields of the request its
handler serves; with `RequestFits` (`req[w]` is of the kind `pc[w]` says) it is.
`MutexMove` states the four ways a step can move a handler and the mutex. For the trees
alone it is enough to look at the five ways they change (`ReservedApart`, `RowsApart`).

`TreeAgrees` says what the trees hold, not why it can become rows. `BookInv` adds that
handlers in a critical section are alone (`Alone`, by `MutexSafe` when COMMIT does not
fail and by `CommitAlone` when it does) and hold the mutex up to their first Unlock
(`Holding`), that a request holds in the
trees exactly what its list asks for (`HeldRight`), and that this is clear of the
networks' hosts, of itself and of the rows (`HeldFits`). Its proof has one lemma for each
way the books move: `TakeMove`, `GiveBackMove`, `BookMove`, `FreeMove`, `UnbookMove`,
`StayMove`. `StartupAccepts` follows, since a start puts only what fits. `CacheInv`
adds to `CacheIds` what a POST has done to the cache and what it must still undo.

`AnswerInv` says what a handler has done so far of what it will answer (`AddSoFar`,
`DeleteSoFar`, `UpdateSoFar`, `SubnetSoFar`); it needs that ids are given once
(`IdInv`). `MatchInv` and `RoutesInv` are `WgMatches` and `RoutesToOwner` with the exception
narrowed to the steps that do change the interface (`Touching`). A POST that fails
behind PutPeer has a key without a row and prefixes that are clear of every row, so its
leftovers take nobody's route. `StartInv` is the loop
of a start: NewService has accepted the rows, no handler is at work, peers that have been put have their routes, and the peers still to come take
none away, because exclusive rows are disjoint. `RowInv` says that whatever is routed
is a row, a reservation about to be one, or shared; a route nested in another's prefix
would be an overlap of rows, hence `ReachesOwner`.

**Locking.** Which mutexes a goroutine holds is read off the instructions it has left:
it holds one exactly if the next of them about this mutex releases it (`HeldAt`). A
script is sound if what it takes it releases before it takes it again, and if it
touches the database only under its mutex (`Sound`), and a failing instruction goes on
with a script that releases the same (`Recovers`). `ScriptsFit` checks this of every
script, and the rest does not depend on what the scripts are. `OrderInv` adds the order
of the mutexes: a script locks `node.db` for reading and nothing else, or never for
reading; only the collector locks it under the cache's mutex, and the collector never
takes the cache's mutex under it. So a goroutine that waits holds nothing, or it is a
request that holds `node.db` and wants the cache, or the collector the other way round
(`WhoWaits`), and a circle of waits holds these two.

The exception is a call whose COMMIT failed, which rolls back without `node.db` and
unlocks it once more. `LockInv` excepts those calls (`bare`): everybody else holds
`node.db` exactly if the instructions left release it. `BareInv` says that a call of
`bare` has only its rollback and that second unlock ahead, and `ViewInv` speaks of stale
views only while `bare` is empty.

**Totals.** `CalcInv` says how far a calculator is behind the traffic, before and after a
reset it may not notice (`Booked`).

**Traffic.** `TimeInv`: a dump is younger than every row until it is written, and
younger than what a rollup replaces. `BooksInv`: no row, no calculator with the counters
it will be given next, and no dump is ahead of what the kernel has carried
for the row of the peer, which is also the row that a POST has written and not yet
committed (`RowOf`). Rows that took over the peer of a POST that a death cut off
(`inherited`) are excepted. `GrowInv`: for
a peer that was not recreated, a later row has no smaller total, and what is about to be
booked is not behind what was booked. `LastRowUnique` is what makes "the last row"
well-defined for `RollupKeepsAnswers`.

**Trie.** `Sound(t)`: every node has its parent, and its counter is the number, modulo
the width, of addresses that the leaves below it take. `Used` is a set of addresses
and `UsedSplit`, `UsedCount` its two halves, so the counters are cardinalities and the
wrapped sums of the code are sums of sets. `InsertedIs` and `RemovedIs` are the loops
of Put and Delete, `UsedAddrsIs` and `FreeAddrsIs` the size, `NthFreeFinds` the walk: with
`n` free addresses before it, a free address is the one drawn for `n`, and it is unique.
`HostIs` relates the order of paths to the order of the numbers `AddrPool` speaks of.
Inductions over the height run over a set of numbers (`NatsAreAll`, from the
well-foundedness of `<`), which needs no operator as a parameter. `StepIsPoolStep` maps
every step to one of `AddrPool` or to a stutter.

**Subnet service.** `TreesMatchRows` is not inductive: between two runs there are no
trees, and the next start must find room for rows that were written under other nets.
`Inv` therefore says of the rows what a start relies on, while the process is down too
(`GoodRows`): each exclusive prefix fits into one of the nets of the last start, beside
its network and broadcast hosts, and none lies in another. The nets can have trees
(`Usable`), and while the process runs the trees are `Sound` and hold the rows
(`Built`). A prefix fits if it has a bit that is not 0 behind the net's mask, and in an
IPv4 net one that is not 1 (`FitsIs`); a wider net looks at more bits, so what fits into
a net fits into every net around it (`FitsWider`), hence `WideningAccepts`.

`ReserveIs` and `DeleteIs` reduce the loops of Reserve and Delete over the nets to the
one net that has the prefix (`OneNet`). The loop of NewService over the rows and that of
the rollback over the prefixes run in no particular order: they are folds over sets,
unfolded by `LoadFolds` and `GiveFolds` and followed over the subsets by `SubsetsAreAll`, an
induction that needs no operator as a parameter either. `LoadIs` says that the loop ends
without an error exactly if the rows are good, and what the trees then hold; `GivenBackIs`
that a rollback takes out what was put in. `AssignedNone` and `AssignedAll` are
AssignRandomInEachNet with its own rollback, on `FreeAddrsIs` and `NthFreeFinds`; a tree
always holds host 0, so its size does not overflow.

`ServiceIsPools` maps each action to the one of `SubnetPool` with the same answer
(`StartIsStart`, `ReserveIsReserve`, `AssignIsAssign`, `DeleteIsDelete`): `Shown`, the
leaves of the trees, is `HeldAll`, what the rows say, before and after each request
(`ShownNow`), and a row more or less is a prefix put or dropped (`PutHeld`, `DropHeld`).
A DELETE always finds its prefix in the trees, so the warning of `subnets.go:191` is never
logged unless a DELETE of a row has failed before.

Every inductive invariant was checked by TLC before it was proved, on the instances
of `node_core`, `node_faults`, `node_routing`, `service`, `locks`, `total_stat`,
`traffic_books`, `traffic_any` and `trie_v6`.

**Only model-checked.** Liveness, which the prover does not reach: `CallsEndOrLockCycle`,
`BookedInTheEnd`, `RequestsAnswered`. Every invariant, action property and refinement of
a run has a theorem. That `Node` may use sets where the code has tries is what `ServiceIsPools`
and `TreeIsPool` establish for requests that run alone, as they do under `node.db`'s mutex
(`MutexSafe`); that `Node`'s longer handlers do in several steps what `SubnetService` does in
one is read off the two modules, not proved.

## Not modelled

HTTP, TLS, parsing and formatting, running `wg` and reading its output, logging,
generated code and API documentation. The configuration but for `WG_ALLOC_NETS`. A
`wg` command ends or fails in every model; `cmd/cmd.go:32` gives it no timeout, and
one that hangs under the mutex stops the node, which no property could deny. Columns
of `peers` and `subnets` nothing depends on. A row of `subnets` whose prefix cannot be
parsed, since only the handlers write them. `SubnetService` leaves a failing
DELETE of a row to `Node`. What happens once a second Unlock has taken a mutex from its
holder: `Locking` stops there, `Node` goes on without the data races on the tries, `Traffic`
has no failing COMMIT that goes on without the mutex. The clock is set back at most once,
and never to before the age of a rollup.

## What could follow

Every component with logic of its own is modelled, and every safety property of the runs
is proved. Left to do:

1. `Node` as a refinement of a node whose requests are one step each, which would join
   `SubnetPool` and `Node` by a theorem. The rows of `Node` appear with COMMIT, after the
   trees have changed, so it needs a map that takes back what requests under way hold.
2. A failing DELETE of a row in `SubnetService`: it ends the refinement, as `claim_unique` shows
   for `Node`, and what is left of it then (a start that refuses the table) has no
   abstract specification yet.
