------------------------------- MODULE Locking -------------------------------
(***************************************************************************)
(* Who holds which mutex when: every endpoint of the API, the collector    *)
(* and the rollup reduced to what they lock, unlock, read and write.       *)
(* node.db's mutex is a Go RWMutex, peerStatsCache's is only ever locked   *)
(* for writing.                                                            *)
(***************************************************************************)
EXTENDS Naturals, Sequences

CONSTANTS
  Worker,     \* goroutines that serve HTTP requests
  Endpoints   \* the endpoints that are called

Routine == {"collector", "rollup"}
Proc == Worker \cup Routine
Nobody == "nobody"

(* An instruction takes or releases a mutex, reads ("query") or writes     *)
(* ("exec", "tree", "commit") what node.db's mutex protects, stages a      *)
(* write in a transaction, runs wg, or answers the client.  "put" is a     *)
(* write that cannot fail or whose error is ignored.                       *)
Instruction ==
  {"rlock", "runlock", "lock", "unlock", "cacheLock", "cacheUnlock", "query", "exec",
   "tree", "stage", "commit", "put", "wg", "respond"}

\* What can end with an error.
Fallible == {"query", "exec", "tree", "stage", "wg", "commit"}
Reads == {"query", "stage"}
Writes == {"exec", "tree", "commit", "put"}

Reader(body) ==
  [body |-> <<"rlock">> \o body, done |-> <<"runlock", "respond">>,
   failed |-> <<"runlock", "respond">>]

Writer(body) ==
  [body |-> <<"lock">> \o body, done |-> <<"unlock", "respond">>,
   failed |-> <<"unlock", "respond">>]

\* Defect: the lock is dropped before getPeerStats.
PeerStatInTwo == Reader(<<"query", "runlock", "rlock", "query", "query">>)

\* getPeerStats: "DB must be rlocked during call" (stats.go:18).
PeerStat == Reader(<<"query", "query", "query">>)

\* Defect: the handler takes a lock that its caller has.
PeersStatNested == Reader(<<"query", "rlock", "runlock", "query", "query">>)

ListPeers == Reader(<<"query">>)
ReservedSubnets == Reader(<<"query">>)

\* getPeerStats is called for every peer: here for one.
PeersStat == Reader(<<"query", "query", "query">>)

\* Defect: a failing statement returns without Unlock.
UpdatePeerLeaking ==
  [Writer(<<"exec", "query", "wg", "wg">>) EXCEPT !.failed = <<"respond">>]

\* GET of one peer takes the mutex for writing, though it only reads.
GetPeer == Writer(<<"query">>)

\* A failed INSERT takes the prefix out of its tree again.
ReserveSubnet ==
  [Writer(<<"tree", "exec">>) EXCEPT !.failed = <<"put", "unlock", "respond">>]

\* The mutex of these two is held inside their Action only.
DeletePeer == Writer(<<"exec", "wg">>)
UpdatePeer == Writer(<<"exec", "query", "wg", "wg">>)

\* Action; Commit and Rollback both end with Unlock, Rollback after the trees
\* and peerStatsCache.Remove.
AddPeer ==
  [body |-> <<"lock", "stage", "tree", "stage", "wg", "cacheLock", "cacheUnlock", "commit">>,
   done |-> <<"unlock", "respond">>,
   failed |-> <<"put", "cacheLock", "cacheUnlock", "unlock", "respond">>]

\* The deferred unlocks of these two run after the answer is written.
PeerSubnets ==
  [body |-> <<"rlock", "query", "query">>, done |-> <<"respond", "runlock">>,
   failed |-> <<"respond", "runlock">>]
DeleteSubnet ==
  [body |-> <<"lock", "query", "tree", "exec">>, done |-> <<"respond", "unlock">>,
   failed |-> <<"respond", "unlock">>]

\* The dump is taken before the locks; its error ends the round.
Collect ==
  [body |-> <<"wg", "cacheLock", "lock", "put", "put">>,
   done |-> <<"unlock", "cacheUnlock">>, failed |-> <<>>]

\* Defect: the cache is locked under node.db's mutex.
RollupForgetting ==
  [body |-> <<"lock", "query", "stage", "stage", "cacheLock", "cacheUnlock", "commit">>,
   done |-> <<"unlock">>, failed |-> <<"unlock">>]

Rollup ==
  [body |-> <<"lock", "query", "stage", "stage", "commit">>,
   done |-> <<"unlock">>, failed |-> <<"unlock">>]

Script(name) ==
  CASE name = "listPeers" -> ListPeers
    [] name = "reservedSubnets" -> ReservedSubnets
    [] name = "peerStat" -> PeerStat
    [] name = "peersStat" -> PeersStat
    [] name = "peerSubnets" -> PeerSubnets
    [] name = "getPeer" -> GetPeer
    [] name = "addPeer" -> AddPeer
    [] name = "deletePeer" -> DeletePeer
    [] name = "updatePeer" -> UpdatePeer
    [] name = "reserveSubnet" -> ReserveSubnet
    [] name = "deleteSubnet" -> DeleteSubnet
    [] name = "collector" -> Collect
    [] name = "rollup" -> Rollup

\* Endpoints that refuse a malformed request before they lock anything.
Validating ==
  {"peerStat", "peersStat", "addPeer", "deletePeer", "updatePeer", "reserveSubnet",
   "deleteSubnet"}

Endpoint == Validating \cup {"listPeers", "reservedSubnets", "peerSubnets", "getPeer"}

ASSUME WorkerAssumption == Worker \cap (Routine \cup {Nobody}) = {}
ASSUME EndpointAssumption == Endpoints \subseteq Endpoint

VARIABLES
  todo,       \* the instructions a goroutine has left; <<>>: it is idle
  exit,       \* what it executes instead when one fails
  reads,      \* how often it has read-locked node.db
  writer,     \* who has called node.db.Lock and not yet Unlock: no new reader
  writing,    \* the writer is past Lock
  cacheLock,  \* who holds peerStatsCache's mutex
  view,       \* what its reads rest on: "none" yet, "fresh", "stale"
  bare,       \* who rolls back without the mutex that it will unlock once more
  broken      \* such an Unlock hit another's mutex: what follows is not modelled

lockVars == <<reads, writer, writing, cacheLock>>
vars == <<todo, exit, lockVars, view, bare, broken>>

-----------------------------------------------------------------------------

At(p, instruction) == todo[p] # <<>> /\ Head(todo[p]) = instruction

\* The next instructions of p and what the reads of everybody rest on.
Continue(p, instructions, views) ==
  /\ todo' = [todo EXCEPT ![p] = instructions]
  /\ view' = [views EXCEPT ![p] = IF instructions = <<>> THEN "none" ELSE @]
  /\ exit' = [exit EXCEPT ![p] = IF instructions = <<>> THEN <<>> ELSE @]
  /\ UNCHANGED broken

Advance(p) == Continue(p, Tail(todo[p]), view) /\ UNCHANGED bare

Begin(p, instructions, failed) ==
  /\ ~broken /\ todo[p] = <<>>
  /\ todo' = [todo EXCEPT ![p] = instructions]
  /\ exit' = [exit EXCEPT ![p] = failed]
  /\ UNCHANGED <<lockVars, view, bare, broken>>

Request(w) ==
  \E e \in Endpoints :
    \/ Begin(w, Script(e).body \o Script(e).done, Script(e).failed)
    \/ e \in Validating /\ Begin(w, <<"respond">>, <<>>)

Round(r) == Begin(r, Script(r).body \o Script(r).done, Script(r).failed)

\* RLock waits while a writer holds the mutex or has announced itself.
RLock(p) ==
  /\ At(p, "rlock")
  /\ writer = Nobody
  /\ reads' = [reads EXCEPT ![p] = @ + 1]
  /\ Advance(p)
  /\ UNCHANGED <<writer, writing, cacheLock>>

RUnlock(p) ==
  /\ At(p, "runlock")
  /\ reads' = [reads EXCEPT ![p] = @ - 1]
  /\ Advance(p)
  /\ UNCHANGED <<writer, writing, cacheLock>>

\* Lock first keeps further readers and writers out ...
Announce(p) ==
  /\ At(p, "lock")
  /\ writer = Nobody
  /\ writer' = p
  /\ UNCHANGED <<todo, exit, reads, writing, cacheLock, view, bare, broken>>

\* ... and then waits for the readers there are.
Lock(p) ==
  /\ At(p, "lock")
  /\ writer = p
  /\ \A q \in Proc : reads[q] = 0
  /\ writing' = TRUE
  /\ Advance(p)
  /\ UNCHANGED <<reads, writer, cacheLock>>

Unlock(p) ==
  /\ At(p, "unlock") /\ p \notin bare
  /\ writer' = Nobody /\ writing' = FALSE
  /\ Advance(p)
  /\ UNCHANGED <<reads, cacheLock>>

\* The second Unlock of a POST whose COMMIT failed: if no writer has the mutex, the
\* runtime ends the process, and it is started anew ...
UnlockFree(p) ==
  /\ At(p, "unlock") /\ p \in bare /\ writer = Nobody
  /\ todo' = [q \in Proc |-> <<>>] /\ exit' = [q \in Proc |-> <<>>]
  /\ reads' = [q \in Proc |-> 0] /\ cacheLock' = Nobody
  /\ view' = [q \in Proc |-> "none"]
  /\ bare' = {}
  /\ UNCHANGED <<writer, writing, broken>>

\* ... and if one has, it goes on without.
UnlockOthers(p) ==
  /\ At(p, "unlock") /\ p \in bare /\ writer # Nobody
  /\ broken' = TRUE
  /\ UNCHANGED <<todo, exit, lockVars, view, bare>>

LockCache(p) ==
  /\ At(p, "cacheLock")
  /\ cacheLock = Nobody
  /\ cacheLock' = p
  /\ Advance(p)
  /\ UNCHANGED <<reads, writer, writing>>

UnlockCache(p) ==
  /\ At(p, "cacheUnlock")
  /\ cacheLock' = Nobody
  /\ Advance(p)
  /\ UNCHANGED <<reads, writer, writing>>

\* A first read starts a view; a write makes the views of the others stale.
Work(p) ==
  /\ \E i \in Reads \cup Writes \cup {"wg"} :
       /\ At(p, i)
       /\ Continue(p, Tail(todo[p]),
            [q \in Proc |-> CASE q = p /\ i \in Reads /\ view[p] = "none" -> "fresh"
                              [] q # p /\ i \in Writes /\ view[q] = "fresh" -> "stale"
                              [] OTHER -> view[q]])
  /\ UNCHANGED <<lockVars, bare>>

Fail(p) ==
  /\ \E i \in Fallible : At(p, i) /\ ~(i = "commit" /\ p \in Worker)
  /\ Continue(p, exit[p], view)
  /\ UNCHANGED <<lockVars, bare>>

\* POST's Commit unlocks node.db even if COMMIT fails; then Rollback is run.
CommitFails(p) ==
  /\ At(p, "commit") /\ p \in Worker
  /\ writer' = Nobody /\ writing' = FALSE
  /\ bare' = bare \cup {p}
  /\ Continue(p, exit[p], view)
  /\ UNCHANGED <<reads, cacheLock>>

\* The answer is written; a client that does not read it is given up after
\* WriteTimeout.
Respond(p) == At(p, "respond") /\ Advance(p) /\ UNCHANGED lockVars

-----------------------------------------------------------------------------

Init ==
  /\ todo = [p \in Proc |-> <<>>] /\ exit = [p \in Proc |-> <<>>]
  /\ reads = [p \in Proc |-> 0] /\ writer = Nobody /\ writing = FALSE
  /\ cacheLock = Nobody
  /\ view = [p \in Proc |-> "none"]
  /\ bare = {} /\ broken = FALSE

\* Steps that only wait for mutexes that are held.
Take(p) == ~broken /\ (RLock(p) \/ Announce(p) \/ LockCache(p))

Run(p) ==
  /\ ~broken
  /\ \/ Lock(p) \/ RUnlock(p) \/ Unlock(p) \/ UnlockFree(p) \/ UnlockOthers(p)
     \/ UnlockCache(p) \/ Work(p) \/ Fail(p) \/ CommitFails(p) \/ Respond(p)

Next ==
  \/ \E w \in Worker : Request(w)
  \/ \E r \in Routine : Round(r)
  \/ \E p \in Proc : Run(p) \/ Take(p)

\* A runnable goroutine runs.  Go's mutexes hand over to whoever has waited for
\* more than a millisecond, and Unlock lets in the readers that wait before the
\* next writer.  The tickers tick, but no client has to send a request.
Fairness ==
  /\ \A p \in Proc : WF_vars(Run(p)) /\ SF_vars(Take(p))
  /\ \A r \in Routine : WF_vars(Round(r))

Spec == Init /\ [][Next]_vars /\ Fairness

-----------------------------------------------------------------------------
(* Properties                                                              *)

TypeOK ==
  /\ \A p \in Proc : todo[p] \in Seq(Instruction) /\ exit[p] \in Seq(Instruction)
  /\ reads \in [Proc -> 0..1]
  /\ writer \in Proc \cup {Nobody} /\ writing \in BOOLEAN
  /\ cacheLock \in Proc \cup {Nobody}
  /\ view \in [Proc -> {"none", "fresh", "stale"}]
  /\ bare \subseteq Worker /\ broken \in BOOLEAN

\* What a request answers, and what it, the collector or the rollup writes, rests on
\* one state of tables and trees: nobody else writes between the first read and the
\* last read or write of a call (main.go:56), as long as no POST rolls back a COMMIT
\* that failed, which it does without the mutex.
OneSnapshot ==
  bare = {} =>
    \A p \in Proc : view[p] = "stale" => \A i \in Reads \cup Writes : ~At(p, i)

\* Whatever fails, a call releases no mutex that it does not hold and returns with none,
\* but for a POST /peers whose COMMIT failed: its Rollback unlocks node.db although
\* Commit has (peers.go:191, 199).
LocksBalanced ==
  \A p \in Proc :
    /\ At(p, "runlock") => reads[p] > 0
    /\ At(p, "unlock") => (writer = p /\ writing <=> p \notin bare)
    /\ At(p, "cacheUnlock") => cacheLock = p
    /\ todo[p] = <<>> => reads[p] = 0 /\ writer # p /\ cacheLock # p

\* POST /peers holds node.db's mutex and wants the cache's, the collector holds the
\* cache's and wants node.db's (peers.go:324, stats_cache.go:174-176).
LockCycle ==
  /\ cacheLock = "collector" /\ At("collector", "lock")
  /\ \E w \in Worker : writer = w /\ writing /\ At(w, "cacheLock")

\* p cannot go on before q does.
Blocks(q, p) ==
  \/ At(p, "rlock") /\ writer = q
  \/ At(p, "lock") /\ writer = q /\ q # p
  \/ At(p, "lock") /\ writer = p /\ reads[q] > 0
  \/ At(p, "cacheLock") /\ cacheLock = q

\* Goroutines that wait for each other, be they all or some of them, do so because POST
\* /peers and the collector do: no other order of RLock, Lock and the cache's Lock in
\* any endpoint closes a circle, not even with a writer that keeps out readers or a
\* Rollback that is run without the mutex.
OnlyLockCycle ==
  \A S \in SUBSET Proc :
    S # {} /\ (\A p \in S : \E q \in S : Blocks(q, p)) => LockCycle

\* Every request is answered and every round of the collector and of the rollup ends
\* (with the process, if an Unlock is fatal), unless POST /peers and the collector wait
\* for each other or a failed COMMIT's second Unlock hits another's mutex: there is no
\* other way to hang, and no reader or writer starves.
CallsEndOrLockCycle ==
  \A p \in Proc : todo[p] # <<>> ~> (todo[p] = <<>> \/ LockCycle \/ broken)

=============================================================================
