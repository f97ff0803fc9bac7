-------------------------------- MODULE Node --------------------------------
(***************************************************************************)
(* The running node: HTTP handlers, the statistics collector, the SQLite   *)
(* tables, the in-memory allocation trees, the statistics cache, the       *)
(* kernel's WireGuard peers, process death and the next start.             *)
(*                                                                         *)
(* One handler action is one stretch of a handler between two points where *)
(* another goroutine, a failure or the death of the process can be seen:   *)
(* taking or releasing node.db's mutex or the cache's mutex, one SQL       *)
(* statement, one wg command.                                              *)
(***************************************************************************)
EXTENDS Pools

CONSTANTS
  Handler,      \* goroutines that serve HTTP requests
  Key,          \* public keys; < is the order of their base64 text
  Heights,      \* host bits of each net of WG_ALLOC_NETS, in that order
  Broadcast,    \* the nets that are IPv4 nets
  AddLists,     \* values of allowed_addresses tried in POST /peers
  ReserveSubs,  \* subnets tried in POST /subnets/reserved
  Ops,          \* the operations that occur
  Faults,       \* the failures that occur
  MaxPeerId,    \* largest rowid of table peers   (SQLITE_FULL beyond it)
  MaxSubnetId   \* largest rowid of table subnets (SQLITE_FULL beyond it)

Operation ==
  {"add", "delete", "update", "get", "reserve", "deleteSubnet", "collect"}

\* An SQL statement fails when the client disconnects (it runs under
\* r.Context()) or the disk does.  "db": a handler's first statements;
\* "listSubnets": GetPeerSubnets of apiUpdatePeer; "dropRow": the DELETE of
\* apiDeleteSubnet; "commit": COMMIT.  "wg": a wg command fails and leaves the
\* interface as it was.  "port": no endpoint port can be picked.  "crash": the
\* process dies.
Fault == {"db", "listSubnets", "dropRow", "commit", "wg", "port", "crash"}

Net == 1..Len(Heights)

Prefix == (UNION { [net : {n}, path : Path(Heights[n])] : n \in Net })
            \cup [net : {NoNet}, path : {<<>>}]

Subnet == [prefix : Prefix, may : BOOLEAN]

ASSUME HandlerAssumption == {"free", "collector"} \cap Handler = {}
ASSUME KeyAssumption == Key \subseteq Nat \ {0}
ASSUME HeightsAssumption == Heights \in Seq(Nat \ {0, 1}) /\ Broadcast \subseteq Net
ASSUME RequestAssumption == AddLists \subseteq Seq(Subnet) /\ ReserveSubs \subseteq Subnet
ASSUME ScopeAssumption == Ops \subseteq Operation /\ Faults \subseteq Fault
ASSUME BoundAssumption == MaxPeerId \in Nat \ {0} /\ MaxSubnetId \in Nat \ {0}

Request ==
  [op : {"add"} \cap Ops, key : Key, list : AddLists]
    \cup [op : {"delete", "get"} \cap Ops, key : Key]
    \cup [op : {"update"} \cap Ops, key : Key, enabled : BOOLEAN]
    \cup [op : {"reserve"} \cap Ops, sub : ReserveSubs]
    \cup [op : {"deleteSubnet"} \cap Ops, id : 1..MaxSubnetId]

NoRequest == [op |-> "none"]

VARIABLES
  \* Table peers: the row id of a key (0: no row), is_enabled.
  peerId, enabled,
  \* Table subnets: rows [id, prefix, owner, may]; owner 0 is a NULL peer_id.
  subnets,
  \* The next AUTOINCREMENT id of each table.
  nextPeer, nextSubnet,
  \* The kernel: peers of the interface, and who an allowed IP routes to.
  wgPeers, route,
  \* Memory of the process: the trees' leaves, peerStatsCache.m (id or 0).
  tree, cache,
  \* node.db's mutex and peerStatsCache's mutex: "free" or who holds it.
  dbLock, cacheLock,
  \* Handlers: where they are, the request, its parsed subnets, those of them
  \* with a non-nil Tree, the HTTP status of the response.
  pc, req, list, held, reply,
  \* The goroutine of collectStatsRoutine; the process, and the peers its
  \* start has still to prepare (or, having failed, to remove again).
  collector, boot, todo

dbVars == <<peerId, enabled, subnets, nextPeer, nextSubnet>>
wgVars == <<wgPeers, route>>
memVars == <<tree, cache>>
lockVars == <<dbLock, cacheLock>>
handlerVars == <<pc, req, list, held, reply>>
procVars == <<collector, boot, todo>>
vars == <<dbVars, wgVars, memVars, lockVars, handlerVars, procVars>>

-----------------------------------------------------------------------------
(* Rows, trees and the kernel                                              *)

DbKeys == { k \in Key : peerId[k] # 0 }

\* Defect: the key's own number instead of the row id.
PeerPrefixesOfKey(k) == { r.prefix : r \in { s \in subnets : s.owner = k } }

PeerPrefixes(k) == { r.prefix : r \in { s \in subnets : s.owner = peerId[k] } }

ExclusivePrefixes(rows) == { r.prefix : r \in { s \in rows : ~s.may } }

NewTree(n) == NetworkHosts(Heights[n], n \in Broadcast)

\* wg set <if> peer k allowed-ips ps: an allowed IP belongs to one peer, and
\* a non-empty list replaces the peer's list (an empty one is not passed).
WgPut(k, ps) ==
  /\ wgPeers' = wgPeers \cup {k}
  /\ route' = [p \in Prefix |-> CASE p \in ps -> k
                                  [] p \notin ps /\ route[p] = k /\ ps # {} -> 0
                                  [] OTHER -> route[p]]

\* Defect: the peer stays without allowed IPs.
WgClear(k) ==
  /\ route' = [p \in Prefix |-> IF route[p] = k THEN 0 ELSE route[p]]
  /\ UNCHANGED wgPeers

\* wg set <if> peer k remove; not an error for an unknown peer.
WgRemove(k) ==
  /\ wgPeers' = wgPeers \ {k}
  /\ route' = [p \in Prefix |-> IF route[p] = k THEN 0 ELSE route[p]]

\* Defect: an entry that is there already is kept.
CachePutIfAbsent(k, id) == cache' = [cache EXCEPT ![k] = IF @ = 0 THEN id ELSE @]

CachePut(k, id) == cache' = [cache EXCEPT ![k] = id]

-----------------------------------------------------------------------------
(* Control of a handler                                                    *)

Goto(w, l) == pc' = [pc EXCEPT ![w] = l]

\* The handler is past its mutex; only the answer is left of the request.
Respond(w, status) ==
  /\ Goto(w, "done")
  /\ reply' = [reply EXCEPT ![w] = status]
  /\ req' = [req EXCEPT ![w] = NoRequest]
  /\ list' = [list EXCEPT ![w] = <<>>]
  /\ held' = [held EXCEPT ![w] = {}]

\* RWMutex.Unlock has a write lock to release, be it another goroutine's: every
\* handler of this module locks for writing, GET /peers/{pubkey} included.
Unlockable == dbLock # "free"

\* The handler returns and its deferred db.Unlock runs, which ends the process
\* ("sync: Unlock of unlocked RWMutex") if there is nothing to release.
UnlockAndRespond(w, status) ==
  /\ dbLock' = IF Unlockable THEN "free" ELSE dbLock
  /\ Respond(w, IF Unlockable THEN status ELSE "fatal")

\* Defect: Unlock after the first statement.
ContinueUnlocked(w, l) ==
  Goto(w, l) /\ dbLock' = "free" /\ UNCHANGED <<req, list, held, reply>>

Continue(w, l) == Goto(w, l) /\ UNCHANGED <<dbLock, req, list, held, reply>>

\* apiAddPeer's Action returns an error: Transactional calls Rollback.
Fail(w, status) ==
  /\ Goto(w, "rollback")
  /\ reply' = [reply EXCEPT ![w] = status]

\* A request is in and its handler waits for the mutex.  What the request asks
\* is left open until the handler has the mutex: nothing depends on it before.
Receive(w) ==
  /\ boot = "up"
  /\ pc[w] = "idle"
  /\ Goto(w, "wait")
  /\ UNCHANGED <<dbVars, wgVars, memVars, lockVars, req, list, held, reply, procVars>>

LockDb(w) ==
  /\ pc[w] = "wait"
  /\ dbLock = "free"
  /\ dbLock' = w
  /\ \E r \in Request :
       /\ req' = [req EXCEPT ![w] = r]
       /\ list' = [list EXCEPT ![w] = IF r.op = "add" THEN r.list ELSE <<>>]
       /\ Goto(w, r.op)
  /\ UNCHANGED <<dbVars, wgVars, memVars, cacheLock, held, reply, procVars>>

Finish(w) ==
  /\ pc[w] = "done"
  /\ reply[w] # "fatal"
  /\ Goto(w, "idle")
  /\ reply' = [reply EXCEPT ![w] = "none"]
  /\ UNCHANGED <<dbVars, wgVars, memVars, lockVars, req, list, held, procVars>>

-----------------------------------------------------------------------------
(* POST /peers: apiAddPeer.  Its rows are staged in a transaction and appear *)
(* in peerId and subnets with COMMIT.                                        *)

AddRow(w) ==
  /\ pc[w] = "add"
  /\ \/ peerId[req[w].key] = 0 /\ nextPeer <= MaxPeerId /\ Goto(w, "addReserve")
        /\ UNCHANGED reply
     \/ peerId[req[w].key] # 0 /\ Fail(w, "409")
     \/ (nextPeer > MaxPeerId \/ "db" \in Faults) /\ Fail(w, "500")
  /\ UNCHANGED <<dbVars, wgVars, memVars, lockVars, req, list, held, procVars>>

\* The items whose Reserve fails, given that the items before them succeeded.
Refused(l) ==
  { i \in DOMAIN l :
      /\ ~l[i].may
      /\ \/ ~Reservable(tree, l[i].prefix)
         \/ \E j \in 1..i - 1 : /\ ~l[j].may
                                /\ l[j].prefix.net = l[i].prefix.net
                                /\ Overlap(l[j].prefix.path, l[i].prefix.path) }

\* The prefixes that are in the trees when the loop over the items ends.
ReservedBy(l) ==
  { l[i].prefix : i \in { j \in DOMAIN l : ~l[j].may /\ \A b \in Refused(l) : j < b } }

AddReserve(w) ==
  /\ pc[w] = "addReserve"
  /\ list[w] # <<>>
  /\ tree' = Put(tree, ReservedBy(list[w]))
  /\ held' = [held EXCEPT ![w] = ReservedBy(list[w])]
  /\ \/ Refused(list[w]) = {} /\ Goto(w, "addSubnets") /\ UNCHANGED reply
     \/ Refused(list[w]) # {} /\ Fail(w, "409")
  /\ UNCHANGED <<dbVars, wgVars, cache, lockVars, req, list, procVars>>

\* AssignRandomInEachNet; when a net is full it gives back what it took.
AddAssignRandom(w) ==
  /\ pc[w] = "addReserve"
  /\ list[w] = <<>>
  /\ \/ \E pick \in FreePicks(Heights, tree) :
          /\ tree' = Put(tree, Picked(pick))
          /\ held' = [held EXCEPT ![w] = Picked(pick)]
          /\ list' = [list EXCEPT ![w] =
                        [n \in Net |-> [prefix |-> [net |-> n, path |-> pick[n]],
                                        may |-> FALSE]]]
          /\ Goto(w, "addSubnets")
          /\ UNCHANGED reply
     \/ FreePicks(Heights, tree) = {} /\ Fail(w, "500") /\ UNCHANGED <<tree, held, list>>
  /\ UNCHANGED <<dbVars, wgVars, cache, lockVars, req, procVars>>

Listed(w) == { list[w][i].prefix : i \in DOMAIN list[w] }

AddSubnetRows(w) ==
  /\ pc[w] = "addSubnets"
  /\ LET fits == nextSubnet + Len(list[w]) <= MaxSubnetId + 1
     IN \/ fits /\ Goto(w, "addPut") /\ UNCHANGED reply
        \/ (~fits \/ "db" \in Faults) /\ Fail(w, "500")
  /\ UNCHANGED <<dbVars, wgVars, memVars, lockVars, req, list, held, procVars>>

AddPutPeer(w) ==
  /\ pc[w] = "addPut"
  /\ \/ WgPut(req[w].key, Listed(w)) /\ Goto(w, "addCache") /\ UNCHANGED reply
     \/ "wg" \in Faults /\ Fail(w, "500") /\ UNCHANGED wgVars
  /\ UNCHANGED <<dbVars, memVars, lockVars, req, list, held, procVars>>

\* peerStatsCache.PutNew; before it rand.Int panics if there are no ports.
AddPutNew(w) ==
  /\ pc[w] = "addCache"
  /\ \/ /\ cacheLock = "free"
        /\ CachePut(req[w].key, nextPeer)
        /\ Goto(w, "addCommit")
        /\ UNCHANGED reply
     \/ "port" \in Faults /\ Fail(w, "aborted") /\ UNCHANGED cache
  /\ UNCHANGED <<dbVars, wgVars, tree, lockVars, req, list, held, procVars>>

\* The rows of an item list, as AddSubnet numbers them.
NewRows(l, owner) ==
  { [id |-> nextSubnet + i - 1, prefix |-> l[i].prefix, owner |-> owner, may |-> l[i].may] :
      i \in DOMAIN l }

\* Defect: the addresses of a random assignment come without their trees.
AddedWithoutTree(w) ==
  IF list[w] # <<>> /\ \A i \in DOMAIN list[w] : list[w][i].prefix.path \in Address(Heights[1])
  THEN "aborted" ELSE "201"

\* Building the response asks every item for its Tree: an item that may overlap
\* has none, and the handler panics.
AddedStatus(w) ==
  IF \E i \in DOMAIN list[w] : list[w][i].may THEN "aborted" ELSE "201"

\* The deferred Unlock of Commit runs whether or not COMMIT succeeded: after one
\* that failed the rollback runs without the mutex, and unlocks it once more.  Its
\* changes of a trie beside another handler's are then a data race in the code;
\* here each is one step.
AddCommit(w) ==
  /\ pc[w] = "addCommit"
  /\ \/ /\ peerId' = [peerId EXCEPT ![req[w].key] = nextPeer]
        /\ enabled' = [enabled EXCEPT ![req[w].key] = TRUE]
        /\ nextPeer' = nextPeer + 1
        /\ subnets' = subnets \cup NewRows(list[w], nextPeer)
        /\ nextSubnet' = nextSubnet + Len(list[w])
        /\ UnlockAndRespond(w, AddedStatus(w))
     \/ /\ "commit" \in Faults
        /\ \/ Unlockable /\ Fail(w, "500") /\ dbLock' = "free" /\ UNCHANGED <<req, list, held>>
           \/ ~Unlockable /\ UnlockAndRespond(w, "500")
        /\ UNCHANGED dbVars
  /\ UNCHANGED <<wgVars, memVars, cacheLock, procVars>>

AddRollback(w) ==
  /\ pc[w] = "rollback"
  /\ tree' = Drop(tree, held[w])
  /\ held' = [held EXCEPT ![w] = {}]
  /\ Goto(w, "uncache")
  /\ UNCHANGED <<dbVars, wgVars, cache, lockVars, req, list, reply, procVars>>

\* peerStatsCache.Remove, then the deferred Unlock of Rollback.
AddUncache(w) ==
  /\ pc[w] = "uncache"
  /\ cacheLock = "free"
  /\ cache' = [cache EXCEPT ![req[w].key] = 0]
  /\ UnlockAndRespond(w, reply[w])
  /\ UNCHANGED <<dbVars, wgVars, tree, cacheLock, procVars>>

-----------------------------------------------------------------------------
(* DELETE, PUT and GET /peers/{pubkey}.  These use no transaction: every     *)
(* statement commits by itself.  Foreign keys are not enforced on the        *)
(* connection, so deleting a peer leaves its subnets' rows.                  *)

DeleteRow(w) ==
  /\ pc[w] = "delete"
  /\ \/ /\ peerId[req[w].key] # 0
        /\ peerId' = [peerId EXCEPT ![req[w].key] = 0]
        /\ enabled' = [enabled EXCEPT ![req[w].key] = FALSE]
        /\ Continue(w, "deleteWg")
     \/ /\ peerId[req[w].key] = 0
        /\ UnlockAndRespond(w, "404")
        /\ UNCHANGED <<peerId, enabled>>
     \/ "db" \in Faults /\ UnlockAndRespond(w, "500") /\ UNCHANGED <<peerId, enabled>>
  /\ UNCHANGED <<subnets, nextPeer, nextSubnet, wgVars, memVars, cacheLock, procVars>>

DeleteFromWg(w) ==
  /\ pc[w] = "deleteWg"
  /\ \/ WgRemove(req[w].key) /\ UnlockAndRespond(w, "204")
     \/ "wg" \in Faults /\ UnlockAndRespond(w, "500") /\ UNCHANGED wgVars
  /\ UNCHANGED <<dbVars, memVars, cacheLock, procVars>>

UpdateRow(w) ==
  /\ pc[w] = "update"
  /\ \/ /\ peerId[req[w].key] # 0
        /\ enabled' = [enabled EXCEPT ![req[w].key] = req[w].enabled]
        /\ Continue(w, "updateReset")
     \/ peerId[req[w].key] = 0 /\ UnlockAndRespond(w, "404") /\ UNCHANGED enabled
     \/ "db" \in Faults /\ UnlockAndRespond(w, "500") /\ UNCHANGED enabled
  /\ UNCHANGED <<peerId, subnets, nextPeer, nextSubnet, wgVars, memVars, cacheLock, procVars>>

\* GetPeerSubnets, then RemovePeer.
UpdateReset(w) ==
  /\ pc[w] = "updateReset"
  /\ \/ /\ WgRemove(req[w].key)
        /\ \/ req[w].enabled /\ Continue(w, "updatePut")
           \/ ~req[w].enabled /\ UnlockAndRespond(w, "204")
     \/ /\ {"listSubnets", "wg"} \cap Faults # {}
        /\ UnlockAndRespond(w, "500")
        /\ UNCHANGED wgVars
  /\ UNCHANGED <<dbVars, memVars, cacheLock, procVars>>

UpdatePut(w) ==
  /\ pc[w] = "updatePut"
  /\ \/ WgPut(req[w].key, PeerPrefixes(req[w].key)) /\ UnlockAndRespond(w, "204")
     \/ "wg" \in Faults /\ UnlockAndRespond(w, "500") /\ UNCHANGED wgVars
  /\ UNCHANGED <<dbVars, memVars, cacheLock, procVars>>

GetRow(w) ==
  /\ pc[w] = "get"
  /\ \/ peerId[req[w].key] # 0 /\ UnlockAndRespond(w, "200")
     \/ peerId[req[w].key] = 0 /\ UnlockAndRespond(w, "400")
     \/ "db" \in Faults /\ UnlockAndRespond(w, "500")
  /\ UNCHANGED <<dbVars, wgVars, memVars, cacheLock, procVars>>

-----------------------------------------------------------------------------
(* POST /subnets/reserved and DELETE /subnets/{id}                           *)

ReserveInTree(w) ==
  /\ pc[w] = "reserve"
  /\ LET p == req[w].sub.prefix
         taken == IF req[w].sub.may THEN {} ELSE {p}
     IN \/ /\ req[w].sub.may \/ Reservable(tree, p)
           /\ tree' = Put(tree, taken)
           /\ held' = [held EXCEPT ![w] = taken]
           /\ Goto(w, "reserveRow")
           /\ UNCHANGED <<dbLock, req, list, reply>>
        \/ /\ ~req[w].sub.may /\ ~Reservable(tree, p)
           /\ UnlockAndRespond(w, IF p.net = NoNet THEN "400" ELSE "409")
           /\ UNCHANGED tree
  /\ UNCHANGED <<dbVars, wgVars, cache, cacheLock, procVars>>

\* A failed INSERT rolls the tree back.
ReserveRow(w) ==
  /\ pc[w] = "reserveRow"
  /\ \/ /\ nextSubnet <= MaxSubnetId
        /\ subnets' = subnets \cup NewRows(<<req[w].sub>>, 0)
        /\ nextSubnet' = nextSubnet + 1
        /\ UnlockAndRespond(w, "201")
        /\ UNCHANGED tree
     \/ /\ nextSubnet > MaxSubnetId \/ "db" \in Faults
        /\ tree' = Drop(tree, held[w])
        /\ UnlockAndRespond(w, "500")
        /\ UNCHANGED <<subnets, nextSubnet>>
  /\ UNCHANGED <<peerId, enabled, nextPeer, wgVars, cache, cacheLock, procVars>>

RowsWithId(i) == { r \in subnets : r.id = i }

DeleteSubnetFromTree(w) ==
  /\ pc[w] = "deleteSubnet"
  /\ LET rows == RowsWithId(req[w].id)
     IN \/ /\ rows # {}
           /\ tree' = Drop(tree, ExclusivePrefixes(rows))
           /\ Continue(w, "dropRow")
        \/ rows = {} /\ UnlockAndRespond(w, "404") /\ UNCHANGED tree
        \/ "db" \in Faults /\ UnlockAndRespond(w, "500") /\ UNCHANGED tree
  /\ UNCHANGED <<dbVars, wgVars, cache, cacheLock, procVars>>

DeleteSubnetRow(w) ==
  /\ pc[w] = "dropRow"
  /\ \/ /\ subnets' = subnets \ RowsWithId(req[w].id)
        /\ UnlockAndRespond(w, "204")
     \/ "dropRow" \in Faults /\ UnlockAndRespond(w, "500") /\ UNCHANGED subnets
  /\ UNCHANGED <<peerId, enabled, nextPeer, nextSubnet, wgVars, memVars, cacheLock, procVars>>

-----------------------------------------------------------------------------
(* The goroutine of collectStatsRoutine.  What it reads and writes is the    *)
(* subject of module Traffic; here it is the other taker of both mutexes.    *)

CollectDump ==
  /\ "collect" \in Ops
  /\ boot = "up"
  /\ collector = "idle"
  /\ collector' = "dumped"
  /\ UNCHANGED <<dbVars, wgVars, memVars, lockVars, handlerVars, boot, todo>>

CollectLockCache ==
  /\ collector = "dumped"
  /\ cacheLock = "free"
  /\ cacheLock' = "collector"
  /\ collector' = "caching"
  /\ UNCHANGED <<dbVars, wgVars, memVars, dbLock, handlerVars, boot, todo>>

\* Defect: the database's mutex is not released.
CollectWriteAndHold ==
  /\ collector = "caching"
  /\ dbLock = "free"
  /\ dbLock' = "collector"
  /\ cacheLock' = "free"
  /\ collector' = "idle"
  /\ UNCHANGED <<dbVars, wgVars, memVars, handlerVars, boot, todo>>

\* node.db.Lock, the rows, and the two deferred Unlocks.
CollectWrite ==
  /\ collector = "caching"
  /\ dbLock = "free"
  /\ cacheLock' = "free"
  /\ collector' = "idle"
  /\ UNCHANGED <<dbVars, wgVars, memVars, dbLock, handlerVars, boot, todo>>

-----------------------------------------------------------------------------
(* Death and start of the process                                          *)

\* Memory is gone; the database and the kernel's interface stay.
ProcessGone ==
  /\ boot' = "down"
  /\ todo' = {}
  /\ collector' = "idle"
  /\ dbLock' = "free"
  /\ cacheLock' = "free"
  /\ tree' = [n \in Net |-> {}]
  /\ cache' = [k \in Key |-> 0]
  /\ pc' = [w \in Handler |-> "idle"]
  /\ req' = [w \in Handler |-> NoRequest]
  /\ list' = [w \in Handler |-> <<>>]
  /\ held' = [w \in Handler |-> {}]
  /\ reply' = [w \in Handler |-> "none"]
  /\ UNCHANGED <<dbVars, wgVars>>

Crash ==
  /\ "crash" \in Faults
  /\ boot \notin {"down", "refused"}
  /\ ProcessGone

\* "sync: Unlock of unlocked RWMutex" cannot be recovered from.
FatalUnlock(w) ==
  /\ pc[w] = "done"
  /\ reply[w] = "fatal"
  /\ ProcessGone

\* Every exclusive row fits next to the network's hosts and the other rows.
RowsFit ==
  \A r \in subnets : ~r.may =>
    /\ r.prefix.net \in Net
    /\ Clear(NewTree(r.prefix.net), r.prefix.path)
    /\ \A s \in subnets \ {r} :
         ~s.may /\ s.prefix.net = r.prefix.net => ~Overlap(s.prefix.path, r.prefix.path)

\* subnets.NewService; main ends if a row cannot be reserved.
StartTrees ==
  /\ boot = "down"
  /\ \/ /\ RowsFit
        /\ tree' = Put([n \in Net |-> NewTree(n)], ExclusivePrefixes(subnets))
        /\ todo' = DbKeys
        /\ boot' = "remove"
     \/ ~RowsFit /\ boot' = "refused" /\ UNCHANGED <<tree, todo>>
  /\ UNCHANGED <<dbVars, wgVars, cache, lockVars, handlerVars, collector>>

\* GetPeers orders by key.
IsNext(k) == k \in todo /\ \A j \in todo : k <= j

\* The loop of prepareWGAndPeerStatsCache: RemovePeer, then PutPeer, for every
\* row of peers whatever its is_enabled.  A failure at one peer undoes the
\* peers up to that one.
Prepared(k) == { j \in DbKeys : j <= k }

StartRemove(k) ==
  /\ boot = "remove"
  /\ IsNext(k)
  /\ \/ WgRemove(k) /\ boot' = "put" /\ UNCHANGED todo
     \/ "wg" \in Faults /\ boot' = "undo" /\ todo' = Prepared(k) /\ UNCHANGED wgVars
  /\ UNCHANGED <<dbVars, memVars, lockVars, handlerVars, collector>>

StartPut(k) ==
  /\ boot = "put"
  /\ IsNext(k)
  /\ \/ /\ WgPut(k, PeerPrefixes(k))
        /\ CachePut(k, peerId[k])
        /\ boot' = "remove"
        /\ todo' = todo \ {k}
     \/ /\ "wg" \in Faults
        /\ boot' = "undo"
        /\ todo' = Prepared(k)
        /\ UNCHANGED <<wgVars, cache>>
  /\ UNCHANGED <<dbVars, tree, lockVars, handlerVars, collector>>

\* An error of the undoing RemovePeer is ignored.
StartUndo(k) ==
  /\ boot = "undo"
  /\ IsNext(k)
  /\ WgRemove(k) \/ ("wg" \in Faults /\ UNCHANGED wgVars)
  /\ cache' = [cache EXCEPT ![k] = 0]
  /\ todo' = todo \ {k}
  /\ UNCHANGED <<dbVars, tree, lockVars, handlerVars, collector, boot>>

StartServing ==
  /\ boot = "remove"
  /\ todo = {}
  /\ boot' = "up"
  /\ UNCHANGED <<dbVars, wgVars, memVars, lockVars, handlerVars, collector, todo>>

StartFailed == boot = "undo" /\ todo = {} /\ ProcessGone

-----------------------------------------------------------------------------

Init ==
  /\ peerId = [k \in Key |-> 0] /\ enabled = [k \in Key |-> FALSE]
  /\ subnets = {} /\ nextPeer = 1 /\ nextSubnet = 1
  /\ wgPeers = {} /\ route = [p \in Prefix |-> 0]
  /\ tree = [n \in Net |-> {}] /\ cache = [k \in Key |-> 0]
  /\ dbLock = "free" /\ cacheLock = "free"
  /\ pc = [w \in Handler |-> "idle"] /\ req = [w \in Handler |-> NoRequest]
  /\ list = [w \in Handler |-> <<>>] /\ held = [w \in Handler |-> {}]
  /\ reply = [w \in Handler |-> "none"]
  /\ collector = "idle" /\ boot = "down" /\ todo = {}

\* What an accepted request does once it holds the mutex or needs none.
HandlerStep(w) ==
  \/ AddRow(w) \/ AddReserve(w) \/ AddAssignRandom(w) \/ AddSubnetRows(w)
  \/ AddPutPeer(w) \/ AddCommit(w) \/ AddRollback(w)
  \/ DeleteRow(w) \/ DeleteFromWg(w)
  \/ UpdateRow(w) \/ UpdateReset(w) \/ UpdatePut(w)
  \/ GetRow(w)
  \/ ReserveInTree(w) \/ ReserveRow(w)
  \/ DeleteSubnetFromTree(w) \/ DeleteSubnetRow(w)
  \/ Finish(w)

\* The steps that wait for a mutex.
TakeMutex(w) == LockDb(w) \/ AddPutNew(w) \/ AddUncache(w)

CollectorStep == CollectDump \/ CollectLockCache \/ CollectWrite

StartStep ==
  \/ StartTrees \/ StartServing \/ StartFailed
  \/ \E k \in Key : StartRemove(k) \/ StartPut(k) \/ StartUndo(k)

Next ==
  \/ \E w \in Handler : Receive(w) \/ TakeMutex(w) \/ HandlerStep(w) \/ FatalUnlock(w)
  \/ CollectorStep
  \/ StartStep
  \/ Crash

Spec == Init /\ [][Next]_vars

\* A runnable goroutine runs, and Go's mutexes do not starve a waiter: after a
\* millisecond they are handed to the waiters in order.  No client has to send
\* a request, and nothing has to fail.
Fairness ==
  /\ \A w \in Handler : WF_vars(HandlerStep(w)) /\ SF_vars(TakeMutex(w))
  /\ WF_vars(CollectDump) /\ SF_vars(CollectLockCache) /\ SF_vars(CollectWrite)
  /\ WF_vars(StartStep)

FairSpec == Spec /\ Fairness

-----------------------------------------------------------------------------
(* Properties                                                              *)

Status == {"none", "200", "201", "204", "400", "404", "409", "500", "aborted", "fatal"}

\* Where a handler is between node.db.Lock and the matching Unlock.
Critical ==
  {"add", "addReserve", "addSubnets", "addPut", "addCache", "addCommit",
   "rollback", "uncache", "delete", "deleteWg", "update", "updateReset",
   "updatePut", "get", "reserve", "reserveRow", "deleteSubnet", "dropRow"}

DbTyped ==
  /\ peerId \in [Key -> Nat] /\ enabled \in [Key -> BOOLEAN]
  /\ subnets \subseteq [id : Nat, prefix : Prefix, owner : Nat, may : BOOLEAN]
  /\ nextPeer \in Nat /\ nextSubnet \in Nat

WgTyped == wgPeers \subseteq Key /\ route \in [Prefix -> Key \cup {0}]

MemTyped ==
  /\ tree \in [Net -> SUBSET UNION { Path(Heights[n]) : n \in Net }]
  /\ cache \in [Key -> Nat]

LockTyped == dbLock \in {"free"} \cup Handler /\ cacheLock \in {"free", "collector"}

HandlersTyped ==
  /\ pc \in [Handler -> {"idle", "wait", "done"} \cup Critical]
  /\ req \in [Handler -> Request \cup {NoRequest}]
  /\ list \in [Handler -> Seq(Subnet)]
  /\ held \in [Handler -> SUBSET Prefix]
  /\ reply \in [Handler -> Status]

ProcTyped ==
  /\ collector \in {"idle", "dumped", "caching"}
  /\ boot \in {"down", "refused", "remove", "put", "undo", "up"}
  /\ todo \subseteq Key

\* The values the variables can take.
TypeOK == DbTyped /\ WgTyped /\ MemTyped /\ LockTyped /\ HandlersTyped /\ ProcTyped

\* "db mutex is used so synchronize both db and nettree operations"
\* (main.go:56): whoever is between Lock and Unlock holds the mutex, so no two
\* handlers touch the tables and the trees at once.
DbMutex == \A w \in Handler : pc[w] \in Critical => dbLock = w

\* What DELETE /subnets/{id} has freed in a tree and not yet in the table.
Freed ==
  { r.prefix : r \in { s \in subnets : \E w \in Handler :
                          pc[w] = "dropRow" /\ ~s.may /\ s.id = req[w].id } }

Held == UNION { held[w] : w \in Handler }

\* The trees hold the exclusive prefixes of the table and the network's own
\* hosts, and besides them only what requests under way have reserved: no
\* failed, rolled back or interrupted request leaks or frees an address.
TreeAgrees ==
  boot \notin {"down", "refused"} =>
    \A n \in Net :
      tree[n] = NewTree(n) \cup (Paths(ExclusivePrefixes(subnets), n) \ Paths(Freed, n))
                  \cup Paths(Held, n)

\* Exclusive subnets never overlap, neither in the table nor against what a
\* request under way has reserved (migration 20260322102405, line 5).
ExclusiveDisjoint ==
  /\ RowsFit
  /\ \A w \in Handler : \A p \in held[w] :
       /\ \A q \in held[w] \ {p} : q.net = p.net => ~Overlap(p.path, q.path)
       /\ \A q \in ExclusivePrefixes(subnets) : q.net = p.net => ~Overlap(p.path, q.path)

\* No failure and no restart makes a tree hold two prefixes that overlap: the
\* trie of package nettree has no place for them.
TreesDisjoint ==
  \A n \in Net : \A p \in tree[n] : Clear(tree[n] \ {p}, p)

\* The node never refuses to start over the rows it wrote itself.
StartupAccepts == boot # "refused"

\* A request is about to bring the kernel's view of peer k up to date.
Changing(k) ==
  \E w \in Handler :
    /\ pc[w] \in {"addCache", "addCommit", "rollback", "uncache", "deleteWg",
                  "updateReset", "updatePut"}
    /\ req[w].key = k

\* The interface has exactly the enabled peers of the table.
WgMatches ==
  boot = "up" =>
    \A k \in Key : ~Changing(k) => (k \in wgPeers <=> peerId[k] # 0 /\ enabled[k])

\* A prefix that some request asks to share.
Shared(p) == \E l \in AddLists : \E i \in DOMAIN l : l[i].may /\ l[i].prefix = p

\* An exclusive prefix of an enabled peer is routed to that peer, whoever had
\* it before and whatever other requests do.
RoutesToOwner ==
  boot = "up" =>
    \A k \in Key : peerId[k] # 0 /\ enabled[k] /\ ~Changing(k) =>
      \A r \in subnets : r.owner = peerId[k] /\ ~r.may /\ ~Shared(r.prefix) =>
        route[r.prefix] = k

\* Whatever has failed before, a start that succeeds gives every exclusive
\* prefix of an enabled peer back to that peer: the loop that removes and puts
\* every peer of the table (stats_cache.go:140-153) repairs what failed handlers
\* and earlier starts left behind in the interface.
StartRestoresRoutes ==
  [][boot # "up" /\ boot' = "up" => RoutesToOwner']_vars

\* Where the kernel sends a packet for address a of net n: to the peer with the
\* longest matching allowed IP (0: to nobody).
Destination(n, a) ==
  LET hits == { p \in Prefix : p.net = n /\ IsPrefix(p.path, a) /\ route[p] # 0 }
  IN IF hits = {} THEN 0
     ELSE route[CHOOSE p \in hits : \A q \in hits : Len(q.path) <= Len(p.path)]

\* Every address of an exclusive prefix of an enabled peer reaches that peer: no
\* leftover of a former peer inside the prefix draws packets away.
ReachesOwner ==
  boot = "up" =>
    \A k \in Key : peerId[k] # 0 /\ enabled[k] /\ ~Changing(k) =>
      \A r \in subnets : r.owner = peerId[k] /\ ~r.may =>
        \A a \in Address(Heights[r.prefix.net]) :
          /\ IsPrefix(r.prefix.path, a)
          /\ ~\E p \in Prefix : Shared(p) /\ p.net = r.prefix.net /\ IsPrefix(p.path, a)
          => Destination(r.prefix.net, a) = k

\* The collector never books a peer's traffic under the row id of an earlier
\* peer with the same key.
CacheIds == \A k \in Key : cache[k] # 0 /\ peerId[k] # 0 => cache[k] = peerId[k]

RowsAfter(k) == { r.prefix : r \in { s \in subnets' : s.owner = peerId'[k] } }

\* What "201" of POST /peers, "204" of DELETE and PUT, "201" of POST and "204" of
\* DELETE of a subnet say to the client, of the next state.
AddDone(w) ==
  LET k == req[w].key
  IN /\ peerId'[k] # 0 /\ enabled'[k] /\ k \in wgPeers' /\ cache'[k] = peerId'[k]
     /\ RowsAfter(k) = Listed(w)
     /\ \A p \in Listed(w) : route'[p] = k
     /\ \A i \in DOMAIN list[w] :
          ~list[w][i].may => list[w][i].prefix.path \in tree'[list[w][i].prefix.net]
DeleteDone(w) ==
  LET k == req[w].key
  IN peerId'[k] = 0 /\ k \notin wgPeers' /\ \A p \in Prefix : route'[p] # k
UpdateDone(w) ==
  LET k == req[w].key
  IN /\ peerId'[k] # 0 /\ enabled'[k] = req[w].enabled
     /\ k \in wgPeers' <=> req[w].enabled
     /\ req[w].enabled => \A p \in RowsAfter(k) : route'[p] = k
ReserveDone(w) ==
  LET s == req[w].sub
  IN /\ \E r \in subnets' : r.prefix = s.prefix /\ r.may = s.may /\ r.owner = 0
     /\ ~s.may => s.prefix.path \in tree'[s.prefix.net]
DeleteSubnetDone(w) ==
  /\ \A r \in subnets' : r.id # req[w].id
  /\ \A r \in subnets : r.id = req[w].id /\ ~r.may /\ r.prefix.net \in Net =>
       r.prefix.path \notin tree'[r.prefix.net]

\* An answer of success is true of tables, trees, interface and cache, whatever
\* failed on the way to it; and a peer that has been committed is answered with
\* success, unless the request asked to share a subnet (peers.go:357).
AnswersAreTrue ==
  [][\A w \in Handler :
       /\ reply[w] = "none" /\ reply'[w] \in {"201", "204"} =>
            CASE req[w].op = "add" -> AddDone(w)
              [] req[w].op = "delete" -> DeleteDone(w)
              [] req[w].op = "update" -> UpdateDone(w)
              [] req[w].op = "reserve" -> ReserveDone(w)
              [] req[w].op = "deleteSubnet" -> DeleteSubnetDone(w)
       /\ pc[w] = "addCommit" /\ peerId' # peerId /\ reply'[w] # "201" =>
            \E i \in DOMAIN list[w] : list[w][i].may]_vars

\* An accepted request is answered.
RequestsAnswered == \A w \in Handler : pc[w] = "wait" ~> pc[w] = "done"

=============================================================================
