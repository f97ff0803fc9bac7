---------------------------- MODULE NodeWgProofs ----------------------------
(***************************************************************************)
(* The answers of the node and the kernel's interface, proved for every    *)
(* value of the constants: what an answer of success promises, which peers *)
(* the interface has, and where it routes the prefixes of the table.       *)
(***************************************************************************)
EXTENDS NodeProofs

-----------------------------------------------------------------------------
(* The inductive invariants                                                *)

\* Ids of peers are given once; subnets belong to peers that have been given an
\* id; a peer's shared subnet is one that a request has asked for.
PeerIds ==
  /\ nextPeer # 0
  /\ \A k \in Key : peerId[k] < nextPeer
  /\ \A j, k \in Key : peerId[j] = peerId[k] /\ peerId[j] # 0 => j = k

OwnerIds ==
  \A r \in subnets : r.owner < nextPeer /\ (r.owner # 0 /\ r.may => Shared(r.prefix))

ListsShared ==
  \A w \in Handler : \A i \in DOMAIN list[w] :
    list[w][i].may => Shared(list[w][i].prefix)

IdInv == PeerIds /\ OwnerIds /\ ListsShared

\* What a handler has done so far of what it is going to answer.
AddSoFar(w) ==
  /\ pc[w] \in Listing \cup {"add", "addReserve"} => req[w].op = "add"
  /\ pc[w] \in Listing => \A p \in Wanted(list[w]) : p.path \in tree[p.net]
  /\ pc[w] \in {"addCache", "addCommit"} =>
       req[w].key \in wgPeers /\ \A p \in Listed(w) : route[p] = req[w].key

DeleteSoFar(w) ==
  /\ pc[w] \in {"delete", "deleteWg"} => req[w].op = "delete"
  /\ pc[w] = "deleteWg" => peerId[req[w].key] = 0

UpdateSoFar(w) ==
  /\ pc[w] \in {"update", "updateReset", "updatePut"} => req[w].op = "update"
  /\ pc[w] \in {"updateReset", "updatePut"} =>
       peerId[req[w].key] # 0 /\ enabled[req[w].key] = req[w].enabled
  /\ pc[w] = "updatePut" => req[w].enabled

SubnetSoFar(w) ==
  /\ pc[w] \in {"reserve", "reserveRow"} => req[w].op = "reserve"
  /\ pc[w] = "reserveRow" /\ ~req[w].sub.may =>
       req[w].sub.prefix.path \in tree[req[w].sub.prefix.net]
  /\ pc[w] \in {"deleteSubnet", "dropRow"} => req[w].op = "deleteSubnet"
  /\ pc[w] = "dropRow" =>
       \A r \in RowsWithId(req[w].id) :
         ~r.may /\ r.prefix.net \in Net => r.prefix.path \notin tree[r.prefix.net]

DoneSoFar(w) == AddSoFar(w) /\ DeleteSoFar(w) /\ UpdateSoFar(w) /\ SubnetSoFar(w)

AnswerInv == CacheInv /\ IdInv /\ \A w \in Handler : DoneSoFar(w)

\* The interface and the table agree about a peer.
Match(k) == k \in wgPeers <=> peerId[k] # 0 /\ enabled[k]

Routed(k) ==
  \A r \in subnets : r.owner = peerId[k] /\ ~r.may /\ ~Shared(r.prefix) => route[r.prefix] = k

\* Where a handler changes an entry of the interface.
Touching(w) == pc[w] \in {"addCache", "addCommit", "deleteWg", "updateReset", "updatePut"}

\* When no command and no COMMIT fails and the process does not die, a rollback
\* finds the interface as it should be, and the only start is the first one.
MatchInv ==
  /\ \A k \in Key : (\A w \in Handler : Touching(w) => req[w].key # k) => Match(k)
  /\ boot \in {"down", "remove", "refused", "up"}
  /\ boot # "up" => todo = {} /\ \A k \in Key : peerId[k] = 0

\* When no command and no reading of a peer's subnets fails, the peers that no handler
\* is changing have their routes.
RoutesInv ==
  boot = "up" =>
    \A k \in Key : peerId[k] # 0 /\ enabled[k]
                     /\ (\A w \in Handler : Touching(w) => req[w].key # k) => Routed(k)

\* While a start puts peers nobody else is at work, the rows have been accepted, and
\* the peers that have been put have their routes.
StartInv ==
  /\ IdleUntilUp
  /\ boot \in {"remove", "put"} =>
       RowsFit /\ todo \subseteq DbKeys /\ \A k \in DbKeys \ todo : Routed(k)

\* A prefix that w has put into the interface and is about to commit.
Claims(w, p) == pc[w] \in {"addCache", "addCommit"} /\ p \in held[w]

\* While no row is ever deleted, whatever is routed is a row or about to be one.
RowInv ==
  \A p \in Prefix : route[p] # 0 =>
    \/ Shared(p) \/ p \in ExclusivePrefixes(subnets)
    \/ \E w \in Handler : Claims(w, p)

-----------------------------------------------------------------------------
(* Ids                                                                     *)

\* Every step but COMMIT, the INSERT of a reserved subnet and the two DELETEs leaves
\* the rows' ids alone.
LEMMA HandlerTables ==
  ASSUME TypeInv, NEW w \in Handler, Receive(w) \/ TakeMutex(w) \/ HandlerStep(w)
  PROVE  \/ UNCHANGED <<peerId, nextPeer, subnets>>
         \/ AddCommit(w) \/ DeleteRow(w) \/ ReserveRow(w) \/ DeleteSubnetRow(w)
  BY DEF TakeMutex, HandlerStep, Receive, LockDb, Finish, AddRow, AddReserve, AddAssignRandom,
         AddSubnetRows, AddPutPeer, AddPutNew, AddRollback, AddUncache,
         ProcessGone, DeleteFromWg, UpdateRow, UpdateReset, UpdatePut, GetRow, ReserveInTree,
         DeleteSubnetFromTree, dbVars

\* A handler's list changes when a request comes in, when addresses are assigned
\* and when it answers.
LEMMA HandlerLists ==
  ASSUME TypeInv, ListsShared, NEW w \in Handler,
         Receive(w) \/ TakeMutex(w) \/ HandlerStep(w)
  PROVE  ListsShared'
<1> DEFINE Kept == list' = list
           Cleared == list' = [list EXCEPT ![w] = <<>>]
<1>0. list \in [Handler -> Seq(Subnet)]
  BY DEF TypeInv, TypeOK, HandlersTyped
<1>1. CASE Kept
  BY <1>1 DEF ListsShared
<1>2. CASE Cleared
  BY <1>0, <1>2 DEF ListsShared
<1>3. CASE LockDb(w)
  <2>1. PICK r \in Request :
          list' = [list EXCEPT ![w] = IF r.op = "add" THEN r.list ELSE <<>>]
    BY <1>3 DEF LockDb
  <2>2. r.op = "add" => r.list \in AddLists
    BY ScopeAssumption DEF Request
  <2>3. \A i \in DOMAIN list'[w] : list'[w][i].may => Shared(list'[w][i].prefix)
    BY <1>0, <2>1, <2>2 DEF Shared
  <2> QED
    BY <1>0, <2>1, <2>3 DEF ListsShared
<1>4. CASE AddAssignRandom(w)
  <2>1. ASSUME NEW pick \in FreePicks(Heights, tree),
               list' = [list EXCEPT ![w] =
                          [n \in Net |-> [prefix |-> [net |-> n, path |-> pick[n]],
                                          may |-> FALSE]]]
        PROVE  ListsShared'
    BY <1>0, <2>1 DEF ListsShared
  <2> QED
    BY <1>1, <1>4, <2>1 DEF AddAssignRandom
<1>5. CASE ProcessGone
  BY <1>5 DEF ProcessGone, ListsShared
<1>6. ASSUME ~LockDb(w), ~AddAssignRandom(w), ~ProcessGone
      PROVE  Kept \/ Cleared
  <2> USE DEF UnlockAndRespond, Respond, Continue
  <2>1. CASE \/ Receive(w) \/ Finish(w) \/ AddRow(w) \/ AddReserve(w) \/ AddSubnetRows(w)
             \/ AddPutPeer(w) \/ AddPutNew(w) \/ AddRollback(w)
    BY <2>1 DEF Receive, Finish, AddRow, AddReserve, AddSubnetRows, AddPutPeer, AddPutNew,
                AddRollback
  <2>2. CASE AddCommit(w) \/ AddUncache(w) \/ DeleteRow(w) \/ DeleteFromWg(w) \/ GetRow(w)
    BY <2>2 DEF AddCommit, AddUncache, DeleteRow, DeleteFromWg, GetRow
  <2>3. CASE UpdateRow(w) \/ UpdateReset(w) \/ UpdatePut(w) \/ ReserveInTree(w)
    BY <2>3 DEF UpdateRow, UpdateReset, UpdatePut, ReserveInTree
  <2>4. CASE ReserveRow(w) \/ DeleteSubnetFromTree(w) \/ DeleteSubnetRow(w)
    BY <2>4 DEF ReserveRow, DeleteSubnetFromTree, DeleteSubnetRow
  <2> QED
    BY <1>6, <2>1, <2>2, <2>3, <2>4 DEF TakeMutex, HandlerStep
<1> QED
  BY <1>1, <1>2, <1>3, <1>4, <1>5, <1>6

\* What a row of a list has.
LEMMA RowOfList ==
  ASSUME NEW l, NEW owner, NEW r \in NewRows(l, owner)
  PROVE  r.owner = owner /\ \E i \in DOMAIN l : r.prefix = l[i].prefix /\ r.may = l[i].may
  BY DEF NewRows

\* COMMIT gives the next row id away, to one peer and its subnets.
LEMMA CommitIds ==
  ASSUME TypeInv, IdInv, NEW w \in Handler, AddCommit(w)
  PROVE  PeerIds' /\ OwnerIds'
<1>0. /\ nextPeer \in Nat /\ peerId \in [Key -> Nat] /\ req[w].key \in Key
      /\ subnets \subseteq [id : Nat, prefix : Prefix, owner : Nat, may : BOOLEAN]
  BY DEF TypeInv, TypeOK, DbTyped, RequestFits, KeyPcs, AddCommit
<1>1. ASSUME UNCHANGED <<peerId, nextPeer, subnets>>
      PROVE  PeerIds' /\ OwnerIds'
  BY <1>1 DEF IdInv, PeerIds, OwnerIds
<1>2. ASSUME peerId' = [peerId EXCEPT ![req[w].key] = nextPeer], nextPeer' = nextPeer + 1,
             subnets' = subnets \cup NewRows(list[w], nextPeer)
      PROVE  PeerIds' /\ OwnerIds'
  <2>1. PeerIds'
    BY <1>0, <1>2 DEF IdInv, PeerIds
  <2>2. ASSUME NEW r \in NewRows(list[w], nextPeer)
        PROVE  r.owner < nextPeer + 1 /\ (r.may => Shared(r.prefix))
    BY <1>0, <2>2, RowOfList DEF IdInv, ListsShared
  <2>3. OwnerIds'
    BY <1>0, <1>2, <2>2 DEF IdInv, OwnerIds
  <2> QED
    BY <2>1, <2>3
<1> QED
  BY <1>1, <1>2 DEF AddCommit, dbVars

\* The invariant is inductive, however handlers interleave.
LEMMA NextIds ==
  ASSUME TypeInv, IdInv, [Next]_vars
  PROVE  IdInv'
<1>0. /\ nextPeer \in Nat /\ peerId \in [Key -> Nat]
      /\ subnets \subseteq [id : Nat, prefix : Prefix, owner : Nat, may : BOOLEAN]
  BY DEF TypeInv, TypeOK, DbTyped
<1>1. ASSUME UNCHANGED <<peerId, nextPeer, subnets>>
      PROVE  PeerIds' /\ OwnerIds'
  BY <1>1 DEF IdInv, PeerIds, OwnerIds
<1>2. ASSUME UNCHANGED list
      PROVE  ListsShared'
  BY <1>2 DEF IdInv, ListsShared
<1>3. CASE UNCHANGED vars
  BY <1>1, <1>2, <1>3 DEF vars, dbVars, handlerVars, IdInv
<1>4. CASE ProcessGone
  BY <1>1, <1>4 DEF ProcessGone, dbVars, IdInv, ListsShared
<1>5. CASE CollectorStep
  BY <1>1, <1>2, <1>5
  DEF CollectorStep, CollectDump, CollectLockCache, CollectWrite, dbVars, handlerVars, IdInv
<1>6. ASSUME StartStep, ~ProcessGone
      PROVE  IdInv'
  BY <1>1, <1>2, <1>6
  DEF StartStep, StartTrees, StartServing, StartFailed, StartRemove, StartPut, StartUndo,
      dbVars, handlerVars, IdInv
<1>7. ASSUME NEW w \in Handler, Receive(w) \/ TakeMutex(w) \/ HandlerStep(w)
      PROVE  IdInv'
  <2>1. ASSUME DeleteRow(w)
        PROVE  PeerIds' /\ OwnerIds'
    <3>1. /\ \/ UNCHANGED peerId
             \/ peerId' = [peerId EXCEPT ![req[w].key] = 0]
          /\ UNCHANGED <<nextPeer, subnets>>
      BY <2>1 DEF DeleteRow
    <3> QED
      BY <1>0, <3>1 DEF IdInv, PeerIds, OwnerIds
  <2>2. ASSUME ReserveRow(w)
        PROVE  PeerIds' /\ OwnerIds'
    <3>1. /\ \/ UNCHANGED subnets
             \/ subnets' = subnets \cup NewRows(<<req[w].sub>>, 0)
          /\ UNCHANGED <<peerId, nextPeer>>
      BY <2>2 DEF ReserveRow
    <3>2. \A r \in NewRows(<<req[w].sub>>, 0) : r.owner = 0
      BY DEF NewRows
    <3> QED
      BY <1>0, <3>1, <3>2 DEF IdInv, PeerIds, OwnerIds
  <2>3. ASSUME DeleteSubnetRow(w)
        PROVE  PeerIds' /\ OwnerIds'
    BY <2>3 DEF DeleteSubnetRow, IdInv, PeerIds, OwnerIds
  <2>4. PeerIds' /\ OwnerIds'
    BY <1>1, <1>7, <2>1, <2>2, <2>3, HandlerTables, CommitIds
  <2> QED
    BY <1>7, <2>4, HandlerLists DEF IdInv
<1> QED
  BY <1>3, <1>4, <1>5, <1>6, <1>7 DEF Next, Crash, FatalUnlock

\* No peer and no row yet.
LEMMA InitIds == Init => IdInv
  BY DEF Init, IdInv, PeerIds, OwnerIds, ListsShared

-----------------------------------------------------------------------------
(* Answers                                                                 *)

\* What AnswersAreTrue says of one handler.
Truthful(w) ==
  /\ reply[w] = "none" /\ reply'[w] \in {"201", "204"} =>
       CASE req[w].op = "add" -> AddDone(w)
         [] req[w].op = "delete" -> DeleteDone(w)
         [] req[w].op = "update" -> UpdateDone(w)
         [] req[w].op = "reserve" -> ReserveDone(w)
         [] req[w].op = "deleteSubnet" -> DeleteSubnetDone(w)
  /\ pc[w] = "addCommit" /\ peerId' # peerId /\ reply'[w] # "201" =>
       \E i \in DOMAIN list[w] : list[w][i].may

\* A handler on its way, neither at an answer of success nor at COMMIT.
LEMMA SilentTruthful ==
  ASSUME NEW w \in Handler, reply'[w] \notin {"201", "204"} \/ reply'[w] = reply[w],
         pc[w] # "addCommit" \/ UNCHANGED peerId
  PROVE  Truthful(w)
  BY DEF Truthful

\* The items of a list are prefixes; the exclusive ones are among them.
LEMMA ListedPrefixes ==
  ASSUME TypeInv, NEW w \in Handler
  PROVE  Listed(w) \subseteq Prefix /\ Wanted(list[w]) \subseteq Listed(w)
<1>1. list[w] \in Seq(Subnet)
  BY DEF TypeInv, TypeOK, HandlersTyped
<1>2. \A i \in DOMAIN list[w] : list[w][i].prefix \in Prefix
  <2>1. \A i \in DOMAIN list[w] : list[w][i] \in Subnet
    BY <1>1
  <2> QED
    BY <2>1 DEF Subnet
<1> QED
  BY <1>2 DEF Listed, Wanted

\* apiAddPeer until COMMIT: what it wants is in the trees, then in the interface.
LEMMA AddingTrue ==
  ASSUME TypeInv, AnswerInv, NEW w \in Handler,
         AddRow(w) \/ AddReserve(w) \/ AddAssignRandom(w) \/ AddSubnetRows(w)
           \/ AddPutPeer(w) \/ AddPutNew(w) \/ AddRollback(w) \/ AddUncache(w)
  PROVE  DoneSoFar(w)' /\ Truthful(w)
<1> DEFINE Elsewhere == DeleteSoFar(w)' /\ UpdateSoFar(w)' /\ SubnetSoFar(w)'
           Silent == /\ reply'[w] \notin {"201", "204"} \/ reply'[w] = reply[w]
                     /\ pc[w] # "addCommit"
<1>0. /\ AddSoFar(w) /\ req[w].key \in Key
      /\ pc \in [Handler -> {"idle", "wait", "done"} \cup Critical]
      /\ list \in [Handler -> Seq(Subnet)] /\ req \in [Handler -> Request \cup {NoRequest}]
      /\ reply \in [Handler -> Status]
  BY DEF AnswerInv, DoneSoFar, TypeInv, TypeOK, HandlersTyped, RequestFits, KeyPcs, AddRow,
         AddReserve, AddAssignRandom, AddSubnetRows, AddPutPeer, AddPutNew, AddRollback, AddUncache
<1>1. Elsewhere /\ Silent
  BY <1>0
  DEF AddRow, AddReserve, AddAssignRandom, AddSubnetRows, AddPutPeer, AddPutNew, AddRollback,
      AddUncache, Goto, Fail, UnlockAndRespond, Respond, DeleteSoFar, UpdateSoFar, SubnetSoFar
<1>2. ASSUME AddRow(w) \/ AddSubnetRows(w) \/ AddPutNew(w)
      PROVE  AddSoFar(w)'
  <2>1. /\ UNCHANGED <<req, list, tree, wgPeers, route>>
        /\ pc'[w] \in Listing \cup {"add", "addReserve", "rollback"}
        /\ pc[w] \in Listing \cup {"add", "addReserve"}
        /\ pc'[w] \in Listing => pc[w] \in Listing
        /\ pc'[w] \in {"addCache", "addCommit"} => pc[w] \in {"addCache", "addCommit"}
    BY <1>0, <1>2
    DEF AddRow, AddSubnetRows, AddPutNew, Goto, Fail, Listing, wgVars, memVars
  <2>2. Listed(w)' = Listed(w)
    BY <2>1 DEF Listed
  <2> QED
    BY <1>0, <2>1, <2>2 DEF AddSoFar, Listing
<1>3. ASSUME AddReserve(w)
      PROVE  AddSoFar(w)'
  <2>1. ASSUME Refused(list[w]) = {}, NEW p \in Wanted(list[w])
        PROVE  p.path \in tree'[p.net]
    <3>1. p \in ReservedBy(list[w])
      BY <1>0, <2>1, ReservedAll
    <3>2. p.net \in DOMAIN tree
      BY <1>0, <3>1, ReservedClear DEF TypeInv, TypeOK, MemTyped
    <3> QED
      BY <1>3, <3>1, <3>2, PathsMember DEF AddReserve, Put
  <2> QED
    BY <1>0, <1>3, <2>1 DEF AddReserve, Goto, Fail, AddSoFar, Listing
<1>4. ASSUME AddAssignRandom(w)
      PROVE  AddSoFar(w)'
  <2>1. ASSUME NEW pick \in FreePicks(Heights, tree), tree' = Put(tree, Picked(pick)),
               list' = [list EXCEPT ![w] =
                          [n \in Net |-> [prefix |-> [net |-> n, path |-> pick[n]],
                                          may |-> FALSE]]],
               pc'[w] = "addSubnets"
        PROVE  AddSoFar(w)'
    <3>1. DOMAIN pick = Net
      BY NetFacts DEF FreePicks
    <3>2. Wanted(list'[w]) = Picked(pick)
      BY <1>0, <2>1, <3>1, PickedWanted
    <3>3. \A p \in Picked(pick) : p.net \in DOMAIN tree
      BY PickedClear DEF TypeInv, TypeOK, MemTyped
    <3>4. \A p \in Picked(pick) : p.path \in tree'[p.net]
      BY <2>1, <3>3, PathsMember DEF Put
    <3> QED
      BY <1>0, <1>4, <2>1, <3>2, <3>4 DEF AddAssignRandom, AddSoFar
  <2> QED
    BY <1>0, <1>4, <2>1 DEF AddAssignRandom, Goto, Fail, AddSoFar, Listing
<1>5. ASSUME AddPutPeer(w)
      PROVE  AddSoFar(w)'
  <2>1. /\ UNCHANGED <<req, list, tree>> /\ pc[w] = "addPut"
        /\ \/ pc'[w] = "rollback"
           \/ pc'[w] = "addCache" /\ WgPut(req[w].key, Listed(w))
    BY <1>0, <1>5 DEF AddPutPeer, Goto, Fail, memVars
  <2>2. WgPut(req[w].key, Listed(w)) =>
          req[w].key \in wgPeers' /\ \A p \in Listed(w) : route'[p] = req[w].key
    BY ListedPrefixes DEF WgPut
  <2>3. Listed(w)' = Listed(w)
    BY <2>1 DEF Listed
  <2> QED
    BY <1>0, <2>1, <2>2, <2>3 DEF AddSoFar, Listing
<1>6. ASSUME AddRollback(w) \/ AddUncache(w)
      PROVE  AddSoFar(w)'
  BY <1>0, <1>6 DEF AddRollback, AddUncache, UnlockAndRespond, Respond, Goto, AddSoFar, Listing
<1>7. AddSoFar(w)'
  BY <1>2, <1>3, <1>4, <1>5, <1>6
<1> QED
  BY <1>1, <1>7, SilentTruthful DEF DoneSoFar

\* COMMIT, and the answer that comes with it.
LEMMA CommitTrue ==
  ASSUME TypeInv, AnswerInv, Holding, NEW w \in Handler, AddCommit(w)
  PROVE  DoneSoFar(w)' /\ Truthful(w)
<1> DEFINE k == req[w].key
<1>0. /\ AddSoFar(w) /\ k \in Key /\ pc[w] = "addCommit"
      /\ pc \in [Handler -> {"idle", "wait", "done"} \cup Critical]
      /\ reply \in [Handler -> Status]
      /\ peerId \in [Key -> Nat] /\ enabled \in [Key -> BOOLEAN] /\ nextPeer \in Nat
      /\ cache[k] = nextPeer /\ nextPeer # 0
      /\ req \in [Handler -> Request \cup {NoRequest}]
      /\ \A r \in subnets : r.owner # nextPeer
  BY DEF AnswerInv, DoneSoFar, CacheInv, AddingRight, IdInv, PeerIds, OwnerIds, TypeInv,
         TypeOK, HandlersTyped, DbTyped, RequestFits, KeyPcs, AddCommit
<1>1. Unlockable
  BY <1>0, HoldsUnlocks DEF Holding, Critical
<1>2. DoneSoFar(w)'
  BY <1>0
  DEF AddCommit, Goto, Fail, UnlockAndRespond, Respond, DoneSoFar, AddSoFar, DeleteSoFar, UpdateSoFar,
      SubnetSoFar, Listing
<1>3. ASSUME reply'[w] = "500", UNCHANGED peerId
      PROVE  Truthful(w)
  BY <1>3, SilentTruthful
<1>4. ASSUME peerId' = [peerId EXCEPT ![k] = nextPeer], enabled' = [enabled EXCEPT ![k] = TRUE],
             subnets' = subnets \cup NewRows(list[w], nextPeer), reply'[w] = AddedStatus(w)
      PROVE  Truthful(w)
  <2>1. peerId'[k] = nextPeer /\ enabled'[k]
    BY <1>0, <1>4
  <2>2. UNCHANGED <<wgPeers, route, tree, cache>>
    BY DEF AddCommit, wgVars, memVars
  <2>3. RowsAfter(k) = Listed(w)
    <3>1. ASSUME NEW p \in RowsAfter(k)
          PROVE  p \in Listed(w)
      <4>1. PICK r \in subnets' : r.owner = nextPeer /\ r.prefix = p
        BY <2>1 DEF RowsAfter
      <4>2. r \in NewRows(list[w], nextPeer)
        BY <1>0, <1>4, <4>1
      <4> QED
        BY <4>1, <4>2, RowOfList DEF Listed
    <3>2. ASSUME NEW p \in Listed(w)
          PROVE  p \in RowsAfter(k)
      <4>1. PICK i \in DOMAIN list[w] : p = list[w][i].prefix
        BY DEF Listed
      <4>2. [id |-> nextSubnet + i - 1, prefix |-> list[w][i].prefix, owner |-> nextPeer,
             may |-> list[w][i].may] \in subnets'
        BY <1>4 DEF NewRows
      <4> QED
        BY <2>1, <4>1, <4>2 DEF RowsAfter
    <3> QED
      BY <3>1, <3>2
  <2>4. \A p \in Listed(w) : route'[p] = k
    BY <1>0, <2>2 DEF AddSoFar
  <2>5. \A i \in DOMAIN list[w] : ~list[w][i].may =>
          list[w][i].prefix.path \in tree'[list[w][i].prefix.net]
    BY <1>0, <2>2 DEF AddSoFar, Listing, Wanted
  <2>6. k \in wgPeers' /\ cache'[k] = peerId'[k]
    BY <1>0, <2>1, <2>2 DEF AddSoFar
  <2>7. AddDone(w)
    BY <1>0, <2>1, <2>3, <2>4, <2>5, <2>6 DEF AddDone
  <2>8. req[w].op = "add"
    BY <1>0 DEF AddSoFar, Listing
  <2> QED
    BY <1>4, <2>7, <2>8 DEF Truthful, AddedStatus
<1>5. \/ reply'[w] = "500" /\ UNCHANGED peerId
      \/ /\ peerId' = [peerId EXCEPT ![k] = nextPeer]
         /\ enabled' = [enabled EXCEPT ![k] = TRUE]
         /\ subnets' = subnets \cup NewRows(list[w], nextPeer)
         /\ reply'[w] = AddedStatus(w)
  BY <1>0, <1>1 DEF AddCommit, UnlockAndRespond, Respond, Fail, dbVars
<1> QED
  BY <1>2, <1>3, <1>4, <1>5

\* The handlers of one peer that use no transaction.
LEMMA PeerTrue ==
  ASSUME TypeInv, AnswerInv, NEW w \in Handler,
         DeleteRow(w) \/ DeleteFromWg(w) \/ UpdateRow(w) \/ UpdateReset(w) \/ UpdatePut(w)
           \/ GetRow(w)
  PROVE  DoneSoFar(w)' /\ Truthful(w)
<1> DEFINE k == req[w].key
           Elsewhere == AddSoFar(w)' /\ SubnetSoFar(w)'
           Rest == pc[w] # "addCommit" \/ UNCHANGED peerId
<1> USE DEF Goto, UnlockAndRespond, Respond, Continue
<1>0. /\ DeleteSoFar(w) /\ UpdateSoFar(w) /\ k \in Key /\ k # 0
      /\ pc \in [Handler -> {"idle", "wait", "done"} \cup Critical]
      /\ reply \in [Handler -> Status]
      /\ peerId \in [Key -> Nat] /\ enabled \in [Key -> BOOLEAN]
      /\ req \in [Handler -> Request \cup {NoRequest}]
      /\ route \in [Prefix -> Key \cup {0}]
  BY KeyAssumption
  DEF AnswerInv, DoneSoFar, TypeInv, TypeOK, HandlersTyped, DbTyped, WgTyped, RequestFits,
      KeyPcs, DeleteRow, DeleteFromWg, UpdateRow, UpdateReset, UpdatePut, GetRow
<1>1. Elsewhere /\ Rest
  BY <1>0
  DEF DeleteRow, DeleteFromWg, UpdateRow, UpdateReset, UpdatePut, GetRow, AddSoFar,
      SubnetSoFar, Listing
<1>2. ASSUME DeleteRow(w) \/ GetRow(w)
      PROVE  DeleteSoFar(w)' /\ UpdateSoFar(w)' /\ Truthful(w)
  <2>1. DeleteSoFar(w)' /\ UpdateSoFar(w)'
    BY <1>0, <1>2 DEF DeleteRow, GetRow, DeleteSoFar, UpdateSoFar
  <2>2. reply'[w] \notin {"201", "204"} \/ reply'[w] = reply[w]
    BY <1>0, <1>2 DEF DeleteRow, GetRow
  <2> QED
    BY <1>1, <2>1, <2>2, SilentTruthful
<1>3. ASSUME DeleteFromWg(w)
      PROVE  DeleteSoFar(w)' /\ UpdateSoFar(w)' /\ Truthful(w)
  <2>1. DeleteSoFar(w)' /\ UpdateSoFar(w)'
    BY <1>0, <1>3 DEF DeleteFromWg, DeleteSoFar, UpdateSoFar
  <2>2. ASSUME WgRemove(k), UNCHANGED peerId
        PROVE  DeleteDone(w) /\ req[w].op = "delete"
    BY <1>0, <1>3, <2>2 DEF DeleteFromWg, WgRemove, DeleteDone, DeleteSoFar
  <2>3. UNCHANGED peerId
    BY <1>3 DEF DeleteFromWg, dbVars
  <2>4. WgRemove(k) \/ reply'[w] \in {"500", "fatal"}
    BY <1>0, <1>3 DEF DeleteFromWg
  <2> QED
    BY <2>1, <2>2, <2>3, <2>4 DEF Truthful
<1>4. ASSUME UpdateRow(w)
      PROVE  DeleteSoFar(w)' /\ UpdateSoFar(w)' /\ Truthful(w)
  <2>1. DeleteSoFar(w)' /\ UpdateSoFar(w)'
    <3>1. req[w].enabled \in BOOLEAN
      BY <1>4 DEF UpdateRow, TypeInv, RequestFits
    <3> QED
      BY <1>0, <1>4, <3>1 DEF UpdateRow, DeleteSoFar, UpdateSoFar
  <2>2. reply'[w] \notin {"201", "204"} \/ reply'[w] = reply[w]
    BY <1>0, <1>4 DEF UpdateRow
  <2> QED
    BY <1>1, <2>1, <2>2, SilentTruthful
<1>5. ASSUME UpdateReset(w)
      PROVE  DeleteSoFar(w)' /\ UpdateSoFar(w)' /\ Truthful(w)
  <2>1. DeleteSoFar(w)' /\ UpdateSoFar(w)'
    BY <1>0, <1>5 DEF UpdateReset, DeleteSoFar, UpdateSoFar, dbVars
  <2>2. ASSUME WgRemove(k), ~req[w].enabled
        PROVE  UpdateDone(w) /\ req[w].op = "update"
    BY <1>0, <1>5, <2>2 DEF UpdateReset, WgRemove, UpdateDone, UpdateSoFar, dbVars
  <2>3. \/ WgRemove(k) /\ ~req[w].enabled
        \/ reply'[w] \in {"500", "fatal"} \/ reply'[w] = reply[w]
    BY <1>0, <1>5 DEF UpdateReset
  <2> QED
    BY <1>1, <2>1, <2>2, <2>3 DEF Truthful
<1>6. ASSUME UpdatePut(w)
      PROVE  DeleteSoFar(w)' /\ UpdateSoFar(w)' /\ Truthful(w)
  <2>1. DeleteSoFar(w)' /\ UpdateSoFar(w)'
    BY <1>0, <1>6 DEF UpdatePut, DeleteSoFar, UpdateSoFar
  <2>2. UNCHANGED <<peerId, enabled, subnets>>
    BY <1>6 DEF UpdatePut, dbVars
  <2>3. PeerPrefixes(k) \subseteq Prefix /\ RowsAfter(k) = PeerPrefixes(k)
    BY <2>2 DEF PeerPrefixes, RowsAfter, TypeInv, TypeOK, DbTyped
  <2>4. ASSUME WgPut(k, PeerPrefixes(k))
        PROVE  UpdateDone(w) /\ req[w].op = "update"
    <3>1. k \in wgPeers' /\ \A p \in PeerPrefixes(k) : route'[p] = k
      BY <2>3, <2>4 DEF WgPut
    <3> QED
      BY <1>0, <1>6, <2>2, <2>3, <3>1 DEF UpdatePut, UpdateDone, UpdateSoFar
  <2>5. WgPut(k, PeerPrefixes(k)) \/ reply'[w] \in {"500", "fatal"}
    BY <1>0, <1>6 DEF UpdatePut
  <2> QED
    BY <1>1, <2>1, <2>4, <2>5 DEF Truthful
<1> QED
  BY <1>1, <1>2, <1>3, <1>4, <1>5, <1>6 DEF DoneSoFar

\* The handlers of a reserved subnet.
LEMMA SubnetTrue ==
  ASSUME TypeInv, AnswerInv, NEW w \in Handler,
         ReserveInTree(w) \/ ReserveRow(w) \/ DeleteSubnetFromTree(w) \/ DeleteSubnetRow(w)
  PROVE  DoneSoFar(w)' /\ Truthful(w)
<1> DEFINE Elsewhere == AddSoFar(w)' /\ DeleteSoFar(w)' /\ UpdateSoFar(w)'
           Quiet == (reply'[w] \notin {"201", "204"} \/ reply'[w] = reply[w])
           Rest == pc[w] # "addCommit" \/ UNCHANGED peerId
           s == req[w].sub
<1> USE DEF Goto, UnlockAndRespond, Respond, Continue
<1>0. /\ SubnetSoFar(w)
      /\ pc \in [Handler -> {"idle", "wait", "done"} \cup Critical]
      /\ reply \in [Handler -> Status] /\ DOMAIN tree = Net
      /\ req \in [Handler -> Request \cup {NoRequest}]
  BY DEF AnswerInv, DoneSoFar, TypeInv, TypeOK, HandlersTyped, MemTyped
<1>1. Elsewhere /\ Rest
  BY <1>0
  DEF ReserveInTree, ReserveRow, DeleteSubnetFromTree, DeleteSubnetRow, AddSoFar, DeleteSoFar,
      UpdateSoFar, Listing
<1>2. ASSUME ReserveInTree(w)
      PROVE  SubnetSoFar(w)' /\ Truthful(w)
  <2>1. ASSUME Reservable(tree, s.prefix), tree' = Put(tree, {s.prefix})
        PROVE  s.prefix.path \in tree'[s.prefix.net]
    BY <2>1, PathsMember DEF Reservable, Put
  <2>2. \/ /\ s.may \/ (Reservable(tree, s.prefix) /\ tree' = Put(tree, {s.prefix}))
           /\ pc'[w] = "reserveRow" /\ UNCHANGED req /\ pc[w] = "reserve"
        \/ pc'[w] = "done"
    <3>1. CASE s.may
      BY <1>0, <1>2, <3>1 DEF ReserveInTree
    <3>2. CASE ~s.may
      BY <1>0, <1>2, <3>2 DEF ReserveInTree
    <3> QED
      BY <3>1, <3>2
  <2>3. SubnetSoFar(w)'
    BY <1>0, <2>1, <2>2 DEF SubnetSoFar
  <2>4. Quiet
    BY <1>0, <1>2 DEF ReserveInTree
  <2> QED
    BY <1>1, <2>3, <2>4, SilentTruthful
<1>3. ASSUME ReserveRow(w)
      PROVE  SubnetSoFar(w)' /\ Truthful(w)
  <2>1. SubnetSoFar(w)'
    BY <1>0, <1>3 DEF ReserveRow, SubnetSoFar
  <2>2. ASSUME subnets' = subnets \cup NewRows(<<s>>, 0), UNCHANGED tree
        PROVE  ReserveDone(w) /\ req[w].op = "reserve"
    <3>1. [id |-> nextSubnet + 1 - 1, prefix |-> s.prefix, owner |-> 0, may |-> s.may]
            \in NewRows(<<s>>, 0)
      BY DEF NewRows
    <3>2. \E r \in subnets' : r.prefix = s.prefix /\ r.may = s.may /\ r.owner = 0
      BY <2>2, <3>1
    <3> QED
      BY <1>0, <1>3, <2>2, <3>2 DEF ReserveRow, ReserveDone, SubnetSoFar
  <2>3. \/ subnets' = subnets \cup NewRows(<<s>>, 0) /\ UNCHANGED tree
        \/ reply'[w] \in {"500", "fatal"}
    BY <1>0, <1>3 DEF ReserveRow
  <2> QED
    BY <1>1, <2>1, <2>2, <2>3 DEF Truthful
<1>4. ASSUME DeleteSubnetFromTree(w)
      PROVE  SubnetSoFar(w)' /\ Truthful(w)
  <2> DEFINE rows == RowsWithId(req[w].id)
  <2>1. ASSUME tree' = Drop(tree, ExclusivePrefixes(rows)), NEW r \in rows, ~r.may,
               r.prefix.net \in Net
        PROVE  r.prefix.path \notin tree'[r.prefix.net]
    <3>1. r.prefix \in ExclusivePrefixes(rows)
      BY <2>1 DEF ExclusivePrefixes
    <3> HIDE DEF rows
    <3> QED
      BY <1>0, <2>1, <3>1, PathsMember DEF Drop
  <2>2. rows' = rows \/ req'[w] # req[w]
    BY <1>4 DEF DeleteSubnetFromTree, RowsWithId, dbVars
  <2>3. \/ /\ tree' = Drop(tree, ExclusivePrefixes(rows)) /\ pc'[w] = "dropRow"
           /\ UNCHANGED <<req, reply>> /\ pc[w] = "deleteSubnet"
        \/ pc'[w] = "done" /\ reply'[w] \in {"404", "500", "fatal"}
    BY <1>0, <1>4 DEF DeleteSubnetFromTree
  <2>4. SubnetSoFar(w)'
    BY <1>0, <2>1, <2>2, <2>3 DEF SubnetSoFar
  <2> QED
    BY <1>1, <2>3, <2>4, SilentTruthful
<1>5. ASSUME DeleteSubnetRow(w)
      PROVE  SubnetSoFar(w)' /\ Truthful(w)
  <2>1. SubnetSoFar(w)'
    BY <1>0, <1>5 DEF DeleteSubnetRow, SubnetSoFar
  <2>2. ASSUME subnets' = subnets \ RowsWithId(req[w].id), UNCHANGED tree
        PROVE  DeleteSubnetDone(w) /\ req[w].op = "deleteSubnet"
    BY <1>0, <1>5, <2>2 DEF DeleteSubnetRow, DeleteSubnetDone, SubnetSoFar, RowsWithId
  <2>3. UNCHANGED tree
    BY <1>5 DEF DeleteSubnetRow, memVars
  <2>4. subnets' = subnets \ RowsWithId(req[w].id) \/ reply'[w] \in {"500", "fatal"}
    BY <1>0, <1>5 DEF DeleteSubnetRow
  <2> QED
    BY <1>1, <2>1, <2>2, <2>3, <2>4 DEF Truthful
<1> QED
  BY <1>1, <1>2, <1>3, <1>4, <1>5 DEF DoneSoFar

\* Whoever is not between Lock and Unlock has nothing to show.
LEMMA OutsideDone ==
  ASSUME NEW w \in Handler, pc[w] \notin Critical
  PROVE  DoneSoFar(w)
  BY DEF DoneSoFar, AddSoFar, DeleteSoFar, UpdateSoFar, SubnetSoFar, Critical, Listing

\* A request comes in, gets the mutex, or is over.
LEMMA ComingTrue ==
  ASSUME TypeInv, NEW w \in Handler, Receive(w) \/ LockDb(w) \/ Finish(w)
  PROVE  DoneSoFar(w)' /\ Truthful(w)
<1>0. /\ pc \in [Handler -> {"idle", "wait", "done"} \cup Critical]
      /\ req \in [Handler -> Request \cup {NoRequest}] /\ reply \in [Handler -> Status]
  BY DEF TypeInv, TypeOK, HandlersTyped
<1>1. CASE Receive(w) \/ Finish(w)
  <2>1. DoneSoFar(w)'
    BY <1>0, <1>1
    DEF Receive, Finish, Goto, DoneSoFar, AddSoFar, DeleteSoFar, UpdateSoFar, SubnetSoFar,
        Listing
  <2>2. /\ reply'[w] \notin {"201", "204"} \/ reply'[w] = reply[w]
        /\ pc[w] # "addCommit"
    BY <1>0, <1>1 DEF Receive, Finish
  <2> QED
    BY <2>1, <2>2, SilentTruthful
<1>2. CASE LockDb(w)
  <2>1. PICK r \in Request : req' = [req EXCEPT ![w] = r] /\ Goto(w, r.op)
    BY <1>2 DEF LockDb
  <2>2. req'[w] = r /\ pc'[w] = r.op
    BY <1>0, <2>1 DEF Goto
  <2>3. r.op \in {"add", "delete", "update", "get", "reserve", "deleteSubnet"}
    BY DEF Request
  <2>4. DoneSoFar(w)'
    BY <2>2, <2>3 DEF DoneSoFar, AddSoFar, DeleteSoFar, UpdateSoFar, SubnetSoFar, Listing
  <2>5. UNCHANGED reply /\ pc[w] # "addCommit"
    BY <1>2 DEF LockDb
  <2> QED
    BY <2>4, <2>5, SilentTruthful
<1> QED
  BY <1>1, <1>2

\* A step of w leaves the answers of the others alone.
LEMMA OtherReplies ==
  ASSUME TypeInv, NEW w \in Handler, Receive(w) \/ TakeMutex(w) \/ HandlerStep(w),
         NEW v \in Handler \ {w}
  PROVE  reply'[v] = reply[v]
<1> USE DEF Fail, UnlockAndRespond, Respond, Continue
<1>0. reply \in [Handler -> Status]
  BY DEF TypeInv, TypeOK, HandlersTyped
<1>1. CASE Receive(w) \/ LockDb(w) \/ Finish(w)
  BY <1>0, <1>1 DEF Receive, LockDb, Finish
<1>2. CASE AddRow(w) \/ AddReserve(w) \/ AddAssignRandom(w) \/ AddSubnetRows(w)
  BY <1>0, <1>2 DEF AddRow, AddReserve, AddAssignRandom, AddSubnetRows
<1>3. CASE AddPutPeer(w) \/ AddPutNew(w) \/ AddCommit(w)
  BY <1>0, <1>3 DEF AddPutPeer, AddPutNew, AddCommit
<1>4. CASE AddRollback(w) \/ AddUncache(w) \/ DeleteRow(w) \/ DeleteFromWg(w) \/ GetRow(w)
  BY <1>0, <1>4 DEF AddRollback, AddUncache, DeleteRow, DeleteFromWg, GetRow
<1>5. CASE UpdateRow(w) \/ UpdateReset(w) \/ UpdatePut(w)
  BY <1>0, <1>5 DEF UpdateRow, UpdateReset, UpdatePut
<1>6. CASE \/ ReserveInTree(w) \/ ReserveRow(w)
           \/ DeleteSubnetFromTree(w) \/ DeleteSubnetRow(w)
  BY <1>0, <1>6 DEF ReserveInTree, ReserveRow, DeleteSubnetFromTree, DeleteSubnetRow
<1> QED
  BY <1>1, <1>2, <1>3, <1>4, <1>5, <1>6 DEF TakeMutex, HandlerStep

\* A step of a handler keeps what every handler has done so far and answers truly.
LEMMA HandlerTrue ==
  ASSUME TypeInv, AnswerInv, Holding, Alone, NEW w \in Handler,
         Receive(w) \/ TakeMutex(w) \/ HandlerStep(w)
  PROVE  \A v \in Handler : DoneSoFar(v)' /\ Truthful(v)
<1>1. DoneSoFar(w)' /\ Truthful(w)
  BY AddingTrue, CommitTrue, PeerTrue, SubnetTrue, ComingTrue DEF TakeMutex, HandlerStep
<1>2. Keeps(w)
  BY HandlerKeeps
<1>3. ASSUME NEW v \in Handler \ {w}
      PROVE  DoneSoFar(v)' /\ Truthful(v)
  <2>1. pc'[v] = pc[v] /\ req'[v] = req[v] /\ list'[v] = list[v]
    BY <1>2 DEF Keeps
  <2>2. CASE pc[w] \in Critical
    <3>1. pc[v] \notin Critical
      BY <2>2 DEF Alone
    <3>2. DoneSoFar(v)'
      <4>1. pc'[v] \notin Critical
        BY <2>1, <3>1
      <4> QED
        BY <4>1
        DEF DoneSoFar, AddSoFar, DeleteSoFar, UpdateSoFar, SubnetSoFar, Critical, Listing
    <3>3. pc[v] # "addCommit"
      BY <3>1 DEF Critical
    <3> QED
      BY <3>2, <3>3, OtherReplies, SilentTruthful
  <2>3. CASE pc[w] \notin Critical
    <3>1. Receive(w) \/ LockDb(w) \/ Finish(w)
      BY <2>3
      DEF Critical, TakeMutex, HandlerStep, AddRow, AddReserve, AddAssignRandom, AddSubnetRows,
          AddPutPeer, AddPutNew, AddCommit, AddRollback, AddUncache, DeleteRow,
          DeleteFromWg, UpdateRow, UpdateReset, UpdatePut, GetRow, ReserveInTree, ReserveRow,
          DeleteSubnetFromTree, DeleteSubnetRow
    <3>2. UNCHANGED <<dbVars, wgVars, memVars>>
      BY <3>1 DEF Receive, LockDb, Finish
    <3>3. DoneSoFar(v)
      BY DEF AnswerInv
    <3>4. Listed(v)' = Listed(v) /\ RowsWithId(req[v].id)' = RowsWithId(req[v].id)
      BY <2>1, <3>2 DEF Listed, RowsWithId, dbVars
    <3>5. DoneSoFar(v)'
      BY <2>1, <3>2, <3>3, <3>4
      DEF DoneSoFar, AddSoFar, DeleteSoFar, UpdateSoFar, SubnetSoFar, dbVars, wgVars, memVars
    <3> QED
      BY <3>2, <3>5, OtherReplies, SilentTruthful DEF dbVars
  <2> QED
    BY <2>2, <2>3
<1> QED
  BY <1>1, <1>3

\* The invariant is inductive and every answer true as long as handlers are alone
\* inside and have the mutex up to their first Unlock.
LEMMA NextAnswers ==
  ASSUME TypeInv, AnswerInv, Holding, Alone, [Next]_vars
  PROVE  AnswerInv' /\ (\A w \in Handler : Truthful(w))
<1>0. CacheInv' /\ IdInv'
  BY NextCache, NextIds DEF AnswerInv
<1>1. CASE UNCHANGED vars
  <2>1. ASSUME NEW v \in Handler
        PROVE  DoneSoFar(v)'
    BY <1>1
    DEF AnswerInv, DoneSoFar, AddSoFar, DeleteSoFar, UpdateSoFar, SubnetSoFar, Listed,
        RowsWithId, vars, dbVars, wgVars, memVars, handlerVars
  <2> QED
    BY <1>0, <1>1, <2>1, SilentTruthful DEF AnswerInv, vars, dbVars, handlerVars
<1>2. CASE ProcessGone
  <2>1. ASSUME NEW v \in Handler
        PROVE  /\ pc'[v] = "idle" /\ reply'[v] = "none" /\ UNCHANGED peerId
    BY <1>2 DEF ProcessGone, dbVars
  <2>2. ASSUME NEW v \in Handler
        PROVE  DoneSoFar(v)'
    BY <2>1
    DEF DoneSoFar, AddSoFar, DeleteSoFar, UpdateSoFar, SubnetSoFar, Listing
  <2> QED
    BY <1>0, <2>1, <2>2, SilentTruthful DEF AnswerInv
<1>3. CASE CollectorStep
  <2>1. UNCHANGED <<dbVars, wgVars, memVars, handlerVars>>
    BY <1>3 DEF CollectorStep, CollectDump, CollectLockCache, CollectWrite
  <2>2. ASSUME NEW v \in Handler
        PROVE  DoneSoFar(v)'
    BY <2>1
    DEF AnswerInv, DoneSoFar, AddSoFar, DeleteSoFar, UpdateSoFar, SubnetSoFar, Listed,
        RowsWithId, dbVars, wgVars, memVars, handlerVars
  <2> QED
    BY <1>0, <2>1, <2>2, SilentTruthful DEF AnswerInv, dbVars, handlerVars
<1>4. ASSUME StartStep, ~ProcessGone
      PROVE  AnswerInv' /\ (\A w \in Handler : Truthful(w))
  <2>1. UNCHANGED <<peerId, pc, reply>> /\ boot # "up"
    BY <1>4 DEF StartStep, StartTrees, StartServing, StartFailed, StartRemove, StartPut,
                StartUndo, dbVars, handlerVars
  <2>2. ASSUME NEW v \in Handler
        PROVE  pc'[v] = "idle"
    BY <2>1 DEF AnswerInv, CacheInv, IdleUntilUp
  <2>3. ASSUME NEW v \in Handler
        PROVE  DoneSoFar(v)'
    BY <2>2 DEF DoneSoFar, AddSoFar, DeleteSoFar, UpdateSoFar, SubnetSoFar, Listing
  <2> QED
    BY <1>0, <2>1, <2>3, SilentTruthful DEF AnswerInv
<1>5. ASSUME NEW w \in Handler, Receive(w) \/ TakeMutex(w) \/ HandlerStep(w), ~ProcessGone
      PROVE  AnswerInv' /\ (\A v \in Handler : Truthful(v))
  BY <1>0, <1>5, HandlerTrue DEF AnswerInv
<1> QED
  BY <1>1, <1>2, <1>3, <1>4, <1>5 DEF Next, Crash, FatalUnlock

\* At the first start nothing is promised.
LEMMA InitAnswers == Init => AnswerInv
<1> SUFFICES ASSUME Init
             PROVE  AnswerInv
  OBVIOUS
<1>1. CacheInv
  BY DEF Init, CacheInv, CacheIds, IdleUntilUp, AddingRight, Listing
<1>2. \A w \in Handler : DoneSoFar(w)
  BY OutsideDone DEF Init, Critical
<1> QED
  BY <1>1, <1>2, InitIds DEF AnswerInv

\* The invariant in every state.
LEMMA AnswersStand ==
  ASSUME CommitAlone
  PROVE  Spec => [](TypeInv /\ AnswerInv /\ Holding /\ Alone)
<1>1. TypeInv /\ AnswerInv /\ Holding /\ Alone /\ [Next]_vars => TypeInv' /\ AnswerInv'
  BY NextTyped, NextAnswers
<1> QED
  BY <1>1, TypeInit, InitAnswers, HoldsMutex, OneInside, PTL DEF Spec

\* What the answers "201" and "204" of the peer and subnet handlers say is so in
\* the tables, the trees, the interface and the cache, and a committed peer is
\* answered with "201" unless its list has a shared subnet: for any handlers,
\* requests and lists, and whatever statements and commands fail.  A failed COMMIT is
\* covered where one handler is all there is; beside another POST of the key its
\* rollback takes that one's cache entry away before it answers (claim_commit_answer.cfg).
THEOREM AnswersHold ==
  ASSUME CommitAlone
  PROVE  Spec => AnswersAreTrue
<1>1. TypeInv /\ AnswerInv /\ Holding /\ Alone /\ [Next]_vars => [\A w \in Handler : Truthful(w)]_vars
  BY NextAnswers
<1>2. Spec => [][\A w \in Handler : Truthful(w)]_vars
  BY <1>1, AnswersStand, PTL DEF Spec
<1> QED
  BY <1>2, PTL DEF AnswersAreTrue, Truthful

-----------------------------------------------------------------------------
(* The peers of the interface                                              *)

\* The peers that w is not about to change match.
OthersMatch(w) == \A k \in Key : (Touching(w) => req[w].key # k) => Match(k)

\* Only the handler that is inside touches the interface.
LEMMA OnlyToucher ==
  ASSUME Alone, NEW w \in Handler, pc[w] \in Critical, Keeps(w)
  PROVE  \A v \in Handler \ {w} : ~Touching(v) /\ ~Touching(v)'
  BY DEF Alone, Keeps, Touching, Critical

\* A handler that takes a peer up or puts it down leaves the other peers alone, and
\* when it lets go of the peer the table and the interface agree about it.
LEMMA InsideMatch ==
  ASSUME Faults \subseteq {"db", "dropRow"}, TypeInv, AnswerInv, NEW w \in Handler,
         TakeMutex(w) \/ HandlerStep(w), pc[w] \in Critical, OthersMatch(w)
  PROVE  OthersMatch(w)'
<1> DEFINE k == req[w].key
           Outside == UNCHANGED <<wgPeers, peerId, enabled>> /\ ~Touching(w) /\ ~Touching(w)'
<1> USE DEF Goto, UnlockAndRespond, Respond, Continue, Fail
<1>0. /\ DoneSoFar(w)
      /\ pc \in [Handler -> {"idle", "wait", "done"} \cup Critical]
      /\ req \in [Handler -> Request \cup {NoRequest}]
      /\ peerId \in [Key -> Nat] /\ enabled \in [Key -> BOOLEAN]
      /\ nextPeer # 0
  BY DEF AnswerInv, IdInv, PeerIds, TypeInv, TypeOK, HandlersTyped, DbTyped
<1>1. ASSUME Outside
      PROVE  OthersMatch(w)'
  BY <1>1 DEF OthersMatch, Match
<1>2. CASE \/ AddRow(w) \/ AddReserve(w) \/ AddAssignRandom(w) \/ AddSubnetRows(w)
           \/ AddRollback(w) \/ AddUncache(w) \/ GetRow(w)
  BY <1>0, <1>1, <1>2
  DEF AddRow, AddReserve, AddAssignRandom, AddSubnetRows, AddRollback, AddUncache, GetRow,
      Touching, dbVars, wgVars
<1>3. CASE ReserveInTree(w) \/ ReserveRow(w) \/ DeleteSubnetFromTree(w) \/ DeleteSubnetRow(w)
  BY <1>0, <1>1, <1>3
  DEF ReserveInTree, ReserveRow, DeleteSubnetFromTree, DeleteSubnetRow, Touching, dbVars, wgVars
<1>4. CASE AddPutPeer(w)
  <2>1. /\ pc'[w] = "addCache" /\ ~Touching(w) /\ wgPeers' = wgPeers \cup {k}
        /\ UNCHANGED <<peerId, enabled, req>>
    BY <1>0, <1>4 DEF AddPutPeer, WgPut, Touching, dbVars
  <2> QED
    BY <2>1 DEF OthersMatch, Match, Touching
<1>5. CASE AddPutNew(w)
  <2>1. Touching(w) /\ UNCHANGED <<peerId, enabled, req, wgPeers>> /\ Touching(w)'
    BY <1>0, <1>5 DEF AddPutNew, Touching, dbVars, wgVars
  <2> QED
    BY <2>1 DEF OthersMatch, Match
<1>6. CASE AddCommit(w)
  <2>1. /\ peerId' = [peerId EXCEPT ![k] = nextPeer]
        /\ enabled' = [enabled EXCEPT ![k] = TRUE]
        /\ UNCHANGED wgPeers /\ pc[w] = "addCommit" /\ k \in wgPeers
    BY <1>0, <1>6 DEF AddCommit, wgVars, DoneSoFar, AddSoFar
  <2>2. \A j \in Key \ {k} : Match(j)
    BY <2>1 DEF OthersMatch, Touching
  <2> QED
    BY <1>0, <2>1, <2>2 DEF OthersMatch, Match
<1>7. CASE DeleteRow(w)
  <2>1. ASSUME UNCHANGED <<peerId, enabled>>, pc'[w] = "done"
        PROVE  Outside
    BY <1>7, <2>1 DEF DeleteRow, Touching, wgVars
  <2>2. ASSUME peerId' = [peerId EXCEPT ![k] = 0], enabled' = [enabled EXCEPT ![k] = FALSE],
               pc'[w] = "deleteWg", UNCHANGED req
        PROVE  OthersMatch(w)'
    BY <1>0, <1>7, <2>2 DEF DeleteRow, OthersMatch, Match, Touching, wgVars
  <2> QED
    BY <1>0, <1>1, <1>7, <2>1, <2>2 DEF DeleteRow
<1>8. CASE DeleteFromWg(w)
  <2>1. /\ wgPeers' = wgPeers \ {k} /\ UNCHANGED <<peerId, enabled>>
        /\ pc[w] = "deleteWg" /\ peerId[k] = 0
    BY <1>0, <1>8 DEF DeleteFromWg, WgRemove, DoneSoFar, DeleteSoFar, dbVars
  <2> QED
    BY <2>1 DEF OthersMatch, Match, Touching
<1>9. CASE UpdateRow(w)
  <2>1. ASSUME UNCHANGED enabled, pc'[w] = "done"
        PROVE  Outside
    BY <1>9, <2>1 DEF UpdateRow, Touching, wgVars
  <2>2. ASSUME enabled' = [enabled EXCEPT ![k] = req[w].enabled],
               pc'[w] = "updateReset", UNCHANGED req
        PROVE  OthersMatch(w)'
    BY <1>0, <1>9, <2>2 DEF UpdateRow, OthersMatch, Match, Touching, wgVars
  <2> QED
    BY <1>0, <1>1, <1>9, <2>1, <2>2 DEF UpdateRow
<1>10. CASE UpdateReset(w)
  <2>1. /\ wgPeers' = wgPeers \ {k} /\ UNCHANGED <<peerId, enabled>>
        /\ pc[w] = "updateReset" /\ enabled[k] = req[w].enabled
        /\ \/ pc'[w] = "updatePut" /\ UNCHANGED req
           \/ ~req[w].enabled
    BY <1>0, <1>10 DEF UpdateReset, WgRemove, DoneSoFar, UpdateSoFar, dbVars
  <2> QED
    BY <2>1 DEF OthersMatch, Match, Touching
<1>11. CASE UpdatePut(w)
  <2>1. /\ wgPeers' = wgPeers \cup {k} /\ UNCHANGED <<peerId, enabled>>
        /\ pc[w] = "updatePut" /\ peerId[k] # 0 /\ enabled[k]
    BY <1>0, <1>11 DEF UpdatePut, WgPut, DoneSoFar, UpdateSoFar, dbVars
  <2> QED
    BY <2>1 DEF OthersMatch, Match, Touching
<1> QED
  BY <1>2, <1>3, <1>4, <1>5, <1>6, <1>7, <1>8, <1>9, <1>10, <1>11
  DEF TakeMutex, HandlerStep, LockDb, Finish, Critical

\* Requests that come in, get the mutex or are over touch nothing.
LEMMA ComingStays ==
  ASSUME TypeInv, NEW w \in Handler, Receive(w) \/ TakeMutex(w) \/ HandlerStep(w),
         pc[w] \notin Critical
  PROVE  /\ UNCHANGED <<dbVars, wgVars, memVars, procVars>>
         /\ \A v \in Handler : Touching(v)' = Touching(v) /\ (Touching(v) => req'[v] = req[v])
         /\ \A v \in Handler : held'[v] = held[v]
<1>0. /\ pc \in [Handler -> {"idle", "wait", "done"} \cup Critical]
      /\ req \in [Handler -> Request \cup {NoRequest}]
  BY DEF TypeInv, TypeOK, HandlersTyped
<1>1. Receive(w) \/ LockDb(w) \/ Finish(w)
  BY DEF Critical, TakeMutex, HandlerStep, AddRow, AddReserve, AddAssignRandom, AddSubnetRows,
         AddPutPeer, AddPutNew, AddCommit, AddRollback, AddUncache, DeleteRow,
         DeleteFromWg, UpdateRow, UpdateReset, UpdatePut, GetRow, ReserveInTree, ReserveRow,
         DeleteSubnetFromTree, DeleteSubnetRow
<1>2. UNCHANGED <<dbVars, wgVars, memVars, procVars, held>>
  BY <1>1 DEF Receive, LockDb, Finish
<1>3. CASE Receive(w) \/ Finish(w)
  BY <1>0, <1>2, <1>3 DEF Receive, Finish, Goto, Touching
<1>4. CASE LockDb(w)
  <2>1. PICK r \in Request : req' = [req EXCEPT ![w] = r] /\ pc' = [pc EXCEPT ![w] = r.op]
    BY <1>4 DEF LockDb, Goto
  <2>2. r.op \in {"add", "delete", "update", "get", "reserve", "deleteSubnet"}
    BY DEF Request
  <2>3. pc[w] = "wait"
    BY <1>4 DEF LockDb
  <2> QED
    BY <1>0, <1>2, <2>1, <2>2, <2>3 DEF Touching
<1> QED
  BY <1>1, <1>3, <1>4

\* Handlers run in a process that serves.
LEMMA HandlerServes ==
  ASSUME IdleUntilUp, NEW w \in Handler, Receive(w) \/ TakeMutex(w) \/ HandlerStep(w)
  PROVE  boot = "up"
  BY DEF IdleUntilUp, TakeMutex, HandlerStep, Receive, LockDb, Finish, AddRow, AddReserve,
         AddAssignRandom, AddSubnetRows, AddPutPeer, AddPutNew, AddCommit, AddRollback,
         AddUncache, DeleteRow, DeleteFromWg, UpdateRow, UpdateReset, UpdatePut,
         GetRow, ReserveInTree, ReserveRow, DeleteSubnetFromTree, DeleteSubnetRow

\* With no failure but of the database, handlers keep the table and the interface
\* in agreement.
LEMMA HandlerMatch ==
  ASSUME Faults \subseteq {"db", "dropRow"}, TypeInv, AnswerInv, Alone, DbMutex, MatchInv,
         NEW w \in Handler, Receive(w) \/ TakeMutex(w) \/ HandlerStep(w)
  PROVE  MatchInv'
<1>2. boot = "up"
  BY HandlerServes DEF AnswerInv, CacheInv
<1>3. Keeps(w) /\ boot' = boot
  BY HandlerKeeps
<1>4. CASE pc[w] \in Critical
  <2>1. OthersMatch(w)
    BY <1>3, <1>4, OnlyToucher DEF MatchInv, OthersMatch
  <2>2. TakeMutex(w) \/ HandlerStep(w)
    BY <1>4 DEF Receive, Critical
  <2>3. OthersMatch(w)'
    BY <1>4, <2>1, <2>2, InsideMatch
  <2>4. \A k \in Key :
          (\A v \in Handler : Touching(v)' => req'[v].key # k) => Match(k)'
    BY <2>3 DEF OthersMatch
  <2> QED
    BY <1>2, <1>3, <2>4 DEF MatchInv
<1>5. CASE pc[w] \notin Critical
  <2>1. /\ UNCHANGED <<peerId, enabled, wgPeers>>
        /\ \A v \in Handler : Touching(v)' = Touching(v) /\ (Touching(v) => req'[v] = req[v])
    BY <1>5, ComingStays DEF dbVars, wgVars
  <2>2. \A k \in Key : Match(k)' = Match(k)
    BY <2>1 DEF Match
  <2> QED
    BY <1>2, <1>3, <2>1, <2>2 DEF MatchInv
<1> QED
  BY <1>4, <1>5

\* ... and the only start finds no peers and no rows of peers.
LEMMA NextMatch ==
  ASSUME Faults \subseteq {"db", "dropRow"}, TypeInv, AnswerInv, Alone, DbMutex, NoFatal,
         MatchInv,         [Next]_vars
  PROVE  MatchInv'
<1>1. ASSUME UNCHANGED <<peerId, enabled, wgPeers, pc, req, boot, todo>>
      PROVE  MatchInv'
  BY <1>1 DEF MatchInv, Match, Touching
<1>2. CASE UNCHANGED vars
  BY <1>1, <1>2 DEF vars, dbVars, wgVars, handlerVars, procVars
<1>3. CASE CollectorStep
  BY <1>1, <1>3
  DEF CollectorStep, CollectDump, CollectLockCache, CollectWrite, dbVars, wgVars, handlerVars
<1>4. CASE StartStep
  <2>1. StartTrees \/ StartServing
    BY <1>4 DEF MatchInv, StartStep, StartFailed, StartRemove, StartPut, StartUndo, IsNext
  <2>2. /\ UNCHANGED <<peerId, enabled, wgPeers, pc, req>>
        /\ boot' \in {"remove", "refused", "up"}
        /\ todo' = {}
    BY <2>1 DEF MatchInv, StartTrees, StartServing, DbKeys, dbVars, wgVars, handlerVars
  <2>3. \A k \in Key : peerId'[k] = 0
    BY <2>1, <2>2 DEF MatchInv, StartTrees, StartServing
  <2> QED
    BY <2>2, <2>3 DEF MatchInv, Match, Touching
<1>5. ~Crash /\ \A w \in Handler : ~FatalUnlock(w)
  BY DEF Crash, FatalUnlock, NoFatal
<1> QED
  BY <1>2, <1>3, <1>4, <1>5, HandlerMatch DEF Next

\* The invariants in every state.
LEMMA InterfaceStands ==
  ASSUME Faults \subseteq {"db", "dropRow"}
  PROVE  Spec => [](TypeInv /\ AnswerInv /\ Alone /\ DbMutex /\ NoFatal /\ MatchInv)
<1>1. Init => MatchInv
  BY DEF Init, MatchInv, Match
<1>2. TypeInv /\ AnswerInv /\ Alone /\ DbMutex /\ NoFatal /\ MatchInv /\ [Next]_vars => MatchInv'
  BY NextMatch
<1>3. "commit" \notin Faults /\ CommitAlone
  BY DEF CommitAlone
<1> QED
  BY <1>1, <1>2, <1>3, AnswersStand, MutexSafe, NeverFatal, PTL DEF Spec

\* The interface has exactly the enabled peers of the table, those aside that a
\* request is about to change, whatever first statement or DELETE fails.  A failed
\* GetPeerSubnets, wg command, choice of a port or COMMIT, or the death of the
\* process, leaves them apart until the next start.
THEOREM InterfaceMatches ==
  ASSUME Faults \subseteq {"db", "dropRow"}
  PROVE  Spec => []WgMatches
<1>1. MatchInv => WgMatches
  BY DEF MatchInv, WgMatches, Match, Changing, Touching
<1> QED
  BY <1>1, InterfaceStands, PTL

-----------------------------------------------------------------------------
(* Routes                                                                  *)

\* Removing a peer leaves the routes of the others.
LEMMA RemoveKeepsRoutes ==
  ASSUME TypeInv, NEW k \in Key, WgRemove(k), UNCHANGED <<peerId, subnets>>,
         NEW j \in Key, j # k, Routed(j)
  PROVE  Routed(j)'
<1>1. \A p \in Prefix : route[p] = j => route'[p] = j
  BY DEF WgRemove
<1>2. \A r \in subnets : r.prefix \in Prefix
  BY DEF TypeInv, TypeOK, DbTyped
<1> QED
  BY <1>1, <1>2 DEF Routed

\* Putting a peer with the prefixes of its rows routes them to it, and takes
\* no route from a peer whose rows are its own alone.
LEMMA PutOwnRoutes ==
  ASSUME TypeInv, IdInv, RowsFit, NEW k \in Key, peerId[k] # 0, WgPut(k, PeerPrefixes(k)),
         UNCHANGED <<peerId, subnets>>
  PROVE  /\ Routed(k)'
         /\ \A j \in Key \ {k} : peerId[j] # 0 /\ Routed(j) => Routed(j)'
<1>0. /\ \A r \in subnets : r.prefix \in Prefix
      /\ peerId \in [Key -> Nat]
  BY DEF TypeInv, TypeOK, DbTyped
<1>1. Routed(k)'
  BY <1>0 DEF WgPut, PeerPrefixes, Routed
<1>2. ASSUME NEW j \in Key \ {k}, peerId[j] # 0, Routed(j),
             NEW r \in subnets, r.owner = peerId[j], ~r.may, ~Shared(r.prefix)
      PROVE  route'[r.prefix] = j
  <2>1. r.prefix \notin PeerPrefixes(k)
    <3> SUFFICES ASSUME NEW s \in subnets, s.owner = peerId[k], s.prefix = r.prefix
                 PROVE  FALSE
      BY DEF PeerPrefixes
    <3>1. s # r
      BY <1>2 DEF IdInv, PeerIds
    <3>2. ~s.may
      BY <1>2 DEF IdInv, OwnerIds
    <3>3. Overlap(s.prefix.path, r.prefix.path)
      BY <1>0, OverlapReflexive
    <3> QED
      BY <1>2, <3>1, <3>2, <3>3 DEF RowsFit
  <2>2. route[r.prefix] = j
    BY <1>2 DEF Routed
  <2> QED
    BY <1>0, <1>2, <2>1, <2>2 DEF WgPut
<1>3. \A j \in Key \ {k} : peerId[j] # 0 /\ Routed(j) => Routed(j)'
  BY <1>2 DEF Routed
<1> QED
  BY <1>1, <1>3

-----------------------------------------------------------------------------
(* What a start restores                                                   *)

\* The loop over the peers of the table gives each of them its routes back, and
\* takes none from those that have had their turn.
LEMMA NextStart ==
  ASSUME TypeInv, IdInv, StartInv, [Next]_vars
  PROVE  StartInv' /\ (boot # "up" /\ boot' = "up" => RoutesToOwner')
<1>0. peerId \in [Key -> Nat] /\ todo \subseteq Key
  BY DEF TypeInv, TypeOK, DbTyped, ProcTyped
<1>1. ASSUME UNCHANGED <<peerId, subnets, route, boot, todo, pc>>
      PROVE  StartInv' /\ ~(boot # "up" /\ boot' = "up")
  BY <1>1 DEF StartInv, IdleUntilUp, RowsFit, Routed, DbKeys
<1>2. CASE UNCHANGED vars
  BY <1>1, <1>2 DEF vars, dbVars, wgVars, handlerVars, procVars
<1>3. CASE ProcessGone
  BY <1>3 DEF ProcessGone, StartInv, IdleUntilUp
<1>4. CASE CollectorStep
  BY <1>1, <1>4 DEF CollectorStep, CollectDump, CollectLockCache, CollectWrite, dbVars, wgVars, handlerVars
<1>5. CASE StartTrees
  <2>1. /\ boot' \in {"remove", "refused"}
        /\ boot' = "remove" => todo' = DbKeys /\ RowsFit
        /\ DbKeys' = DbKeys /\ boot = "down" /\ UNCHANGED <<pc, subnets>>
    BY <1>5 DEF StartTrees, DbKeys, dbVars, handlerVars
  <2> QED
    BY <2>1 DEF StartInv, IdleUntilUp, RowsFit
<1>6. CASE StartServing
  <2>1. boot = "remove" /\ todo = {} /\ boot' = "up" /\ UNCHANGED <<peerId, enabled, subnets, route>>
    BY <1>6 DEF StartServing, dbVars, wgVars
  <2>2. \A k \in DbKeys : Routed(k)
    BY <2>1 DEF StartInv
  <2>3. \A k \in Key : peerId[k] # 0 => Routed(k)'
    BY <2>1, <2>2 DEF DbKeys, Routed
  <2> QED
    BY <2>1, <2>3 DEF StartInv, IdleUntilUp, RoutesToOwner, Routed
<1>7. ASSUME NEW k \in Key, StartRemove(k)
      PROVE  StartInv' /\ boot' # "up"
  <2>1. ASSUME WgRemove(k), boot' = "put", UNCHANGED todo
        PROVE  StartInv'
    <3>1. /\ UNCHANGED <<peerId, subnets, pc>> /\ DbKeys' = DbKeys /\ k \in todo
          /\ boot = "remove"
      BY <1>7 DEF StartRemove, IsNext, DbKeys, dbVars, handlerVars
    <3>2. ASSUME NEW j \in DbKeys \ todo
          PROVE  Routed(j)'
      <4>1. Routed(j)
        BY <1>7, <3>2 DEF StartRemove, StartInv
      <4>2. j \in Key /\ j # k
        BY <3>1, <3>2 DEF DbKeys
      <4> QED
        BY <2>1, <3>1, <4>1, <4>2, RemoveKeepsRoutes
    <3>3. todo \subseteq DbKeys
      BY <1>7 DEF StartRemove, StartInv
    <3> QED
      BY <2>1, <3>1, <3>2, <3>3 DEF StartInv, IdleUntilUp, RowsFit
  <2> QED
    BY <1>7, <2>1 DEF StartRemove, StartInv, IdleUntilUp, handlerVars
<1>8. ASSUME NEW k \in Key, StartPut(k)
      PROVE  StartInv' /\ boot' # "up"
  <2>0. k \in DbKeys
    BY <1>8 DEF StartPut, IsNext, StartInv
  <2>1. ASSUME WgPut(k, PeerPrefixes(k)), boot' = "remove", todo' = todo \ {k}
        PROVE  StartInv'
    <3>1. UNCHANGED <<peerId, subnets, pc>> /\ DbKeys' = DbKeys /\ boot = "put"
      BY <1>8 DEF StartPut, DbKeys, dbVars, handlerVars
    <3>2. RowsFit
      BY <3>1 DEF StartInv
    <3>3. ASSUME NEW j \in DbKeys \ todo'
          PROVE  Routed(j)'
      <4>1. j \in Key /\ peerId[j] # 0 /\ (j # k => j \in DbKeys \ todo)
        BY <2>1, <3>3 DEF DbKeys
      <4>2. j # k => Routed(j)
        BY <1>8, <4>1 DEF StartPut, StartInv
      <4>3. peerId[k] # 0
        BY <2>0 DEF DbKeys
      <4> QED
        BY <2>1, <3>1, <3>2, <4>1, <4>2, <4>3, PutOwnRoutes
    <3>4. todo \subseteq DbKeys
      BY <1>8 DEF StartPut, StartInv
    <3> QED
      BY <2>1, <3>1, <3>2, <3>3, <3>4 DEF StartInv, IdleUntilUp, RowsFit
  <2> QED
    BY <1>8, <2>1 DEF StartPut, StartInv, IdleUntilUp, handlerVars
<1>9. ASSUME NEW k \in Key, StartUndo(k)
      PROVE  StartInv' /\ boot' # "up"
  BY <1>9 DEF StartUndo, StartInv, IdleUntilUp, handlerVars
<1>10. ASSUME NEW w \in Handler, Receive(w) \/ TakeMutex(w) \/ HandlerStep(w), ~ProcessGone
       PROVE  StartInv' /\ boot = "up"
  <2>1. boot = "up"
    BY <1>10, HandlerServes DEF StartInv
  <2>2. boot' = boot
    BY <1>10, HandlerKeeps
  <2> QED
    BY <2>1, <2>2 DEF StartInv, IdleUntilUp
<1> QED
  BY <1>2, <1>3, <1>4, <1>5, <1>6, <1>7, <1>8, <1>9, <1>10
  DEF Next, StartStep, StartFailed, Crash, FatalUnlock, ProcessGone

\* A start that succeeds leaves every exclusive prefix of an enabled peer routed to
\* that peer, whatever handlers, crashes and failed starts have left in the
\* interface before it: a peer put later never takes a prefix of one put earlier,
\* because NewService has refused rows that overlap.  Nothing is assumed of the
\* failures; rows that a failed statement has left next to each other end the start.
THEOREM StartRepairs == Spec => StartRestoresRoutes
<1>1. Init => IdInv /\ StartInv
  BY InitIds DEF Init, StartInv, IdleUntilUp
<1>2. TypeInv /\ IdInv /\ StartInv /\ [Next]_vars
        => IdInv' /\ StartInv' /\ [boot # "up" /\ boot' = "up" => RoutesToOwner']_vars
  BY NextStart, NextIds
<1>3. Spec => []TypeInv
  BY TypeInit, NextTyped, PTL DEF Spec
<1> QED
  BY <1>1, <1>2, <1>3, PTL DEF Spec, StartRestoresRoutes

-----------------------------------------------------------------------------
(* What handlers do to routes                                             *)

\* The peers that w is not about to change have their routes.
OthersRouted(w) ==
  \A k \in Key : peerId[k] # 0 /\ enabled[k] /\ (Touching(w) => req[w].key # k) => Routed(k)

\* apiAddPeer puts a peer whose exclusive prefixes are reserved and not yet rows.
LEMMA AddKeepsRoutes ==
  ASSUME TypeInv, BookInv, IdInv, NEW w \in Handler, pc[w] = "addPut",
         WgPut(req[w].key, Listed(w)), UNCHANGED <<peerId, subnets>>,
         NEW j \in Key \ {req[w].key}, Routed(j)
  PROVE  Routed(j)'
<1>0. \A r \in subnets : r.prefix \in Prefix
  BY DEF TypeInv, TypeOK, DbTyped
<1>1. ASSUME NEW r \in subnets, r.owner = peerId[j], ~r.may, ~Shared(r.prefix)
      PROVE  route'[r.prefix] = j
  <2>1. ASSUME NEW i \in DOMAIN list[w], list[w][i].prefix = r.prefix
        PROVE  FALSE
    <3>1. ~list[w][i].may
      BY <1>1, <2>1 DEF IdInv, ListsShared
    <3>2. r.prefix \in held[w]
      BY <2>1, <3>1 DEF BookInv, HeldByRequest, HeldRight, Listing, Wanted
    <3>3. r.prefix \in ExclusivePrefixes(subnets)
      BY <1>1 DEF ExclusivePrefixes
    <3>4. Overlap(r.prefix.path, r.prefix.path)
      BY <1>0, OverlapReflexive
    <3> QED
      BY <3>2, <3>3, <3>4 DEF BookInv, HeldFits, Fits
  <2>2. r.prefix \notin Listed(w)
    BY <2>1 DEF Listed
  <2>3. route[r.prefix] = j
    BY <1>1 DEF Routed
  <2> QED
    BY <1>0, <2>2, <2>3 DEF WgPut
<1> QED
  BY <1>1 DEF Routed

\* COMMIT gives a peer rows that are routed to it, and the others none.
LEMMA CommitKeepsRoutes ==
  ASSUME TypeInv, AnswerInv, NEW w \in Handler, pc[w] = "addCommit", OthersRouted(w),
         NEW k \in Key, k = req[w].key,
         peerId' = [peerId EXCEPT ![k] = nextPeer],
         enabled' = [enabled EXCEPT ![k] = TRUE],
         subnets' = subnets \cup NewRows(list[w], nextPeer), UNCHANGED route, ~Touching(w)'
  PROVE  OthersRouted(w)'
<1>0. /\ peerId \in [Key -> Nat] /\ enabled \in [Key -> BOOLEAN]
      /\ \A j \in Key : peerId[j] # nextPeer
      /\ \A r \in subnets : r.owner # nextPeer
      /\ \A p \in Listed(w) : route[p] = k
  BY DEF TypeInv, TypeOK, DbTyped, RequestFits, KeyPcs, AnswerInv, IdInv, PeerIds, OwnerIds,
         DoneSoFar, AddSoFar
<1>1. \A r \in NewRows(list[w], nextPeer) : r.owner = nextPeer /\ r.prefix \in Listed(w)
  BY RowOfList DEF Listed
<1>2. Routed(k)'
  BY <1>0, <1>1 DEF Routed
<1>3. ASSUME NEW j \in Key \ {k}, peerId[j] # 0, enabled[j]
      PROVE  Routed(j)'
  <2>1. Routed(j)
    BY <1>3 DEF OthersRouted
  <2>2. peerId'[j] = peerId[j]
    BY <1>0
  <2>3. \A r \in subnets' : r.owner = peerId[j] => r \in subnets
    BY <1>0, <1>1
  <2> QED
    BY <2>1, <2>2, <2>3 DEF Routed
<1>4. \A j \in Key \ {k} : peerId'[j] = peerId[j] /\ enabled'[j] = enabled[j]
  BY <1>0
<1> QED
  BY <1>2, <1>3, <1>4 DEF OthersRouted

\* A handler leaves the routes of the peers alone that it is not about to change,
\* and when it lets go of an enabled peer that one has its routes.
LEMMA InsideRoutes ==
  ASSUME {"wg", "listSubnets"} \cap Faults = {}, TypeInv, AnswerInv, BookInv, NEW w \in Handler,
         TakeMutex(w) \/ HandlerStep(w), pc[w] \in Critical, OthersRouted(w)
  PROVE  OthersRouted(w)'
<1> USE DEF Goto, UnlockAndRespond, Respond, Continue, Fail
<1>0. /\ DoneSoFar(w) /\ IdInv
      /\ pc \in [Handler -> {"idle", "wait", "done"} \cup Critical]
      /\ req \in [Handler -> Request \cup {NoRequest}]
      /\ peerId \in [Key -> Nat] /\ enabled \in [Key -> BOOLEAN]
      /\ pc[w] \in KeyPcs => req[w].key \in Key
      /\ pc[w] \in {"addCache", "addCommit"} => peerId[req[w].key] = 0
  BY DEF AnswerInv, CacheInv, AddingRight, Listing, TypeInv, TypeOK, HandlersTyped, DbTyped,
         RequestFits
<1>1. ASSUME UNCHANGED <<route, peerId, enabled>>, ~Touching(w), ~Touching(w)',
             \A r \in subnets' : r \in subnets \/ r.owner = 0
      PROVE  OthersRouted(w)'
  BY <1>1 DEF OthersRouted, Routed
<1>2. ASSUME UNCHANGED <<route, peerId, enabled, subnets>>, pc[w] \in {"addCache", "addCommit"},
              ~Touching(w)'
       PROVE  OthersRouted(w)'
  BY <1>0, <1>2 DEF OthersRouted, Routed, Touching
<1>3. CASE \/ AddRow(w) \/ AddReserve(w) \/ AddAssignRandom(w) \/ AddSubnetRows(w)
           \/ AddRollback(w) \/ AddUncache(w) \/ GetRow(w)
           \/ ReserveInTree(w) \/ DeleteSubnetFromTree(w)
  <2>1. UNCHANGED <<route, peerId, enabled, subnets>> /\ ~Touching(w) /\ ~Touching(w)'
    BY <1>0, <1>3
    DEF AddRow, AddReserve, AddAssignRandom, AddSubnetRows, AddRollback, AddUncache, GetRow,
        ReserveInTree, DeleteSubnetFromTree, Touching, dbVars, wgVars
  <2> QED
    BY <1>1, <2>1
<1>4. CASE ReserveRow(w) \/ DeleteSubnetRow(w)
  <2>1. UNCHANGED <<route, peerId, enabled>> /\ ~Touching(w) /\ ~Touching(w)'
    BY <1>0, <1>4 DEF ReserveRow, DeleteSubnetRow, Touching, wgVars
  <2>2. \A r \in NewRows(<<req[w].sub>>, 0) : r.owner = 0
    BY DEF NewRows
  <2>3. \A r \in subnets' : r \in subnets \/ r.owner = 0
    BY <1>4, <2>2 DEF ReserveRow, DeleteSubnetRow
  <2> QED
    BY <1>1, <2>1, <2>3
<1>5. CASE AddPutPeer(w)
  <2>1. PICK k \in Key : k = req[w].key
    BY <1>0, <1>5 DEF AddPutPeer, KeyPcs
  <2>2. /\ pc[w] = "addPut" /\ pc'[w] = "addCache" /\ ~Touching(w) /\ Touching(w)'
        /\ WgPut(req[w].key, Listed(w)) /\ UNCHANGED <<peerId, enabled, subnets, req>>
    BY <1>0, <1>5 DEF AddPutPeer, Touching, dbVars
  <2>3. ASSUME NEW j \in Key, j # k, peerId[j] # 0, enabled[j]
        PROVE  Routed(j)'
    <3>1. Routed(j)
      BY <2>2, <2>3 DEF OthersRouted
    <3>2. j \in Key \ {req[w].key}
      BY <2>1, <2>3
    <3> QED
      BY <1>0, <2>2, <3>1, <3>2, AddKeepsRoutes
  <2> QED
    BY <2>1, <2>2, <2>3 DEF OthersRouted
<1>6. CASE AddPutNew(w)
  <2>1. /\ Touching(w) /\ UNCHANGED <<peerId, enabled, subnets, req, route>>
        /\ pc[w] = "addCache" /\ pc'[w] \in {"addCommit", "rollback"}
    BY <1>0, <1>6 DEF AddPutNew, Touching, dbVars, wgVars
  <2>2. CASE pc'[w] = "addCommit"
    BY <2>1, <2>2 DEF OthersRouted, Routed, Touching
  <2>3. CASE pc'[w] = "rollback"
    BY <1>2, <2>1, <2>3 DEF Touching
  <2> QED
    BY <2>1, <2>2, <2>3
<1>7. CASE AddCommit(w)
  <2>1. PICK k \in Key : k = req[w].key
    BY <1>0, <1>7 DEF AddCommit, KeyPcs
  <2>2. UNCHANGED route /\ pc[w] = "addCommit" /\ ~Touching(w)'
    BY <1>0, <1>7 DEF AddCommit, wgVars, Touching
  <2>3. CASE /\ peerId' = [peerId EXCEPT ![k] = nextPeer]
             /\ enabled' = [enabled EXCEPT ![k] = TRUE]
             /\ subnets' = subnets \cup NewRows(list[w], nextPeer)
    BY <2>1, <2>2, <2>3, CommitKeepsRoutes
  <2>4. CASE UNCHANGED dbVars
    BY <1>2, <2>2, <2>4 DEF dbVars
  <2> QED
    BY <1>7, <2>1, <2>3, <2>4 DEF AddCommit
<1>8. CASE DeleteRow(w)
  <2>1. /\ UNCHANGED <<route, subnets>> /\ ~Touching(w)
        /\ \/ UNCHANGED <<peerId, enabled>> /\ pc'[w] = "done"
           \/ /\ peerId' = [peerId EXCEPT ![req[w].key] = 0]
              /\ enabled' = [enabled EXCEPT ![req[w].key] = FALSE]
    BY <1>0, <1>8 DEF DeleteRow, Touching, wgVars
  <2>2. ASSUME NEW j \in Key, peerId'[j] # 0, enabled'[j]
        PROVE  Routed(j)'
    <3>1. peerId'[j] = peerId[j] /\ enabled'[j] = enabled[j]
      BY <1>0, <2>1, <2>2
    <3> QED
      BY <2>1, <2>2, <3>1 DEF OthersRouted, Routed
  <2> QED
    BY <2>2 DEF OthersRouted
<1>9. CASE DeleteFromWg(w) \/ UpdateReset(w)
  <2>1. PICK k \in Key : k = req[w].key
    BY <1>0, <1>9 DEF DeleteFromWg, UpdateReset, KeyPcs
  <2>2. /\ WgRemove(k) /\ UNCHANGED <<peerId, enabled, subnets>>
        /\ Touching(w)
        /\ \/ peerId[k] = 0 \/ ~enabled[k] \/ (UNCHANGED req /\ Touching(w)')
    BY <1>0, <1>9, <2>1
    DEF DeleteFromWg, UpdateReset, DoneSoFar, DeleteSoFar, UpdateSoFar, Touching, dbVars
  <2>3. ASSUME NEW j \in Key, j # k, peerId[j] # 0, enabled[j]
        PROVE  Routed(j)'
    BY <2>1, <2>2, <2>3, RemoveKeepsRoutes DEF OthersRouted
  <2> QED
    BY <2>1, <2>2, <2>3 DEF OthersRouted
<1>10. CASE UpdateRow(w)
  <2>1. ASSUME UNCHANGED enabled, pc'[w] = "done"
        PROVE  OthersRouted(w)'
    BY <1>1, <1>10, <2>1 DEF UpdateRow, Touching, wgVars
  <2>2. ASSUME enabled' = [enabled EXCEPT ![req[w].key] = req[w].enabled],
               pc'[w] = "updateReset", UNCHANGED req
        PROVE  OthersRouted(w)'
    <3>1. UNCHANGED <<route, subnets, peerId>> /\ ~Touching(w) /\ Touching(w)'
      BY <1>10, <2>2 DEF UpdateRow, Touching, wgVars
    <3>2. ASSUME NEW j \in Key, peerId[j] # 0, enabled'[j], j # req[w].key
          PROVE  Routed(j)'
      BY <1>0, <2>2, <3>1, <3>2 DEF OthersRouted, Routed
    <3> QED
      BY <2>2, <3>1, <3>2 DEF OthersRouted
  <2> QED
    BY <1>0, <1>10, <2>1, <2>2 DEF UpdateRow
<1>11. CASE UpdatePut(w)
  <2>1. PICK k \in Key : k = req[w].key
    BY <1>0, <1>11 DEF UpdatePut, KeyPcs
  <2>2. /\ WgPut(k, PeerPrefixes(k)) /\ UNCHANGED <<peerId, enabled, subnets>>
        /\ peerId[k] # 0
    BY <1>0, <1>11, <2>1 DEF UpdatePut, DoneSoFar, UpdateSoFar, dbVars
  <2>3. RowsFit
    BY DEF BookInv
  <2>4. ASSUME NEW j \in Key, peerId[j] # 0, enabled[j]
        PROVE  Routed(j)'
    <3>1. j # k => Routed(j)
      BY <2>1, <2>4 DEF OthersRouted
    <3> QED
      BY <1>0, <2>2, <2>3, <2>4, <3>1, PutOwnRoutes
  <2> QED
    BY <2>2, <2>4 DEF OthersRouted
<1> QED
  BY <1>3, <1>4, <1>5, <1>6, <1>7, <1>8, <1>9, <1>10, <1>11
  DEF TakeMutex, HandlerStep, LockDb, Finish, Critical

\* No step of a handler spoils a route.
LEMMA HandlerRoutes ==
  ASSUME {"wg", "listSubnets"} \cap Faults = {}, TypeInv, AnswerInv, BookInv, RoutesInv,
         NEW w \in Handler, Receive(w) \/ TakeMutex(w) \/ HandlerStep(w)
  PROVE  RoutesInv'
<1>1. boot = "up"
  BY HandlerServes DEF AnswerInv, CacheInv
<1>2. Keeps(w)
  BY HandlerKeeps
<1>3. CASE pc[w] \in Critical
  <2>1. OthersRouted(w)
    BY <1>1, <1>2, <1>3, OnlyToucher DEF RoutesInv, OthersRouted, BookInv
  <2>2. TakeMutex(w) \/ HandlerStep(w)
    BY <1>3 DEF Receive, Critical
  <2>3. OthersRouted(w)'
    BY <1>3, <2>1, <2>2, InsideRoutes
  <2> QED
    BY <2>3 DEF OthersRouted, RoutesInv
<1>4. CASE pc[w] \notin Critical
  <2>1. /\ UNCHANGED <<peerId, enabled, subnets, route>>
        /\ \A v \in Handler : Touching(v)' = Touching(v) /\ (Touching(v) => req'[v] = req[v])
    BY <1>4, ComingStays DEF dbVars, wgVars
  <2>2. \A k \in Key : Routed(k)' = Routed(k)
    BY <2>1 DEF Routed
  <2> QED
    BY <1>1, <2>1, <2>2 DEF RoutesInv
<1> QED
  BY <1>3, <1>4

\* The invariant is inductive; a start serves when it has given the peers their routes.
LEMMA NextRoutes ==
  ASSUME {"wg", "listSubnets"} \cap Faults = {}, TypeInv, AnswerInv, BookInv, StartInv,
         RoutesInv, [Next]_vars
  PROVE  RoutesInv'
<1>1. ASSUME UNCHANGED <<peerId, enabled, subnets, route, pc, req, boot>>
      PROVE  RoutesInv'
  BY <1>1 DEF RoutesInv, Routed, Touching
<1>2. CASE UNCHANGED vars
  BY <1>1, <1>2 DEF vars, dbVars, wgVars, handlerVars, procVars
<1>3. CASE CollectorStep
  BY <1>1, <1>3
  DEF CollectorStep, CollectDump, CollectLockCache, CollectWrite, dbVars, wgVars, handlerVars
<1>4. CASE StartStep
  <2>1. ASSUME boot' = "up"
        PROVE  RoutesInv'
    <3>1. boot # "up" /\ UNCHANGED handlerVars
      BY <1>4, <2>1 DEF StartStep, StartTrees, StartRemove, StartPut, StartUndo, StartServing,
                        StartFailed, ProcessGone
    <3>2. \A w \in Handler : pc'[w] = "idle"
      BY <3>1 DEF BookInv, IdleUntilUp, handlerVars
    <3>3. RoutesToOwner'
      BY <2>1, <3>1, NextStart DEF AnswerInv
    <3>4. \A k \in Key : ~Changing(k)'
      BY <3>2 DEF Changing
    <3> QED
      BY <2>1, <3>3, <3>4 DEF RoutesToOwner, RoutesInv, Routed
  <2> QED
    BY <2>1 DEF RoutesInv
<1>5. CASE ProcessGone
  BY <1>5 DEF ProcessGone, RoutesInv
<1> QED
  BY <1>2, <1>3, <1>4, <1>5, HandlerRoutes DEF Next, Crash, FatalUnlock

\* Every exclusive prefix of an enabled peer is routed to that peer, those of peers
\* aside that a request is about to change: adding, removing or resetting a peer
\* never takes a prefix from another one, whatever first statements and choices of a
\* port fail, and whenever the process dies; a failed COMMIT is covered where one
\* handler is all there is.  A POST that fails leaves a peer in the interface, but
\* with prefixes no other peer has.
THEOREM RoutesFollowTable ==
  ASSUME CommitAlone, {"wg", "listSubnets", "dropRow"} \cap Faults = {}
  PROVE  Spec => []RoutesToOwner
<1>1. Init => StartInv /\ RoutesInv
  BY DEF Init, StartInv, IdleUntilUp, RoutesInv
<1>2. TypeInv /\ AnswerInv /\ BookInv /\ StartInv /\ RoutesInv /\ [Next]_vars
        => StartInv' /\ RoutesInv'
  BY NextStart, NextRoutes DEF AnswerInv
<1>3. RoutesInv => RoutesToOwner
  BY DEF RoutesInv, RoutesToOwner, Routed, Changing, Touching
<1>4. "dropRow" \notin Faults
  OBVIOUS
<1> QED
  BY <1>1, <1>2, <1>3, <1>4, AnswersStand, BooksBalance, PTL DEF Spec

-----------------------------------------------------------------------------
(* Where packets go                                                        *)

\* While w is inside, a route is to a shared prefix, a row or a claim of w.
Accounted(w) ==
  \A p \in Prefix : route[p] # 0 =>
    Shared(p) \/ p \in ExclusivePrefixes(subnets) \/ Claims(w, p)

\* Without requests for it no subnet is deleted.
LEMMA NeverDropped ==
  ASSUME "deleteSubnet" \notin Ops, TypeInv, AnswerInv, NEW w \in Handler
  PROVE  ~DeleteSubnetRow(w)
<1>1. req[w] \in Request \cup {NoRequest}
  BY DEF TypeInv, TypeOK, HandlersTyped
<1>2. req[w].op # "deleteSubnet"
  BY <1>1 DEF Request, NoRequest
<1> QED
  BY <1>2 DEF AnswerInv, DoneSoFar, SubnetSoFar, DeleteSubnetRow

\* Exclusive prefixes of more rows.
LEMMA ExclusiveGrows ==
  ASSUME NEW S, NEW T
  PROVE  ExclusivePrefixes(S \cup T) = ExclusivePrefixes(S) \cup ExclusivePrefixes(T)
  BY DEF ExclusivePrefixes

\* What a handler puts into the interface is in the table or goes there next.
LEMMA InsideAccounts ==
  ASSUME Faults \subseteq {"db"}, "deleteSubnet" \notin Ops, TypeInv, AnswerInv, BookInv,
         NEW w \in Handler, TakeMutex(w) \/ HandlerStep(w),
         pc[w] \in Critical, Accounted(w)
  PROVE  Accounted(w)'
<1> USE DEF Goto, UnlockAndRespond, Respond, Continue, Fail
<1>0. /\ DoneSoFar(w) /\ IdInv /\ HeldRight(w)
      /\ pc \in [Handler -> {"idle", "wait", "done"} \cup Critical]
      /\ list \in [Handler -> Seq(Subnet)]
  BY DEF AnswerInv, BookInv, HeldByRequest, TypeInv, TypeOK, HandlersTyped
<1>1. ASSUME \A p \in Prefix : route'[p] \in {route[p], 0},
             subnets \subseteq subnets', pc[w] \notin {"addCache", "addCommit"}
      PROVE  Accounted(w)'
  <2>1. ExclusivePrefixes(subnets) \subseteq ExclusivePrefixes(subnets')
    BY <1>1 DEF ExclusivePrefixes
  <2> QED
    BY <1>1, <2>1 DEF Accounted, Claims
<1>2. CASE \/ AddRow(w) \/ AddReserve(w) \/ AddAssignRandom(w) \/ AddSubnetRows(w)
           \/ AddRollback(w) \/ AddUncache(w) \/ GetRow(w) \/ UpdateRow(w) \/ DeleteRow(w)
           \/ ReserveInTree(w) \/ ReserveRow(w) \/ DeleteSubnetFromTree(w)
  <2>1. UNCHANGED route /\ subnets \subseteq subnets' /\ pc[w] \notin {"addCache", "addCommit"}
    BY <1>2
    DEF AddRow, AddReserve, AddAssignRandom, AddSubnetRows, AddRollback, AddUncache, GetRow,
        UpdateRow, DeleteRow, ReserveInTree, ReserveRow, DeleteSubnetFromTree, dbVars, wgVars
  <2> QED
    BY <1>1, <2>1
<1>3. CASE DeleteFromWg(w) \/ UpdateReset(w)
  <2>1. /\ WgRemove(req[w].key) /\ UNCHANGED subnets
        /\ pc[w] \notin {"addCache", "addCommit"}
    BY <1>3 DEF DeleteFromWg, UpdateReset, dbVars
  <2>2. \A p \in Prefix : route'[p] \in {route[p], 0}
    BY <2>1 DEF WgRemove
  <2> QED
    BY <1>1, <2>1, <2>2
<1>4. CASE AddPutPeer(w)
  <2>1. /\ WgPut(req[w].key, Listed(w)) /\ UNCHANGED <<subnets, held>>
        /\ pc[w] = "addPut" /\ pc'[w] = "addCache"
    BY <1>0, <1>4 DEF AddPutPeer, dbVars
  <2>2. ASSUME NEW p \in Listed(w)
        PROVE  Shared(p) \/ p \in held[w]
    <3>1. PICK i \in DOMAIN list[w] : p = list[w][i].prefix
      BY DEF Listed
    <3>2. held[w] = Wanted(list[w])
      BY <1>0, <2>1 DEF HeldRight, Listing
    <3> QED
      BY <1>0, <3>1, <3>2 DEF IdInv, ListsShared, Wanted
  <2>3. ASSUME NEW p \in Prefix, p \notin Listed(w)
        PROVE  route'[p] \in {route[p], 0}
    BY <2>1, <2>3 DEF WgPut
  <2>4. UNCHANGED ExclusivePrefixes(subnets)
    BY <2>1
  <2> QED
    BY <2>1, <2>2, <2>3, <2>4 DEF Accounted, Claims
<1>5. CASE AddPutNew(w)
  <2>1. /\ UNCHANGED <<route, subnets, held>> /\ pc'[w] = "addCommit" /\ pc[w] = "addCache"
    BY <1>0, <1>5 DEF AddPutNew, dbVars, wgVars
  <2> QED
    BY <2>1 DEF Accounted, Claims
<1>6. CASE AddCommit(w)
  <2>1. /\ UNCHANGED route /\ subnets' = subnets \cup NewRows(list[w], nextPeer)
        /\ pc[w] = "addCommit"
    BY <1>6 DEF AddCommit, wgVars
  <2>2. ExclusivePrefixes(NewRows(list[w], nextPeer)) = held[w]
    BY <1>0, <2>1, RowsOfList DEF HeldRight, Listing
  <2>3. ExclusivePrefixes(subnets') = ExclusivePrefixes(subnets) \cup held[w]
    BY <2>1, <2>2, ExclusiveGrows
  <2> QED
    BY <2>1, <2>3 DEF Accounted, Claims
<1>7. CASE UpdatePut(w)
  <2>1. PICK k \in Key : k = req[w].key
    BY <1>7 DEF UpdatePut, TypeInv, RequestFits, KeyPcs
  <2>2. /\ WgPut(k, PeerPrefixes(k)) /\ UNCHANGED subnets
        /\ peerId[k] # 0 /\ pc[w] = "updatePut"
    BY <1>0, <1>7, <2>1 DEF UpdatePut, DoneSoFar, UpdateSoFar, dbVars
  <2>3. ASSUME NEW p \in PeerPrefixes(k)
        PROVE  Shared(p) \/ p \in ExclusivePrefixes(subnets)
    BY <1>0, <2>2 DEF PeerPrefixes, ExclusivePrefixes, IdInv, OwnerIds
  <2>4. ASSUME NEW p \in Prefix, p \notin PeerPrefixes(k)
        PROVE  route'[p] \in {route[p], 0}
    BY <2>2, <2>4 DEF WgPut
  <2>5. UNCHANGED ExclusivePrefixes(subnets)
    BY <2>2
  <2> QED
    BY <2>2, <2>3, <2>4, <2>5 DEF Accounted, Claims
<1> QED
  BY <1>2, <1>3, <1>4, <1>5, <1>6, <1>7, NeverDropped
  DEF TakeMutex, HandlerStep, LockDb, Finish, Critical

\* The invariant is inductive.
LEMMA NextAccounts ==
  ASSUME Faults \subseteq {"db"}, "deleteSubnet" \notin Ops, TypeInv, AnswerInv, BookInv,
         Alone, DbMutex, NoFatal, MatchInv, RowInv, [Next]_vars
  PROVE  RowInv'
<1>1. ASSUME UNCHANGED <<subnets, route>>,
             \A w \in Handler, p \in Prefix : Claims(w, p) => Claims(w, p)'
      PROVE  RowInv'
  BY <1>1 DEF RowInv
<1>2. CASE UNCHANGED vars
  BY <1>1, <1>2 DEF vars, dbVars, wgVars, handlerVars, Claims
<1>3. CASE CollectorStep
  BY <1>1, <1>3
  DEF CollectorStep, CollectDump, CollectLockCache, CollectWrite, dbVars, wgVars, handlerVars,
      Claims
<1>4. CASE StartStep
  <2>1. StartTrees \/ StartServing
    BY <1>4 DEF MatchInv, StartStep, StartFailed, StartRemove, StartPut, StartUndo, IsNext
  <2> QED
    BY <1>1, <2>1 DEF StartTrees, StartServing, dbVars, wgVars, handlerVars, Claims
<1>5. ~Crash /\ \A w \in Handler : ~FatalUnlock(w)
  BY DEF Crash, FatalUnlock, NoFatal
<1>6. ASSUME NEW w \in Handler, Receive(w) \/ TakeMutex(w) \/ HandlerStep(w)
      PROVE  RowInv'
  <2>2. Keeps(w)
    BY <1>6, HandlerKeeps
  <2>3. CASE pc[w] \in Critical
    <3>1. Others(w)
      BY <2>3, OthersInside DEF BookInv
    <3>2. Accounted(w)
      BY <3>1 DEF RowInv, Accounted, Others, Claims
    <3>3. TakeMutex(w) \/ HandlerStep(w)
      BY <1>6, <2>3 DEF Receive, Critical
    <3>4. Accounted(w)'
      BY <2>3, <3>2, <3>3, InsideAccounts
    <3> QED
      BY <3>4 DEF Accounted, RowInv
  <2>4. CASE pc[w] \notin Critical
    <3>1. UNCHANGED <<subnets, route>> /\ \A v \in Handler : held'[v] = held[v]
      BY <1>6, <2>4, ComingStays DEF dbVars, wgVars
    <3>2. \A v \in Handler : pc[v] \in {"addCache", "addCommit"} => pc'[v] = pc[v]
      BY <2>2, <2>4 DEF Keeps, Critical
    <3> QED
      BY <1>1, <3>1, <3>2 DEF Claims
  <2> QED
    BY <2>3, <2>4
<1> QED
  BY <1>2, <1>3, <1>4, <1>5, <1>6 DEF Next

\* Two prefixes of one address overlap.
LEMMA PrefixesNest ==
  ASSUME NEW p \in Seq(Bit), NEW q \in Seq(Bit), NEW a \in Seq(Bit),
         IsPrefix(p, a), IsPrefix(q, a)
  PROVE  Overlap(p, q)
<1>1. CASE Len(p) <= Len(q)
  <2>1. SubSeq(a, 1, Len(p)) = SubSeq(q, 1, Len(p))
    BY <1>1 DEF IsPrefix
  <2> QED
    BY <1>1, <2>1 DEF IsPrefix, Overlap
<1>2. CASE Len(q) <= Len(p)
  <2>1. SubSeq(a, 1, Len(q)) = SubSeq(p, 1, Len(q))
    BY <1>2 DEF IsPrefix
  <2> QED
    BY <1>2, <2>1 DEF IsPrefix, Overlap
<1> QED
  BY <1>1, <1>2

\* The peer of the only allowed IP that matches an address gets its packets.
LEMMA OnlyHit ==
  ASSUME NEW x \in Prefix, NEW a,
         { p \in Prefix : p.net = x.net /\ IsPrefix(p.path, a) /\ route[p] # 0 } = {x}
  PROVE  Destination(x.net, a) = route[x]
<1>1. Len(x.path) <= Len(x.path)
  <2>1. Len(x.path) \in Nat
    BY PrefixIsBits
  <2> QED
    BY <2>1
<1>2. (CHOOSE p \in {x} : \A q \in {x} : Len(q.path) <= Len(p.path)) = x
  BY <1>1
<1> QED
  BY <1>2 DEF Destination

\* In such a state no other allowed IP matches an address of an exclusive prefix.
LEMMA AccountedReaches ==
  ASSUME TypeInv, BookInv, RowInv, RoutesToOwner
  PROVE  ReachesOwner
<1> SUFFICES ASSUME boot = "up", NEW k \in Key, peerId[k] # 0, enabled[k], ~Changing(k),
                    NEW r \in subnets, r.owner = peerId[k], ~r.may,
                    NEW a \in Address(Heights[r.prefix.net]), IsPrefix(r.prefix.path, a),
                    ~\E p \in Prefix : Shared(p) /\ p.net = r.prefix.net /\ IsPrefix(p.path, a)
             PROVE  Destination(r.prefix.net, a) = k
  BY DEF ReachesOwner
<1> DEFINE hits == { p \in Prefix : /\ p.net = r.prefix.net
                                    /\ IsPrefix(p.path, a) /\ route[p] # 0 }
<1>1. r.prefix \in Prefix /\ r.prefix.net \in Net /\ k # 0
  BY KeyAssumption DEF TypeInv, TypeOK, DbTyped, BookInv, RowsFit
<1>2. a \in Seq(Bit)
  BY <1>1, NetFacts DEF Address
<1>3. route[r.prefix] = k
  BY <1>1 DEF RoutesToOwner
<1>4. ASSUME NEW p \in hits
      PROVE  p = r.prefix
  <2>1. Overlap(p.path, r.prefix.path)
    BY <1>1, <1>2, PrefixIsBits, PrefixesNest
  <2>2. ~Shared(p)
    OBVIOUS
  <2>3. CASE p \in ExclusivePrefixes(subnets)
    <3>1. PICK s \in subnets : ~s.may /\ s.prefix = p
      BY <2>3 DEF ExclusivePrefixes
    <3>2. s = r
      BY <2>1, <3>1 DEF BookInv, RowsFit
    <3> QED
      BY <3>1, <3>2
  <2>4. ASSUME NEW w \in Handler, Claims(w, p)
        PROVE  FALSE
    <3>1. r.prefix \in ExclusivePrefixes(subnets)
      BY DEF ExclusivePrefixes
    <3> QED
      BY <2>1, <2>4, <3>1 DEF Claims, BookInv, HeldFits, Fits
  <2> QED
    BY <2>2, <2>3, <2>4 DEF RowInv
<1>5. hits = {r.prefix}
  BY <1>1, <1>3, <1>4
<1> QED
  BY <1>1, <1>3, <1>5, OnlyHit

\* Where subnets are never deleted, every address of an exclusive prefix of an
\* enabled peer reaches that peer, whatever handlers interleave and whatever first
\* statements fail: no allowed IP that is left over matches it better.
THEOREM PacketsReachOwner ==
  ASSUME Faults \subseteq {"db"}, "deleteSubnet" \notin Ops
  PROVE  Spec => []ReachesOwner
<1>1. Init => RowInv
  BY DEF Init, RowInv
<1>2. TypeInv /\ AnswerInv /\ BookInv /\ Alone /\ DbMutex /\ NoFatal /\ MatchInv /\ RowInv
        /\ [Next]_vars
        => RowInv'
  BY NextAccounts
<1>3. TypeInv /\ BookInv /\ RowInv /\ RoutesToOwner => ReachesOwner
  BY AccountedReaches
<1>4. /\ Faults \subseteq {"db", "dropRow"} /\ "dropRow" \notin Faults
      /\ {"wg", "listSubnets", "dropRow"} \cap Faults = {}
      /\ CommitAlone
  BY DEF CommitAlone
<1> QED
  BY <1>1, <1>2, <1>3, <1>4, InterfaceStands, BooksBalance, RoutesFollowTable, PTL DEF Spec

=============================================================================
