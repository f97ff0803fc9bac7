----------------------------- MODULE NodeProofs -----------------------------
(***************************************************************************)
(* Theorems about module Node, for every value of its constants: its       *)
(* mutex, and its books, that is, the table of subnets, the allocation     *)
(* trees and what requests under way have reserved, and the row ids of the *)
(* statistics cache.                                                       *)
(***************************************************************************)
EXTENDS Node, TLAPS

-----------------------------------------------------------------------------
(* Type correctness                                                        *)

\* Where a handler serves a request about a key.
KeyPcs ==
  {"add", "addReserve", "addSubnets", "addPut", "addCache", "addCommit",
   "rollback", "uncache", "delete", "deleteWg", "update", "updateReset",
   "updatePut", "get"}

\* The request a handler serves has the fields its next steps read.
RequestFits ==
  \A w \in Handler :
    /\ pc[w] \in KeyPcs => req[w].key \in Key
    /\ pc[w] \in {"update", "updateReset", "updatePut"} => req[w].enabled \in BOOLEAN
    /\ pc[w] \in {"reserve", "reserveRow"} => req[w].sub \in Subnet

TypeInv == TypeOK /\ RequestFits

\* The first state is well typed, and no handler has a request yet.
LEMMA TypeInit == Init => TypeInv
  BY HeightsAssumption, KeyAssumption
  DEF Init, TypeInv, TypeOK, DbTyped, WgTyped, MemTyped, LockTyped, HandlersTyped, ProcTyped, RequestFits, Status, Critical, KeyPcs, Net

\* Changing one value of a function within its codomain keeps its type; the route
\* table, the cache and the handlers' variables all change that way.
LEMMA ExceptTyped ==
  ASSUME NEW S, NEW T, NEW f \in [S -> T], NEW x, NEW v \in T
  PROVE  [f EXCEPT ![x] = v] \in [S -> T]
  OBVIOUS

\* The number of a net stands for its host bits, and 0 is not one.
LEMMA NetFacts ==
  /\ Len(Heights) \in Nat
  /\ NoNet \notin Net
  /\ DOMAIN Heights = Net
  /\ \A n \in Net : Heights[n] \in Nat /\ Address(Heights[n]) \subseteq Path(Heights[n])
  BY HeightsAssumption DEF Net, NoNet, Path

\* The path of a prefix that lies in a net fits the net's host bits.
LEMMA PrefixFacts ==
  ASSUME NEW p \in Prefix, p.net \in Net
  PROVE  p.path \in Path(Heights[p.net])
<1>1. CASE p \in [net : {NoNet}, path : {<<>>}]
  BY <1>1, NetFacts
<1>2. CASE \E n \in Net : p \in [net : {n}, path : Path(Heights[n])]
  BY <1>2
<1> QED
  BY <1>1, <1>2 DEF Prefix

\* The part of a set of prefixes that lies in one net.
LEMMA PathsTyped ==
  ASSUME NEW S \in SUBSET Prefix, NEW n \in Net
  PROVE  Paths(S, n) \subseteq Path(Heights[n])
  BY PrefixFacts DEF Paths

\* subnets.Service.Reserve leaves trees.
LEMMA PutTyped ==
  ASSUME MemTyped, NEW S \in SUBSET Prefix
  PROVE  Put(tree, S) \in [Net -> SUBSET UNION { Path(Heights[n]) : n \in Net }]
<1>1. ASSUME NEW n \in Net
      PROVE  tree[n] \cup Paths(S, n) \subseteq UNION { Path(Heights[m]) : m \in Net }
  BY PathsTyped DEF MemTyped
<1> QED
  BY <1>1 DEF Put, MemTyped

\* The loop of apiAddPeer over a list reserves prefixes.
LEMMA ReservedTyped ==
  ASSUME NEW l \in Seq(Subnet)
  PROVE  ReservedBy(l) \subseteq Prefix
<1>1. ASSUME NEW i \in DOMAIN l
      PROVE  l[i].prefix \in Prefix
  <2>1. l[i] \in Subnet
    OBVIOUS
  <2> QED
    BY <2>1 DEF Subnet
<1> QED
  BY <1>1 DEF ReservedBy

\* AssignRandomInEachNet reserves prefixes and makes a list of them.
LEMMA PickTyped ==
  ASSUME NEW pick \in FreePicks(Heights, tree)
  PROVE  /\ Picked(pick) \subseteq Prefix
         /\ [n \in Net |-> [prefix |-> [net |-> n, path |-> pick[n]], may |-> FALSE]]
              \in Seq(Subnet)
<1> DEFINE Addresses == UNION { Address(Heights[n]) : n \in DOMAIN Heights }
<1>0. /\ pick \in [Net -> Addresses]
      /\ \A n \in Net : pick[n] \in Address(Heights[n])
  BY NetFacts DEF FreePicks
<1>1. ASSUME NEW n \in Net
      PROVE  [net |-> n, path |-> pick[n]] \in Prefix
  <2>1. pick[n] \in Address(Heights[n])
    BY <1>0
  <2>2. [net |-> n, path |-> pick[n]] \in [net : {n}, path : Path(Heights[n])]
    BY <2>1, NetFacts
  <2> QED
    BY <2>2 DEF Prefix
<1>2. Picked(pick) \subseteq Prefix
  BY <1>0, <1>1 DEF Picked
<1>3. [n \in Net |-> [prefix |-> [net |-> n, path |-> pick[n]], may |-> FALSE]]
        \in [Net -> Subnet]
  BY <1>1 DEF Subnet
<1> QED
  BY <1>2, <1>3, NetFacts DEF Net

\* AddSubnet makes rows of table subnets.
LEMMA NewRowsTyped ==
  ASSUME DbTyped, NEW l \in Seq(Subnet), NEW owner \in Nat
  PROVE  NewRows(l, owner) \subseteq [id : Nat, prefix : Prefix, owner : Nat, may : BOOLEAN]
<1>1. ASSUME NEW i \in DOMAIN l
      PROVE  [id |-> nextSubnet + i - 1, prefix |-> l[i].prefix, owner |-> owner, may |-> l[i].may]
               \in [id : Nat, prefix : Prefix, owner : Nat, may : BOOLEAN]
  <2>1. l[i] \in Subnet
    OBVIOUS
  <2>2. nextSubnet + i - 1 \in Nat
    BY DEF DbTyped
  <2> QED
    BY <2>1, <2>2 DEF Subnet
<1> QED
  BY <1>1 DEF NewRows

\* An answer leaves the other handlers alone.
LEMMA RespondTyped ==
  ASSUME HandlersTyped, RequestFits, NEW w \in Handler, NEW s \in Status, Respond(w, s)
  PROVE  HandlersTyped' /\ RequestFits'
  BY DEF HandlersTyped, RequestFits, Respond, Goto, KeyPcs, Critical

\* ... so does one with a last Unlock, fatal or not.
LEMMA UnlockTyped ==
  ASSUME HandlersTyped, RequestFits, NEW w \in Handler, NEW s \in Status, UnlockAndRespond(w, s)
  PROVE  HandlersTyped' /\ RequestFits'
<1>1. (IF Unlockable THEN s ELSE "fatal") \in Status
  BY DEF Status
<1> QED
  BY <1>1, RespondTyped DEF UnlockAndRespond

\* Every step of a handler keeps the types and the fields of its request.
LEMMA HandlerTyped ==
  ASSUME TypeInv, NEW w \in Handler, Receive(w) \/ TakeMutex(w) \/ HandlerStep(w)
  PROVE  TypeInv'
<1> USE DEF TypeInv, TypeOK, DbTyped, WgTyped, MemTyped, LockTyped, ProcTyped,
            dbVars, wgVars, memVars, lockVars, procVars
<1>1. CASE Receive(w)
  <2>1. DbTyped' /\ WgTyped' /\ MemTyped' /\ LockTyped' /\ ProcTyped'
    BY <1>1 DEF Receive
  <2>2. HandlersTyped' /\ RequestFits'
    BY <1>1 DEF HandlersTyped, RequestFits, KeyPcs, Critical, Receive, Goto
  <2> QED
    BY <2>1, <2>2
<1>2. CASE LockDb(w)
  <2>1. DbTyped' /\ WgTyped' /\ MemTyped' /\ LockTyped' /\ ProcTyped'
    BY <1>2 DEF LockDb
  <2>2. HandlersTyped' /\ RequestFits'
    BY <1>2, RequestAssumption DEF HandlersTyped, RequestFits, KeyPcs, Critical, LockDb, Goto, Request
  <2> QED
    BY <2>1, <2>2
<1>3. CASE AddPutNew(w)
  <2>1. DbTyped' /\ WgTyped' /\ MemTyped' /\ LockTyped' /\ ProcTyped'
    BY <1>3 DEF AddPutNew, CachePut, HandlersTyped, RequestFits, KeyPcs
  <2>2. HandlersTyped' /\ RequestFits'
    BY <1>3 DEF HandlersTyped, RequestFits, KeyPcs, Critical, AddPutNew, Goto, Fail, Status
  <2> QED
    BY <2>1, <2>2
<1>4. CASE AddUncache(w)
  <2>1. DbTyped' /\ WgTyped' /\ MemTyped' /\ LockTyped' /\ ProcTyped'
    BY <1>4 DEF AddUncache, UnlockAndRespond
  <2>2. HandlersTyped' /\ RequestFits'
    <3>1. reply[w] \in Status
      BY DEF HandlersTyped
    <3> QED
      BY <1>4, <3>1, UnlockTyped DEF AddUncache
  <2> QED
    BY <2>1, <2>2
<1>5. CASE AddRow(w)
  <2>1. DbTyped' /\ WgTyped' /\ MemTyped' /\ LockTyped' /\ ProcTyped'
    BY <1>5 DEF AddRow
  <2>2. HandlersTyped' /\ RequestFits'
    BY <1>5 DEF HandlersTyped, RequestFits, KeyPcs, Critical, AddRow, Goto, Fail, Status
  <2> QED
    BY <2>1, <2>2
<1>6. CASE AddReserve(w)
  <2>1. DbTyped' /\ WgTyped' /\ MemTyped' /\ LockTyped' /\ ProcTyped'
    BY <1>6, PutTyped, ReservedTyped DEF AddReserve, HandlersTyped, RequestFits, KeyPcs
  <2>2. HandlersTyped' /\ RequestFits'
    BY <1>6, ReservedTyped DEF HandlersTyped, RequestFits, KeyPcs, Critical, AddReserve, Goto, Fail, Status
  <2> QED
    BY <2>1, <2>2
<1>7. CASE AddAssignRandom(w)
  <2>1. DbTyped' /\ WgTyped' /\ LockTyped' /\ ProcTyped'
    BY <1>7 DEF AddAssignRandom
  <2>2. ASSUME NEW pick \in FreePicks(Heights, tree),
               tree' = Put(tree, Picked(pick)),
               held' = [held EXCEPT ![w] = Picked(pick)],
               list' = [list EXCEPT ![w] =
                          [n \in Net |-> [prefix |-> [net |-> n, path |-> pick[n]],
                                          may |-> FALSE]]],
               Goto(w, "addSubnets"),
               UNCHANGED reply
        PROVE  MemTyped' /\ HandlersTyped' /\ RequestFits'
    <3>1. MemTyped'
      BY <1>7, <2>2, PutTyped, PickTyped DEF AddAssignRandom
    <3>2. HandlersTyped'
      BY <1>7, <2>2, PickTyped DEF AddAssignRandom, HandlersTyped, Goto, Critical
    <3>3. RequestFits'
      BY <1>7, <2>2 DEF AddAssignRandom, HandlersTyped, RequestFits, KeyPcs, Goto
    <3> QED
      BY <3>1, <3>2, <3>3
  <2>3. ASSUME Fail(w, "500"), UNCHANGED <<tree, held, list>>
        PROVE  MemTyped' /\ HandlersTyped' /\ RequestFits'
    BY <1>7, <2>3 DEF AddAssignRandom, HandlersTyped, RequestFits, KeyPcs, Fail, Goto,
                      Critical, Status
  <2> QED
    BY <1>7, <2>1, <2>2, <2>3 DEF AddAssignRandom
<1>8. CASE AddSubnetRows(w)
  <2>1. DbTyped' /\ WgTyped' /\ MemTyped' /\ LockTyped' /\ ProcTyped'
    BY <1>8 DEF AddSubnetRows
  <2>2. HandlersTyped' /\ RequestFits'
    BY <1>8 DEF HandlersTyped, RequestFits, KeyPcs, Critical, AddSubnetRows, Goto, Fail, Status
  <2> QED
    BY <2>1, <2>2
<1>9. CASE AddPutPeer(w)
  <2>1. DbTyped' /\ WgTyped' /\ MemTyped' /\ LockTyped' /\ ProcTyped'
    BY <1>9 DEF AddPutPeer, WgPut, HandlersTyped, RequestFits, KeyPcs
  <2>2. HandlersTyped' /\ RequestFits'
    BY <1>9 DEF HandlersTyped, RequestFits, KeyPcs, Critical, AddPutPeer, Goto, Fail, Status
  <2> QED
    BY <2>1, <2>2
<1>10. CASE AddCommit(w)
  <2>1. WgTyped' /\ MemTyped' /\ LockTyped' /\ ProcTyped'
    BY <1>10 DEF AddCommit, UnlockAndRespond
  <2>2. DbTyped'
    <3>1. NewRows(list[w], nextPeer)
            \subseteq [id : Nat, prefix : Prefix, owner : Nat, may : BOOLEAN]
      BY NewRowsTyped DEF HandlersTyped
    <3>2. nextSubnet + Len(list[w]) \in Nat
      BY DEF HandlersTyped
    <3>3. peerId' \in [Key -> Nat] /\ nextPeer' \in Nat
      BY <1>10, SMTT(30) DEF AddCommit
    <3>4. enabled' = [enabled EXCEPT ![req[w].key] = TRUE] \/ enabled' = enabled
      BY <1>10 DEF AddCommit
    <3>5. enabled' \in [Key -> BOOLEAN]
      BY <3>4, ExceptTyped
    <3>6. /\ subnets' \subseteq [id : Nat, prefix : Prefix, owner : Nat, may : BOOLEAN]
          /\ nextSubnet' \in Nat
      BY <1>10, <3>1, <3>2 DEF AddCommit
    <3> QED
      BY <3>3, <3>5, <3>6
  <2>3. HandlersTyped' /\ RequestFits'
    <3>1. AddedStatus(w) \in Status /\ "500" \in Status
      BY DEF AddedStatus, Status
    <3>2. CASE \E s \in Status : UnlockAndRespond(w, s)
      BY <3>2, UnlockTyped
    <3>3. CASE Fail(w, "500") /\ UNCHANGED <<req, list, held>>
      BY <1>10, <3>3 DEF HandlersTyped, RequestFits, KeyPcs, Critical, AddCommit, Goto, Fail, Status
    <3> QED
      BY <1>10, <3>1, <3>2, <3>3 DEF AddCommit
  <2> QED
    BY <2>1, <2>2, <2>3
<1>11. CASE AddRollback(w)
  <2>1. DbTyped' /\ WgTyped' /\ MemTyped' /\ LockTyped' /\ ProcTyped'
    BY <1>11 DEF AddRollback, Drop
  <2>2. HandlersTyped' /\ RequestFits'
    BY <1>11 DEF HandlersTyped, RequestFits, KeyPcs, Critical, AddRollback, Goto
  <2> QED
    BY <2>1, <2>2
<1>12. CASE DeleteRow(w)
  <2>1. WgTyped' /\ MemTyped' /\ LockTyped' /\ ProcTyped'
    BY <1>12 DEF DeleteRow, UnlockAndRespond, Continue
  <2>2. peerId' \in [Key -> Nat]
    BY <1>12 DEF DeleteRow
  <2>3. enabled' = [enabled EXCEPT ![req[w].key] = FALSE] \/ enabled' = enabled
    BY <1>12 DEF DeleteRow
  <2>4. enabled' \in [Key -> BOOLEAN]
    BY <2>3, ExceptTyped
  <2>5. DbTyped'
    BY <1>12, <2>2, <2>4 DEF DeleteRow
  <2>6. HandlersTyped' /\ RequestFits'
    BY <1>12, RespondTyped
    DEF HandlersTyped, RequestFits, KeyPcs, Critical, DeleteRow, Continue, Goto, Status,
        UnlockAndRespond
  <2> QED
    BY <2>1, <2>5, <2>6
<1>13. CASE DeleteFromWg(w)
  <2>1. DbTyped' /\ WgTyped' /\ MemTyped' /\ LockTyped' /\ ProcTyped'
    BY <1>13 DEF DeleteFromWg, UnlockAndRespond, WgRemove, HandlersTyped, RequestFits, KeyPcs
  <2>2. HandlersTyped' /\ RequestFits'
    BY <1>13, RespondTyped DEF HandlersTyped, RequestFits, KeyPcs, Critical, DeleteFromWg, Status, UnlockAndRespond
  <2> QED
    BY <2>1, <2>2
<1>14. CASE UpdateRow(w)
  <2>1. DbTyped' /\ WgTyped' /\ MemTyped' /\ LockTyped' /\ ProcTyped'
    BY <1>14 DEF UpdateRow, UnlockAndRespond, Continue, HandlersTyped, RequestFits, KeyPcs
  <2>2. HandlersTyped' /\ RequestFits'
    BY <1>14, RespondTyped DEF HandlersTyped, RequestFits, KeyPcs, Critical, UpdateRow, Continue, Goto, Status, UnlockAndRespond
  <2> QED
    BY <2>1, <2>2
<1>15. CASE UpdateReset(w)
  <2>1. DbTyped' /\ WgTyped' /\ MemTyped' /\ LockTyped' /\ ProcTyped'
    BY <1>15 DEF UpdateReset, UnlockAndRespond, WgRemove, Continue, HandlersTyped, RequestFits, KeyPcs
  <2>2. HandlersTyped' /\ RequestFits'
    BY <1>15, RespondTyped DEF HandlersTyped, RequestFits, KeyPcs, Critical, UpdateReset, Continue, Goto, Status, UnlockAndRespond
  <2> QED
    BY <2>1, <2>2
<1>16. CASE UpdatePut(w)
  <2>1. DbTyped' /\ WgTyped' /\ MemTyped' /\ LockTyped' /\ ProcTyped'
    BY <1>16 DEF UpdatePut, UnlockAndRespond, WgPut, HandlersTyped, RequestFits, KeyPcs
  <2>2. HandlersTyped' /\ RequestFits'
    BY <1>16, RespondTyped DEF HandlersTyped, RequestFits, KeyPcs, Critical, UpdatePut, Status, UnlockAndRespond
  <2> QED
    BY <2>1, <2>2
<1>17. CASE GetRow(w)
  <2>1. DbTyped' /\ WgTyped' /\ MemTyped' /\ LockTyped' /\ ProcTyped'
    BY <1>17 DEF GetRow, UnlockAndRespond
  <2>2. HandlersTyped' /\ RequestFits'
    BY <1>17, RespondTyped DEF HandlersTyped, RequestFits, KeyPcs, Critical, GetRow, Status, UnlockAndRespond
  <2> QED
    BY <2>1, <2>2
<1>18. CASE ReserveInTree(w)
  <2> DEFINE p == req[w].sub.prefix
             asked == IF req[w].sub.may THEN {} ELSE {p}
  <2>1. asked \subseteq Prefix
    BY <1>18 DEF ReserveInTree, RequestFits, Subnet
  <2>2. DbTyped' /\ WgTyped' /\ LockTyped' /\ ProcTyped'
    BY <1>18 DEF ReserveInTree, UnlockAndRespond
  <2>3. ASSUME tree' = Put(tree, asked), held' = [held EXCEPT ![w] = asked],
               Goto(w, "reserveRow"), UNCHANGED <<dbLock, req, list, reply>>
        PROVE  MemTyped' /\ HandlersTyped' /\ RequestFits'
    <3>1. MemTyped'
      BY <1>18, <2>1, <2>3, PutTyped DEF ReserveInTree
    <3>2. HandlersTyped' /\ RequestFits'
      BY <1>18, <2>1, <2>3
      DEF ReserveInTree, HandlersTyped, RequestFits, KeyPcs, Critical, Goto
    <3> QED
      BY <3>1, <3>2
  <2>4. ASSUME NEW s \in Status, UnlockAndRespond(w, s), UNCHANGED tree
        PROVE  MemTyped' /\ HandlersTyped' /\ RequestFits'
    <3>1. MemTyped'
      BY <1>18, <2>4 DEF ReserveInTree
    <3> QED
      BY <2>4, <3>1, UnlockTyped
  <2> HIDE DEF asked
  <2>5. \/ /\ tree' = Put(tree, asked) /\ held' = [held EXCEPT ![w] = asked]
           /\ Goto(w, "reserveRow") /\ UNCHANGED <<dbLock, req, list, reply>>
        \/ \E s \in Status : UnlockAndRespond(w, s) /\ UNCHANGED tree
    BY <1>18 DEF ReserveInTree, Status, asked
  <2> QED
    BY <2>2, <2>3, <2>4, <2>5
<1>19. CASE ReserveRow(w)
  <2>1. DbTyped' /\ WgTyped' /\ MemTyped' /\ LockTyped' /\ ProcTyped'
    BY <1>19 DEF ReserveRow, UnlockAndRespond, Drop, NewRows, Subnet, HandlersTyped, RequestFits, KeyPcs
  <2>2. HandlersTyped' /\ RequestFits'
    BY <1>19, RespondTyped DEF HandlersTyped, RequestFits, KeyPcs, Critical, ReserveRow, Status, UnlockAndRespond
  <2> QED
    BY <2>1, <2>2
<1>20. CASE DeleteSubnetFromTree(w)
  <2>1. DbTyped' /\ WgTyped' /\ MemTyped' /\ LockTyped' /\ ProcTyped'
    BY <1>20 DEF DeleteSubnetFromTree, UnlockAndRespond, Drop, Continue
  <2>2. HandlersTyped' /\ RequestFits'
    BY <1>20, RespondTyped DEF HandlersTyped, RequestFits, KeyPcs, Critical, DeleteSubnetFromTree, Continue, Goto, Status, UnlockAndRespond
  <2> QED
    BY <2>1, <2>2
<1>21. CASE DeleteSubnetRow(w)
  <2>1. DbTyped' /\ WgTyped' /\ MemTyped' /\ LockTyped' /\ ProcTyped'
    BY <1>21 DEF DeleteSubnetRow, UnlockAndRespond, RowsWithId
  <2>2. HandlersTyped' /\ RequestFits'
    BY <1>21, RespondTyped DEF HandlersTyped, RequestFits, KeyPcs, Critical, DeleteSubnetRow, Status, UnlockAndRespond
  <2> QED
    BY <2>1, <2>2
<1>22. CASE Finish(w)
  <2>1. DbTyped' /\ WgTyped' /\ MemTyped' /\ LockTyped' /\ ProcTyped'
    BY <1>22 DEF Finish
  <2>2. HandlersTyped' /\ RequestFits'
    BY <1>22 DEF HandlersTyped, RequestFits, KeyPcs, Critical, Finish, Goto, Status
  <2> QED
    BY <2>1, <2>2
<1> QED
  BY <1>1, <1>2, <1>3, <1>4, <1>5, <1>6, <1>7, <1>8, <1>9, <1>10, <1>11, <1>12, <1>13, <1>14, <1>15, <1>16, <1>17, <1>18, <1>19, <1>20, <1>21, <1>22
  DEF TakeMutex, HandlerStep

\* The collector's steps keep the types.
LEMMA CollectorTyped ==
  ASSUME TypeInv, CollectorStep
  PROVE  TypeInv'
<1> USE DEF TypeInv, TypeOK, dbVars, wgVars, memVars, lockVars, handlerVars
<1>1. /\ UNCHANGED <<dbVars, wgVars, memVars, dbLock, handlerVars, boot, todo>>
      /\ cacheLock' \in {cacheLock, "free", "collector"}
      /\ collector' \in {"idle", "dumped", "caching"}
  BY DEF CollectorStep, CollectDump, CollectLockCache, CollectWrite
<1>2. DbTyped' /\ WgTyped' /\ MemTyped' /\ LockTyped' /\ ProcTyped'
  BY <1>1 DEF DbTyped, WgTyped, MemTyped, LockTyped, ProcTyped
<1>3. HandlersTyped' /\ RequestFits'
  BY <1>1 DEF HandlersTyped, RequestFits
<1> QED
  BY <1>2, <1>3

\* The death of the process leaves a state of the right type.
LEMMA GoneTyped ==
  ASSUME TypeInv, ProcessGone
  PROVE  TypeInv'
<1> USE DEF TypeInv, TypeOK, dbVars, wgVars
<1>1. DbTyped' /\ WgTyped' /\ MemTyped' /\ LockTyped' /\ ProcTyped'
  BY DEF ProcessGone, DbTyped, WgTyped, MemTyped, LockTyped, ProcTyped, Net
<1>2. HandlersTyped' /\ RequestFits'
  BY DEF ProcessGone, HandlersTyped, RequestFits, KeyPcs, Critical, Status
<1> QED
  BY <1>1, <1>2

\* The steps of a start keep the types.
LEMMA StartTyped ==
  ASSUME TypeInv, StartStep
  PROVE  TypeInv'
<1> USE DEF TypeInv, TypeOK, DbTyped, WgTyped, MemTyped, LockTyped, HandlersTyped,
            ProcTyped, dbVars, wgVars, memVars, lockVars, handlerVars
<1>1. CASE StartTrees
  <2>1. /\ UNCHANGED <<dbVars, wgVars, cache, lockVars, handlerVars, collector>>
        /\ boot' \in {"remove", "refused"}
        /\ todo' = DbKeys \/ todo' = todo
    BY <1>1 DEF StartTrees
  <2>2. tree' \in [Net -> SUBSET UNION { Path(Heights[n]) : n \in Net }]
    <3>1. ASSUME NEW n \in Net
          PROVE  NewTree(n) \cup Paths(ExclusivePrefixes(subnets), n)
                   \subseteq UNION { Path(Heights[m]) : m \in Net }
      <4>1. NewTree(n) \subseteq Path(Heights[n])
        BY NetFacts DEF NewTree, NetworkHosts
      <4>2. ExclusivePrefixes(subnets) \subseteq Prefix
        BY DEF ExclusivePrefixes
      <4> QED
        BY <4>1, <4>2, PathsTyped
    <3>2. CASE tree' = Put([n \in Net |-> NewTree(n)], ExclusivePrefixes(subnets))
      BY <3>1, <3>2 DEF Put
    <3>3. CASE UNCHANGED tree
      BY <3>3
    <3> QED
      BY <1>1, <3>2, <3>3 DEF StartTrees
  <2> QED
    BY <2>1, <2>2 DEF RequestFits, DbKeys
<1>2. CASE StartServing
  BY <1>2 DEF StartServing, RequestFits
<1>3. CASE StartFailed
  BY <1>3, GoneTyped DEF StartFailed
<1>4. ASSUME NEW k \in Key, StartRemove(k) \/ StartPut(k) \/ StartUndo(k)
      PROVE  TypeInv'
  <2>1. /\ UNCHANGED <<dbVars, tree, lockVars, handlerVars, collector>>
        /\ boot' \in {"put", "undo", "remove"}
    BY <1>4 DEF StartRemove, StartPut, StartUndo
  <2>2. WgTyped'
    BY <1>4 DEF StartRemove, StartPut, StartUndo, WgRemove, WgPut
  <2>3. cache' \in [Key -> Nat]
    <3>1. \E id \in Nat : cache' = [cache EXCEPT ![k] = id] \/ cache' = cache
      BY <1>4 DEF StartRemove, StartPut, StartUndo, CachePut
    <3> QED
      BY <3>1, ExceptTyped
  <2>4. todo' \subseteq Key
    BY <1>4 DEF StartRemove, StartPut, StartUndo, Prepared, DbKeys
  <2> QED
    BY <2>1, <2>2, <2>3, <2>4 DEF RequestFits
<1> QED
  BY <1>1, <1>2, <1>3, <1>4 DEF StartStep

\* The invariant is inductive.
LEMMA NextTyped ==
  ASSUME TypeInv, [Next]_vars
  PROVE  TypeInv'
<1>1. CASE UNCHANGED vars
  BY <1>1 DEF vars, TypeInv, TypeOK, DbTyped, WgTyped, MemTyped, LockTyped, HandlersTyped,
              ProcTyped, RequestFits, dbVars, wgVars, memVars, lockVars, handlerVars, procVars
<1>2. CASE ProcessGone
  BY <1>2, GoneTyped
<1> QED
  BY <1>1, <1>2, HandlerTyped, CollectorTyped, StartTyped DEF Next, Crash, FatalUnlock

\* Every variable keeps its type: no step of a handler, the collector, the
\* start or a crash leaves the node with a row, a tree, a route or a request
\* that the next step cannot read.
THEOREM TypeCorrect == Spec => []TypeOK
<1>1. Spec => []TypeInv
  BY TypeInit, NextTyped, PTL DEF Spec
<1>2. TypeInv => TypeOK
  BY DEF TypeInv
<1> QED
  BY <1>1, <1>2, PTL

-----------------------------------------------------------------------------
(* Mutual exclusion on node.db                                             *)

\* A handler that moves inside its critical section keeps the mutex, one that
\* is outside cannot release it, and one that enters found it free.
LEMMA MutexMove ==
  ASSUME TypeInv, DbMutex, NEW w \in Handler, NEW l, pc' = [pc EXCEPT ![w] = l],
         \/ pc[w] \in Critical /\ dbLock' = dbLock
         \/ pc[w] \in Critical /\ l \notin Critical /\ dbLock' = "free"
         \/ l \notin Critical /\ dbLock' = dbLock
         \/ dbLock = "free" /\ dbLock' = w
  PROVE  DbMutex'
<1>1. pc \in [Handler -> {"idle", "wait", "done"} \cup Critical]
  BY DEF TypeInv, TypeOK, HandlersTyped
<1>2. ASSUME NEW v \in Handler, pc'[v] \in Critical, v # w
      PROVE  dbLock' = v
  <2>1. dbLock = v
    BY <1>1, <1>2 DEF DbMutex
  <2>2. "free" \notin Handler
    BY HandlerAssumption
  <2> QED
    BY <1>2, <2>1, <2>2 DEF DbMutex
<1>3. pc'[w] \in Critical => dbLock' = w
  BY <1>1 DEF DbMutex
<1> QED
  BY <1>2, <1>3 DEF DbMutex

\* No step of a handler leaves two handlers inside, or one without the mutex.
LEMMA HandlerMutex ==
  ASSUME "commit" \notin Faults, TypeInv, DbMutex, NEW w \in Handler,
         Receive(w) \/ TakeMutex(w) \/ HandlerStep(w)
  PROVE  DbMutex'
<1>1. CASE Receive(w)
  BY <1>1, MutexMove DEF Receive, Goto, Critical, lockVars
<1>2. CASE LockDb(w)
  BY <1>2, MutexMove DEF LockDb, Goto
<1>3. CASE Finish(w)
  BY <1>3, MutexMove DEF Finish, Goto, Critical, lockVars
<1>4. CASE AddRow(w)
  BY <1>4, MutexMove DEF AddRow, Goto, Fail, Critical, lockVars
<1>5. CASE AddReserve(w)
  BY <1>5, MutexMove DEF AddReserve, Goto, Fail, Critical, lockVars
<1>6. CASE AddAssignRandom(w)
  BY <1>6, MutexMove DEF AddAssignRandom, Goto, Fail, Critical, lockVars
<1>7. CASE AddSubnetRows(w)
  BY <1>7, MutexMove DEF AddSubnetRows, Goto, Fail, Critical, lockVars
<1>8. CASE AddPutPeer(w)
  BY <1>8, MutexMove DEF AddPutPeer, Goto, Fail, Critical, lockVars
<1>9. CASE AddPutNew(w)
  BY <1>9, MutexMove DEF AddPutNew, Goto, Fail, Critical, lockVars
<1>10. CASE AddCommit(w)
  BY <1>10, MutexMove DEF AddCommit, Goto, UnlockAndRespond, Respond, Fail, Critical, lockVars
<1>11. CASE AddRollback(w)
  BY <1>11, MutexMove DEF AddRollback, Goto, Critical, lockVars
<1>12. CASE AddUncache(w)
  BY <1>12, MutexMove DEF AddUncache, Goto, UnlockAndRespond, Respond, Critical, lockVars
<1>13. CASE DeleteRow(w)
  BY <1>13, MutexMove DEF DeleteRow, Goto, UnlockAndRespond, Respond, Continue, Critical, lockVars
<1>14. CASE DeleteFromWg(w)
  BY <1>14, MutexMove DEF DeleteFromWg, Goto, UnlockAndRespond, Respond, Critical, lockVars
<1>15. CASE UpdateRow(w)
  BY <1>15, MutexMove DEF UpdateRow, Goto, UnlockAndRespond, Respond, Continue, Critical, lockVars
<1>16. CASE UpdateReset(w)
  BY <1>16, MutexMove DEF UpdateReset, Goto, UnlockAndRespond, Respond, Continue, Critical, lockVars
<1>17. CASE UpdatePut(w)
  BY <1>17, MutexMove DEF UpdatePut, Goto, UnlockAndRespond, Respond, Critical, lockVars
<1>18. CASE GetRow(w)
  BY <1>18, MutexMove DEF GetRow, Goto, UnlockAndRespond, Respond, Critical, lockVars
<1>19. CASE ReserveInTree(w)
  BY <1>19, MutexMove DEF ReserveInTree, Goto, UnlockAndRespond, Respond, Critical, lockVars
<1>20. CASE ReserveRow(w)
  BY <1>20, MutexMove DEF ReserveRow, Goto, UnlockAndRespond, Respond, Critical, lockVars
<1>21. CASE DeleteSubnetFromTree(w)
  BY <1>21, MutexMove DEF DeleteSubnetFromTree, Goto, UnlockAndRespond, Respond, Continue, Critical, lockVars
<1>22. CASE DeleteSubnetRow(w)
  BY <1>22, MutexMove DEF DeleteSubnetRow, Goto, UnlockAndRespond, Respond, Critical, lockVars
<1> QED
  BY <1>1, <1>2, <1>3, <1>4, <1>5, <1>6, <1>7, <1>8, <1>9, <1>10, <1>11, <1>12, <1>13, <1>14, <1>15, <1>16, <1>17, <1>18, <1>19, <1>20, <1>21, <1>22 DEF TakeMutex, HandlerStep

\* Whoever is between node.db.Lock and Unlock holds the mutex, so no two handlers
\* are inside at once, however many there are.  It needs COMMIT not to fail: after
\* a failed one apiAddPeer goes on without the mutex.
THEOREM MutexSafe ==
  ASSUME "commit" \notin Faults
  PROVE  Spec => []DbMutex
<1>1. Init => DbMutex
  BY DEF Init, DbMutex, Critical
<1>2. ASSUME TypeInv, DbMutex, [Next]_vars
      PROVE  DbMutex'
  <2>1. CASE UNCHANGED vars
    BY <1>2, <2>1 DEF DbMutex, vars, lockVars, handlerVars
  <2>2. CASE ProcessGone
    BY <2>2 DEF ProcessGone, DbMutex, Critical
  <2>3. CASE CollectorStep
    BY <1>2, <2>3
    DEF CollectorStep, CollectDump, CollectLockCache, CollectWrite, DbMutex, lockVars,
        handlerVars
  <2>4. CASE StartStep
    BY <1>2, <2>4
    DEF StartStep, StartTrees, StartServing, StartFailed, StartRemove, StartPut, StartUndo,
        ProcessGone, DbMutex, Critical, lockVars, handlerVars
  <2> QED
    BY <1>2, <2>1, <2>2, <2>3, <2>4, HandlerMutex DEF Next, Crash, FatalUnlock
<1>3. TypeInv /\ DbMutex /\ [Next]_vars => (TypeInv /\ DbMutex)'
  BY <1>2, NextTyped
<1>4. Init => TypeInv /\ DbMutex
  BY <1>1, TypeInit
<1> QED
  BY <1>3, <1>4, PTL DEF Spec

\* Nobody has unlocked a free mutex.
NoFatal == \A w \in Handler : reply[w] # "fatal"

\* Who has the mutex can give it back.
LEMMA HoldsUnlocks ==
  ASSUME NEW w \in Handler, dbLock = w
  PROVE  Unlockable
  BY HandlerAssumption DEF Unlockable

\* A handler that has the mutex does not answer with a fatal Unlock.
LEMMA HandlerNotFatal ==
  ASSUME TypeInv, DbMutex, NoFatal, NEW w \in Handler,
         Receive(w) \/ TakeMutex(w) \/ HandlerStep(w)
  PROVE  NoFatal'
<1> USE DEF NoFatal, Goto, Respond, UnlockAndRespond, Continue, Fail
<1>0. /\ reply \in [Handler -> Status]
      /\ pc[w] \in Critical => Unlockable
  BY HoldsUnlocks DEF DbMutex, TypeInv, TypeOK, HandlersTyped
<1> USE DEF Critical
<1>1. CASE Receive(w) \/ LockDb(w) \/ Finish(w)
  BY <1>0, <1>1 DEF Receive, LockDb, Finish
<1>2. CASE AddRow(w) \/ AddReserve(w) \/ AddAssignRandom(w) \/ AddSubnetRows(w)
  BY <1>0, <1>2 DEF AddRow, AddReserve, AddAssignRandom, AddSubnetRows
<1>3. CASE AddPutPeer(w) \/ AddPutNew(w)
  BY <1>0, <1>3 DEF AddPutPeer, AddPutNew
<1>4. CASE AddCommit(w)
  BY <1>0, <1>4 DEF AddCommit, AddedStatus
<1>5. CASE AddRollback(w) \/ AddUncache(w)
  BY <1>0, <1>5 DEF AddRollback, AddUncache
<1>6. CASE DeleteRow(w) \/ DeleteFromWg(w) \/ GetRow(w)
  BY <1>0, <1>6 DEF DeleteRow, DeleteFromWg, GetRow
<1>7. CASE UpdateRow(w) \/ UpdateReset(w) \/ UpdatePut(w)
  BY <1>0, <1>7 DEF UpdateRow, UpdateReset, UpdatePut
<1>8. CASE ReserveInTree(w) \/ ReserveRow(w)
  BY <1>0, <1>8 DEF ReserveInTree, ReserveRow
<1>9. CASE DeleteSubnetFromTree(w) \/ DeleteSubnetRow(w)
  BY <1>0, <1>9 DEF DeleteSubnetFromTree, DeleteSubnetRow
<1> QED
  BY <1>1, <1>2, <1>3, <1>4, <1>5, <1>6, <1>7, <1>8, <1>9 DEF TakeMutex, HandlerStep

\* As long as COMMIT does not fail, no handler ends the process with the Unlock of a
\* mutex that nobody has.
THEOREM NeverFatal ==
  ASSUME "commit" \notin Faults
  PROVE  Spec => []NoFatal
<1>1. Init => NoFatal
  BY DEF Init, NoFatal
<1>2. ASSUME TypeInv, DbMutex, NoFatal, [Next]_vars
      PROVE  NoFatal'
  <2>1. CASE ProcessGone
    BY <2>1 DEF ProcessGone, NoFatal
  <2>2. CASE UNCHANGED reply
    BY <1>2, <2>2 DEF NoFatal
  <2>3. CollectorStep => UNCHANGED reply
    BY DEF CollectorStep, CollectDump, CollectLockCache, CollectWrite, handlerVars
  <2>4. StartStep => UNCHANGED reply \/ ProcessGone
    BY DEF StartStep, StartTrees, StartServing, StartFailed, StartRemove, StartPut, StartUndo,
           handlerVars
  <2> QED
    BY <1>2, <2>1, <2>2, <2>3, <2>4, HandlerNotFatal
    DEF Next, Crash, FatalUnlock, vars, handlerVars
<1>3. TypeInv /\ DbMutex /\ NoFatal /\ [Next]_vars => NoFatal'
  BY <1>2
<1>4. Spec => []TypeInv
  BY TypeInit, NextTyped, PTL DEF Spec
<1> QED
  BY <1>1, <1>3, <1>4, MutexSafe, PTL DEF Spec

-----------------------------------------------------------------------------
(* A failing COMMIT                                                        *)

\* COMMIT does not fail, or there is no one but the handler whose COMMIT fails to
\* take the mutex that apiAddPeer's rollback then works without and unlocks again.
CommitAlone ==
  "commit" \in Faults => "collect" \notin Ops /\ \E w \in Handler : Handler = {w}

\* A handler has the mutex up to its first Unlock.
Holding ==
  \A w \in Handler : pc[w] \in Critical \ {"rollback", "uncache"} => dbLock = w

\* A lone handler loses the mutex by its own steps only.
LEMMA LoneHolds ==
  ASSUME TypeInv, Holding, NEW w \in Handler, Handler = {w},
         Receive(w) \/ TakeMutex(w) \/ HandlerStep(w)
  PROVE  Holding'
<1> DEFINE Locked == pc[w] \in Critical \ {"rollback", "uncache"} /\ dbLock' = dbLock
           Out == pc'[w] \notin Critical \ {"rollback", "uncache"}
           In == dbLock' = w
<1> USE DEF Goto, Respond, UnlockAndRespond, Continue, Fail, Critical, lockVars
<1>0. pc \in [Handler -> {"idle", "wait", "done"} \cup Critical]
  BY DEF TypeInv, TypeOK, HandlersTyped
<1>1. CASE Receive(w) \/ LockDb(w) \/ Finish(w)
  <2>1. Out \/ In
    BY <1>0, <1>1 DEF Receive, LockDb, Finish
  <2> QED
    BY <2>1 DEF Holding
<1>2. ASSUME Locked \/ Out
      PROVE  Holding'
  BY <1>2 DEF Holding
<1>3. CASE AddRow(w) \/ AddReserve(w) \/ AddAssignRandom(w) \/ AddSubnetRows(w)
  BY <1>0, <1>2, <1>3 DEF AddRow, AddReserve, AddAssignRandom, AddSubnetRows
<1>4. CASE AddPutPeer(w) \/ AddPutNew(w) \/ AddCommit(w)
  BY <1>0, <1>2, <1>4 DEF AddPutPeer, AddPutNew, AddCommit
<1>5. CASE AddRollback(w) \/ AddUncache(w)
  BY <1>0, <1>2, <1>5 DEF AddRollback, AddUncache
<1>6. CASE DeleteRow(w) \/ DeleteFromWg(w) \/ GetRow(w)
  BY <1>0, <1>2, <1>6 DEF DeleteRow, DeleteFromWg, GetRow
<1>7. CASE UpdateRow(w) \/ UpdateReset(w) \/ UpdatePut(w)
  BY <1>0, <1>2, <1>7 DEF UpdateRow, UpdateReset, UpdatePut
<1>8. CASE ReserveInTree(w) \/ ReserveRow(w)
  BY <1>0, <1>2, <1>8 DEF ReserveInTree, ReserveRow
<1>9. CASE DeleteSubnetFromTree(w) \/ DeleteSubnetRow(w)
  BY <1>0, <1>2, <1>9 DEF DeleteSubnetFromTree, DeleteSubnetRow
<1> QED
  BY <1>1, <1>3, <1>4, <1>5, <1>6, <1>7, <1>8, <1>9 DEF TakeMutex, HandlerStep

\* Under CommitAlone every handler has the mutex from its Lock to its first Unlock.
LEMMA HoldsMutex ==
  ASSUME CommitAlone
  PROVE  Spec => []Holding
<1>1. ASSUME "commit" \notin Faults
      PROVE  Spec => []Holding
  <2>1. DbMutex => Holding
    BY DEF DbMutex, Holding
  <2> QED
    BY <1>1, <2>1, MutexSafe, PTL
<1>2. ASSUME "commit" \in Faults
      PROVE  Spec => []Holding
  <2>0. PICK v \in Handler : Handler = {v}
    BY <1>2 DEF CommitAlone
  <2>1. Init => Holding
    BY DEF Init, Holding, Critical
  <2>2. ASSUME TypeInv, Holding, [Next]_vars
        PROVE  Holding'
    <3>1. CASE ProcessGone
      BY <3>1 DEF ProcessGone, Holding, Critical
    <3>2. CASE UNCHANGED <<pc, dbLock>>
      BY <2>2, <3>2 DEF Holding
    <3>3. CollectorStep => UNCHANGED <<pc, dbLock>>
      BY DEF CollectorStep, CollectDump, CollectLockCache, CollectWrite, handlerVars, lockVars
    <3>4. StartStep => UNCHANGED <<pc, dbLock>> \/ ProcessGone
      BY DEF StartStep, StartTrees, StartServing, StartFailed, StartRemove, StartPut, StartUndo,
             handlerVars, lockVars
    <3> QED
      BY <2>0, <2>2, <3>1, <3>2, <3>3, <3>4, LoneHolds
      DEF Next, Crash, FatalUnlock, vars, handlerVars, lockVars
  <2>3. TypeInv /\ Holding /\ [Next]_vars => Holding'
    BY <2>2
  <2>4. Spec => []TypeInv
    BY TypeInit, NextTyped, PTL DEF Spec
  <2> QED
    BY <2>1, <2>3, <2>4, PTL DEF Spec
<1> QED
  BY <1>1, <1>2

-----------------------------------------------------------------------------
(* The trees never hold two prefixes that overlap                          *)

Apart(S) == \A p, q \in S : p # q => ~Overlap(p, q)

\* Overlapping is symmetric.
LEMMA OverlapSymmetric == \A p, q : Overlap(p, q) <=> Overlap(q, p)
  BY DEF Overlap

\* The hosts of a network are addresses, and distinct addresses do not overlap.
LEMMA HostsApart ==
  ASSUME NEW n \in Net
  PROVE  Apart(NewTree(n))
<1>1. Heights[n] \in Nat
  BY NetFacts
<1>2. ASSUME NEW a \in Address(Heights[n]), NEW b \in Address(Heights[n]), IsPrefix(a, b)
      PROVE  a = b
  <2>1. a \in Seq(Bit) /\ b \in Seq(Bit) /\ Len(a) = Heights[n] /\ Len(b) = Heights[n]
    BY <1>1 DEF Address
  <2>2. SubSeq(a, 1, Len(a)) = a /\ SubSeq(b, 1, Len(b)) = b
    BY <2>1
  <2>3. SubSeq(a, 1, Len(a)) = SubSeq(b, 1, Len(a))
    BY <1>2 DEF IsPrefix
  <2> QED
    BY <2>1, <2>2, <2>3
<1>3. NewTree(n) \subseteq Address(Heights[n])
  BY DEF NewTree, NetworkHosts
<1> QED
  BY <1>2, <1>3 DEF Apart, Overlap

\* Putting prefixes that are apart and clear of a tree keeps it free of overlaps.
LEMMA PutApart ==
  ASSUME NEW T, NEW S, NEW n \in DOMAIN T, Apart(T[n]), Apart(Paths(S, n)),
         \A p \in Paths(S, n) : Clear(T[n], p)
  PROVE  Apart(Put(T, S)[n])
<1>1. Put(T, S)[n] = T[n] \cup Paths(S, n)
  BY DEF Put
<1> QED
  BY <1>1, OverlapSymmetric DEF Apart, Clear

\* What the loop over a list reserves is clear of the trees and of itself.
LEMMA ReservedApart ==
  ASSUME NEW l \in Seq(Subnet), NEW n \in Net
  PROVE  /\ Apart(Paths(ReservedBy(l), n))
         /\ \A p \in Paths(ReservedBy(l), n) : Clear(tree[n], p)
<1> DEFINE Accepted == { i \in DOMAIN l : ~l[i].may /\ i \notin Refused(l) }
<1>1. ASSUME NEW p \in Paths(ReservedBy(l), n)
      PROVE  \E i \in Accepted : l[i].prefix.net = n /\ l[i].prefix.path = p
  <2>1. PICK x \in ReservedBy(l) : x.net = n /\ x.path = p
    BY DEF Paths
  <2>2. PICK i \in DOMAIN l : ~l[i].may /\ (\A b \in Refused(l) : i < b) /\ x = l[i].prefix
    BY DEF ReservedBy
  <2>3. i \in Nat
    OBVIOUS
  <2>4. i \notin Refused(l)
    BY <2>2, <2>3
  <2> QED
    BY <2>1, <2>2, <2>4
<1>2. ASSUME NEW i \in Accepted, NEW j \in Accepted, j < i,
             l[j].prefix.net = l[i].prefix.net
      PROVE  ~Overlap(l[j].prefix.path, l[i].prefix.path)
  <2>1. j \in 1..i - 1
    BY <1>2
  <2> QED
    BY <1>2, <2>1 DEF Refused
<1>3. ASSUME NEW i \in Accepted
      PROVE  Clear(tree[l[i].prefix.net], l[i].prefix.path)
  BY DEF Refused, Reservable
<1>4. Apart(Paths(ReservedBy(l), n))
  <2> SUFFICES ASSUME NEW p \in Paths(ReservedBy(l), n), NEW q \in Paths(ReservedBy(l), n),
                      p # q
               PROVE  ~Overlap(p, q)
    BY DEF Apart
  <2>1. PICK i \in Accepted : l[i].prefix.net = n /\ l[i].prefix.path = p
    BY <1>1
  <2>2. PICK j \in Accepted : l[j].prefix.net = n /\ l[j].prefix.path = q
    BY <1>1
  <2>3. i < j \/ j < i
    BY <2>1, <2>2
  <2> QED
    BY <1>2, <2>1, <2>2, <2>3, OverlapSymmetric
<1>5. \A p \in Paths(ReservedBy(l), n) : Clear(tree[n], p)
  BY <1>1, <1>3
<1> QED
  BY <1>4, <1>5

\* The rows of the table that a start accepts are apart and clear of the hosts.
LEMMA RowsApart ==
  ASSUME RowsFit, NEW n \in Net
  PROVE  /\ Apart(Paths(ExclusivePrefixes(subnets), n))
         /\ \A p \in Paths(ExclusivePrefixes(subnets), n) : Clear(NewTree(n), p)
<1>1. ASSUME NEW p \in Paths(ExclusivePrefixes(subnets), n)
      PROVE  \E r \in subnets : ~r.may /\ r.prefix.net = n /\ r.prefix.path = p
  BY DEF Paths, ExclusivePrefixes
<1> QED
  BY <1>1 DEF RowsFit, Apart

EachApart == \A n \in Net : Apart(tree[n])

\* The form of the property that the proofs use is the property.
LEMMA ApartIsDisjoint == EachApart <=> TreesDisjoint
  BY DEF EachApart, TreesDisjoint, Apart, Clear

\* Trees that only lost prefixes.
LEMMA ShrunkApart ==
  ASSUME EachApart, \A n \in Net : tree'[n] \subseteq tree[n]
  PROVE  EachApart'
  BY DEF EachApart, Apart

\* The steps of a handler that put prefixes into the trees.
LEMMA HandlerPutsApart ==
  ASSUME TypeInv, EachApart, NEW w \in Handler,
         AddReserve(w) \/ AddAssignRandom(w) \/ ReserveInTree(w)
  PROVE  EachApart'
<1>0. DOMAIN tree = Net
  BY DEF TypeInv, TypeOK, MemTyped
<1>1. CASE AddReserve(w)
  <2>1. list[w] \in Seq(Subnet)
    BY DEF TypeInv, TypeOK, HandlersTyped
  <2>2. tree' = Put(tree, ReservedBy(list[w]))
    BY <1>1 DEF AddReserve
  <2> QED
    BY <1>0, <2>1, <2>2, PutApart, ReservedApart DEF EachApart, Put
<1>2. CASE AddAssignRandom(w)
  <2>1. ASSUME NEW pick \in FreePicks(Heights, tree), tree' = Put(tree, Picked(pick))
        PROVE  EachApart'
    <3>1. ASSUME NEW n \in Net
          PROVE  /\ Paths(Picked(pick), n) = {pick[n]}
                 /\ Clear(tree[n], pick[n])
      <4>1. Clear(tree[n], pick[n])
        BY NetFacts DEF FreePicks
      <4>2. \A p \in Paths(Picked(pick), n) : p = pick[n]
        BY DEF Paths, Picked
      <4>3. pick[n] \in Paths(Picked(pick), n)
        <5>1. n \in DOMAIN pick
          BY NetFacts DEF FreePicks
        <5>2. [net |-> n, path |-> pick[n]] \in Picked(pick)
          BY <5>1 DEF Picked
        <5> QED
          BY <5>2 DEF Paths
      <4> QED
        BY <4>1, <4>2, <4>3
    <3>2. ASSUME NEW n \in Net
          PROVE  Apart(Paths(Picked(pick), n))
      BY <3>1 DEF Apart
    <3> QED
      BY <1>0, <2>1, <3>1, <3>2, PutApart DEF EachApart
  <2> QED
    BY <1>2, <2>1 DEF AddAssignRandom, EachApart
<1>3. CASE ReserveInTree(w)
  <2> DEFINE p == req[w].sub.prefix
  <2>1. ASSUME req[w].sub.may, tree' = Put(tree, {})
        PROVE  EachApart'
    BY <1>0, <2>1 DEF EachApart, Put, Paths
  <2>2. ASSUME Reservable(tree, p), tree' = Put(tree, {p})
        PROVE  EachApart'
    <3>1. ASSUME NEW n \in Net
          PROVE  /\ Apart(Paths({p}, n))
                 /\ \A q \in Paths({p}, n) : Clear(tree[n], q)
      BY <2>2 DEF Paths, Reservable, Apart
    <3> QED
      BY <1>0, <2>2, <3>1, PutApart DEF EachApart
  <2>3. \/ UNCHANGED tree
        \/ req[w].sub.may /\ tree' = Put(tree, {})
        \/ Reservable(tree, p) /\ tree' = Put(tree, {p})
    BY <1>3 DEF ReserveInTree
  <2> QED
    BY <2>1, <2>2, <2>3 DEF EachApart
<1> QED
  BY <1>1, <1>2, <1>3

\* No step of a handler makes two prefixes of a tree overlap.
LEMMA HandlerApart ==
  ASSUME TypeInv, EachApart, NEW w \in Handler,
         Receive(w) \/ TakeMutex(w) \/ HandlerStep(w)
  PROVE  EachApart'
<1>1. CASE AddReserve(w) \/ AddAssignRandom(w) \/ ReserveInTree(w)
  BY <1>1, HandlerPutsApart
<1>2. DOMAIN tree = Net
  BY DEF TypeInv, TypeOK, MemTyped
<1>3. CASE AddRollback(w)
  BY <1>2, <1>3, ShrunkApart DEF AddRollback, Drop
<1>4. CASE ReserveRow(w)
  BY <1>2, <1>4, ShrunkApart DEF ReserveRow, Drop
<1>5. CASE DeleteSubnetFromTree(w)
  BY <1>2, <1>5, ShrunkApart DEF DeleteSubnetFromTree, Drop
<1>6. CASE UNCHANGED tree
  BY <1>6 DEF EachApart
<1>7. \/ AddReserve(w) \/ AddAssignRandom(w) \/ ReserveInTree(w)
      \/ AddRollback(w) \/ ReserveRow(w) \/ DeleteSubnetFromTree(w)
      \/ UNCHANGED tree
  BY DEF TakeMutex, HandlerStep, Receive, LockDb, Finish, AddRow, AddSubnetRows, AddPutPeer,
         AddPutNew, AddCommit, AddUncache, DeleteRow, DeleteFromWg, UpdateRow, UpdateReset,
         UpdatePut, GetRow, DeleteSubnetRow, memVars
<1> QED
  BY <1>1, <1>3, <1>4, <1>5, <1>6, <1>7

\* No request, no failure and no restart makes a tree hold two prefixes that
\* overlap, for any number of handlers and any requests: the trie of package
\* nettree is only ever asked for what it has a place for.  CommitAlone stands for
\* what the model takes for granted: a Reserve or Delete of a trie is one step
\* because of the mutex, which a rollback after a failed COMMIT does not have.
THEOREM TreesNeverOverlap ==
  ASSUME CommitAlone
  PROVE  Spec => []TreesDisjoint
<1>1. Init => EachApart
  BY DEF Init, EachApart, Apart
<1>2. ASSUME TypeInv, EachApart, [Next]_vars
      PROVE  EachApart'
  <2>1. CASE UNCHANGED vars
    BY <1>2, <2>1 DEF EachApart, vars, memVars
  <2>2. CASE ProcessGone
    BY <1>2, <2>2, ShrunkApart DEF ProcessGone
  <2>3. CASE CollectorStep
    BY <1>2, <2>3
    DEF CollectorStep, CollectDump, CollectLockCache, CollectWrite, EachApart, memVars
  <2>4. CASE StartTrees
    <3>1. CASE RowsFit /\ tree' = Put([n \in Net |-> NewTree(n)], ExclusivePrefixes(subnets))
      BY <3>1, PutApart, RowsApart, HostsApart DEF EachApart
    <3>2. CASE UNCHANGED tree
      BY <1>2, <3>2 DEF EachApart
    <3> QED
      BY <2>4, <3>1, <3>2 DEF StartTrees
  <2>5. CASE StartFailed
    BY <1>2, <2>5, ShrunkApart DEF StartFailed, ProcessGone
  <2>6. CASE StartServing \/ \E k \in Key : StartRemove(k) \/ StartPut(k) \/ StartUndo(k)
    <3>1. UNCHANGED tree
      BY <2>6 DEF StartServing, StartRemove, StartPut, StartUndo, memVars
    <3> QED
      BY <1>2, <3>1 DEF EachApart
  <2> QED
    BY <1>2, <2>1, <2>2, <2>3, <2>4, <2>5, <2>6, HandlerApart DEF Next, StartStep, Crash, FatalUnlock
<1>3. TypeInv /\ EachApart /\ [Next]_vars => (TypeInv /\ EachApart)'
  BY <1>2, NextTyped
<1>4. Init => TypeInv /\ EachApart
  BY <1>1, TypeInit
<1>5. TypeInv /\ EachApart => TreesDisjoint
  BY ApartIsDisjoint
<1> QED
  BY <1>3, <1>4, <1>5, PTL DEF Spec

-----------------------------------------------------------------------------
(* The inductive invariant                                                 *)

\* No two handlers are between Lock and Unlock.
Alone == \A v, w \in Handler : pc[v] \in Critical /\ pc[w] \in Critical => v = w

\* Handlers only run in a process that serves.
IdleUntilUp == boot # "up" => \A w \in Handler : pc[w] = "idle"

\* The exclusive prefixes of a list of POST /peers.
Wanted(l) == { l[i].prefix : i \in { j \in DOMAIN l : ~l[j].may } }

\* No exclusive item of a list overlaps another one.
ListApart(l) ==
  \A i, j \in DOMAIN l :
    i # j /\ ~l[i].may /\ ~l[j].may /\ l[i].prefix.net = l[j].prefix.net
      => ~Overlap(l[i].prefix.path, l[j].prefix.path)

\* Where apiAddPeer has reserved its whole list.
Listing == {"addSubnets", "addPut", "addCache", "addCommit"}

\* What a handler has in the trees is what its request asks for, from the
\* reservation to the row or to the rollback.
HeldRight(w) ==
  /\ held[w] # {} => pc[w] \in Listing \cup {"rollback", "reserveRow"}
  /\ pc[w] \in Listing => held[w] = Wanted(list[w]) /\ ListApart(list[w])
  /\ pc[w] = "reserveRow" =>
       held[w] = IF req[w].sub.may THEN {} ELSE {req[w].sub.prefix}

HeldByRequest == \A w \in Handler : HeldRight(w)

\* Prefixes of the nets that are clear of the networks' hosts, of each other and
\* of the rows of the table.
Fits(S) ==
  \A p \in S :
    /\ p.net \in Net
    /\ Clear(NewTree(p.net), p.path)
    /\ \A q \in S \ {p} : q.net = p.net => ~Overlap(p.path, q.path)
    /\ \A q \in ExclusivePrefixes(subnets) : q.net = p.net => ~Overlap(p.path, q.path)

\* What a handler has in the trees can become rows.
HeldFits == \A w \in Handler : Fits(held[w])

BookInv == Alone /\ IdleUntilUp /\ HeldByRequest /\ HeldFits /\ RowsFit /\ TreeAgrees

-----------------------------------------------------------------------------
(* Sets of prefixes and the part of them in one net                        *)

\* The path of a prefix is a sequence of bits.
LEMMA PrefixIsBits ==
  ASSUME NEW p \in Prefix
  PROVE  p.path \in Seq(Bit)
<1>1. ASSUME p \in [net : {NoNet}, path : {<<>>}]
      PROVE  p.path \in Seq(Bit)
  <2>1. p.path = <<>>
    BY <1>1
  <2>2. <<>> \in Seq(Bit)
    OBVIOUS
  <2> QED
    BY <2>1, <2>2
<1>2. ASSUME NEW n \in Net, p \in [net : {n}, path : Path(Heights[n])]
      PROVE  p.path \in Seq(Bit)
  BY <1>2, NetFacts DEF Path, Address
<1> QED
  BY <1>1, <1>2 DEF Prefix

\* A prefix overlaps itself.
LEMMA OverlapReflexive ==
  ASSUME NEW p \in Prefix
  PROVE  Overlap(p.path, p.path)
<1>1. p.path \in Seq(Bit)
  BY PrefixIsBits
<1>2. SubSeq(p.path, 1, Len(p.path)) = p.path
  BY <1>1
<1> QED
  BY <1>1, <1>2 DEF Overlap, IsPrefix

\* A path is in a net's part of a set iff the set has the prefix.
LEMMA PathsMember ==
  ASSUME NEW S, NEW n, NEW x
  PROVE  x \in Paths(S, n) <=> \E p \in S : p.net = n /\ p.path = x
  BY DEF Paths

\* Taking the net's part goes through union.
LEMMA PathsUnion == \A S, T, n : Paths(S \cup T, n) = Paths(S, n) \cup Paths(T, n)
  BY DEF Paths

\* Different prefixes of one net have different paths.
LEMMA PathsInjective ==
  ASSUME NEW p \in Prefix, NEW q \in Prefix, p.net = q.net, p.path = q.path
  PROVE  p = q
<1>1. \A r \in Prefix : r = [net |-> r.net, path |-> r.path]
  BY DEF Prefix
<1> QED
  BY <1>1

\* ... and, for prefixes, through difference.
LEMMA PathsMinus ==
  ASSUME NEW S \in SUBSET Prefix, NEW T \in SUBSET Prefix, NEW n
  PROVE  Paths(S \ T, n) = Paths(S, n) \ Paths(T, n)
<1>1. ASSUME NEW p \in S, NEW q \in T, p.net = q.net, p.path = q.path
      PROVE  p = q
  BY <1>1, PathsInjective
<1> QED
  BY <1>1, PathsMember

-----------------------------------------------------------------------------
(* The steps of one handler, seen by the others                            *)

\* A step of w leaves the other handlers where they are.
Keeps(w) ==
  \A v \in Handler \ {w} :
    /\ pc'[v] = pc[v] /\ req'[v] = req[v]
    /\ list'[v] = list[v] /\ held'[v] = held[v]

\* Answering touches one handler.
LEMMA RespondKeeps ==
  ASSUME TypeInv, NEW w \in Handler, NEW s, Respond(w, s)
  PROVE  /\ Keeps(w)
         /\ pc'[w] = "done" /\ req'[w] = NoRequest /\ list'[w] = <<>> /\ held'[w] = {}
  BY DEF Respond, Goto, Keeps, TypeInv, TypeOK, HandlersTyped

\* Every step of a handler but its fatal end touches that handler alone, and the
\* process goes on serving.
LEMMA HandlerKeeps ==
  ASSUME TypeInv, NEW w \in Handler, Receive(w) \/ TakeMutex(w) \/ HandlerStep(w)
  PROVE  Keeps(w) /\ boot' = boot
<1> USE RespondKeeps DEF TypeInv, TypeOK, HandlersTyped, Keeps, Goto, Fail, UnlockAndRespond,
           Continue, procVars
<1>1. CASE Receive(w) \/ LockDb(w) \/ Finish(w)
  BY <1>1 DEF Receive, LockDb, Finish
<1>2. CASE AddRow(w) \/ AddReserve(w) \/ AddAssignRandom(w) \/ AddSubnetRows(w)
  BY <1>2 DEF AddRow, AddReserve, AddAssignRandom, AddSubnetRows
<1>3. CASE AddPutPeer(w) \/ AddPutNew(w) \/ AddCommit(w)
  BY <1>3 DEF AddPutPeer, AddPutNew, AddCommit
<1>4. CASE AddRollback(w) \/ AddUncache(w)
  BY <1>4 DEF AddRollback, AddUncache
<1>5. CASE DeleteRow(w) \/ DeleteFromWg(w) \/ GetRow(w)
  BY <1>5 DEF DeleteRow, DeleteFromWg, GetRow
<1>6. CASE UpdateRow(w) \/ UpdateReset(w) \/ UpdatePut(w)
  BY <1>6 DEF UpdateRow, UpdateReset, UpdatePut
<1>7. CASE ReserveInTree(w) \/ ReserveRow(w)
  BY <1>7 DEF ReserveInTree, ReserveRow
<1>8. CASE DeleteSubnetFromTree(w) \/ DeleteSubnetRow(w)
  BY <1>8 DEF DeleteSubnetFromTree, DeleteSubnetRow
<1> QED
  BY <1>1, <1>2, <1>3, <1>4, <1>5, <1>6, <1>7, <1>8 DEF TakeMutex, HandlerStep

\* Whoever is inside is alone, unless a failed COMMIT lets somebody else in.
LEMMA OneInside ==
  ASSUME CommitAlone
  PROVE  Spec => []Alone
<1>1. ASSUME "commit" \notin Faults
      PROVE  Spec => []Alone
  <2>1. DbMutex => Alone
    BY DEF DbMutex, Alone
  <2> QED
    BY <1>1, <2>1, MutexSafe, PTL
<1>2. ASSUME "commit" \in Faults
      PROVE  Spec => []Alone
  <2>1. Alone
    BY <1>2 DEF CommitAlone, Alone
  <2> QED
    BY <2>1, PTL
<1> QED
  BY <1>1, <1>2

-----------------------------------------------------------------------------
(* What one handler at a time does to the books                            *)

\* Nobody but w has anything in the trees or on its way out of them.
Others(w) == \A v \in Handler \ {w} : pc[v] # "dropRow" /\ held[v] = {}

FreedBy(w) ==
  IF pc[w] = "dropRow" THEN ExclusivePrefixes(RowsWithId(req[w].id)) ELSE {}

\* Then what is held and what is freed is w's.
LEMMA OnlyMine ==
  ASSUME NEW w \in Handler, Others(w)
  PROVE  Held = held[w] /\ Freed = FreedBy(w)
<1>1. Held = held[w]
  BY DEF Others, Held
<1>2. Freed = FreedBy(w)
  BY DEF Others, Freed, FreedBy, ExclusivePrefixes, RowsWithId
<1> QED
  BY <1>1, <1>2

\* Who is inside finds the others without claims, and leaves them so.
LEMMA OthersInside ==
  ASSUME Alone, HeldByRequest, NEW w \in Handler, pc[w] \in Critical
  PROVE  Others(w) /\ (Keeps(w) => Others(w)')
<1>1. ASSUME NEW v \in Handler \ {w}
      PROVE  pc[v] # "dropRow" /\ held[v] = {}
  <2>1. pc[v] \notin Critical
    BY DEF Alone
  <2>2. pc[v] \notin Listing \cup {"rollback", "reserveRow", "dropRow"}
    BY <2>1 DEF Critical, Listing
  <2> QED
    BY <2>2 DEF HeldByRequest, HeldRight
<1> QED
  BY <1>1 DEF Others, Keeps

\* A step of w between Lock and Unlock, the next state's mutual exclusion and
\* claim of w included.
Inside(w) ==
  /\ pc[w] \in Critical
  /\ Keeps(w) /\ boot' = boot
  /\ Alone' /\ HeldRight(w)'

\* What a step inside leaves to show: the claim of w, the rows and the trees.
LEMMA InsideMove ==
  ASSUME TypeInv, BookInv, NEW w \in Handler, Inside(w),
         RowsFit', Fits(held[w])',
         \A n \in Net : tree'[n] = NewTree(n)
                          \cup (Paths(ExclusivePrefixes(subnets'), n) \ Paths(FreedBy(w)', n))
                          \cup Paths(held'[w], n)
  PROVE  BookInv'
<1>1. boot' = "up"
  BY DEF BookInv, IdleUntilUp, Inside, Critical
<1>2. Others(w)'
  BY OthersInside DEF BookInv, Inside
<1>3. Held' = held'[w] /\ Freed' = FreedBy(w)'
  <2>1. Held' = held'[w]
    BY <1>2 DEF Others, Held
  <2>2. Freed' = FreedBy(w)'
    BY <1>2 DEF Others, Freed, FreedBy, ExclusivePrefixes, RowsWithId
  <2> QED
    BY <2>1, <2>2
<1>4. TreeAgrees'
  BY <1>3 DEF TreeAgrees
<1>5. HeldFits'
  BY <1>2 DEF HeldFits, Others, Fits
<1>6. HeldByRequest'
  BY DEF BookInv, HeldByRequest, HeldRight, Inside, Keeps
<1> QED
  BY <1>1, <1>4, <1>5, <1>6 DEF BookInv, Inside, IdleUntilUp

\* The trees as a step inside finds them.
LEMMA InsideTrees ==
  ASSUME TypeInv, BookInv, NEW w \in Handler, pc[w] \in Critical, NEW n \in Net
  PROVE  tree[n] = NewTree(n)
                     \cup (Paths(ExclusivePrefixes(subnets), n) \ Paths(FreedBy(w), n))
                     \cup Paths(held[w], n)
<1>1. boot = "up"
  BY DEF BookInv, IdleUntilUp, Critical
<1>2. Held = held[w] /\ Freed = FreedBy(w)
  BY OthersInside, OnlyMine DEF BookInv
<1> QED
  BY <1>1, <1>2 DEF BookInv, TreeAgrees

\* A step that moves neither rows nor trees nor the claim of w.
LEMMA StayMove ==
  ASSUME TypeInv, BookInv, NEW w \in Handler, Inside(w),
         UNCHANGED <<tree, subnets>>, held'[w] = held[w],
         pc[w] # "dropRow", pc'[w] # "dropRow"
  PROVE  BookInv'
<1>1. RowsFit' /\ Fits(held[w])'
  BY DEF BookInv, RowsFit, HeldFits, Fits
<1>2. FreedBy(w) = {} /\ FreedBy(w)' = {}
  BY DEF FreedBy
<1>3. pc[w] \in Critical
  BY DEF Inside
<1> QED
  BY <1>1, <1>2, <1>3, InsideTrees, InsideMove

\* A step that puts prefixes into the trees that are clear of them.
LEMMA TakeMove ==
  ASSUME TypeInv, BookInv, NEW w \in Handler, Inside(w),
         NEW S \in SUBSET Prefix,
         \A p \in S : p.net \in Net /\ Clear(tree[p.net], p.path),
         \A p, q \in S : p # q /\ p.net = q.net => ~Overlap(p.path, q.path),
         held[w] = {}, held'[w] = S, tree' = Put(tree, S), UNCHANGED subnets,
         pc[w] # "dropRow", pc'[w] # "dropRow"
  PROVE  BookInv'
<1>1. FreedBy(w) = {} /\ FreedBy(w)' = {}
  BY DEF FreedBy
<1>2. pc[w] \in Critical
  BY DEF Inside
<1>3. \A n \in Net : Paths({}, n) = {}
  BY DEF Paths
<1>4. \A n \in Net : tree[n] = NewTree(n) \cup Paths(ExclusivePrefixes(subnets), n)
  BY <1>1, <1>2, <1>3, InsideTrees
<1>5. Fits(S)'
  <2>1. ASSUME NEW p \in S
        PROVE  \A q \in ExclusivePrefixes(subnets) : q.net = p.net => ~Overlap(p.path, q.path)
    BY <1>4, PathsMember DEF Clear
  <2>2. ASSUME NEW p \in S
        PROVE  Clear(NewTree(p.net), p.path)
    BY <1>4 DEF Clear
  <2>3. UNCHANGED ExclusivePrefixes(subnets)
    OBVIOUS
  <2> QED
    BY <2>1, <2>2, <2>3 DEF Fits
<1>6. \A n \in Net : tree'[n] = tree[n] \cup Paths(S, n)
  BY DEF Put, TypeInv, TypeOK, MemTyped
<1>7. RowsFit'
  BY DEF BookInv, RowsFit
<1>8. UNCHANGED ExclusivePrefixes(subnets)
  OBVIOUS
<1> QED
  BY <1>1, <1>3, <1>4, <1>5, <1>6, <1>7, <1>8, InsideMove

\* A step that takes the claim of w out of the trees again.
LEMMA GiveBackMove ==
  ASSUME TypeInv, BookInv, NEW w \in Handler, Inside(w),
         held'[w] = {}, tree' = Drop(tree, held[w]), UNCHANGED subnets,
         pc[w] # "dropRow", pc'[w] # "dropRow"
  PROVE  BookInv'
<1>1. FreedBy(w) = {} /\ FreedBy(w)' = {}
  BY DEF FreedBy
<1>2. pc[w] \in Critical
  BY DEF Inside
<1>3. \A n \in Net : Paths({}, n) = {}
  BY DEF Paths
<1>4. \A n \in Net : tree[n] = NewTree(n) \cup Paths(ExclusivePrefixes(subnets), n)
                                 \cup Paths(held[w], n)
  BY <1>1, <1>2, <1>3, InsideTrees
<1>5. held[w] \subseteq Prefix /\ Fits(held[w])
  BY DEF TypeInv, TypeOK, HandlersTyped, BookInv, HeldFits
<1>6. ASSUME NEW n \in Net, NEW x \in Paths(held[w], n)
      PROVE  x \notin NewTree(n) /\ x \notin Paths(ExclusivePrefixes(subnets), n)
  <2>1. PICK p \in held[w] : p.net = n /\ p.path = x
    BY <1>6, PathsMember
  <2>2. Overlap(x, x)
    BY <1>5, <2>1, OverlapReflexive
  <2> QED
    BY <1>5, <2>1, <2>2, PathsMember DEF Fits, Clear
<1>7. \A n \in Net : tree'[n] = tree[n] \ Paths(held[w], n)
  BY DEF Drop, TypeInv, TypeOK, MemTyped
<1>8. RowsFit' /\ Fits(held[w])'
  BY DEF BookInv, RowsFit, Fits
<1>9. UNCHANGED ExclusivePrefixes(subnets)
  OBVIOUS
<1> QED
  BY <1>1, <1>3, <1>4, <1>6, <1>7, <1>8, <1>9, InsideMove

\* A step that turns the claim of w into rows.
LEMMA BookMove ==
  ASSUME TypeInv, BookInv, NEW w \in Handler, Inside(w),
         NEW R, subnets' = subnets \cup R, ExclusivePrefixes(R) = held[w],
         \A r, s \in R : r # s /\ ~r.may /\ ~s.may /\ r.prefix.net = s.prefix.net
                           => ~Overlap(s.prefix.path, r.prefix.path),
         held'[w] = {}, UNCHANGED tree,
         pc[w] # "dropRow", pc'[w] # "dropRow"
  PROVE  BookInv'
<1>1. FreedBy(w) = {} /\ FreedBy(w)' = {}
  BY DEF FreedBy
<1>2. pc[w] \in Critical
  BY DEF Inside
<1>3. \A n \in Net : Paths({}, n) = {}
  BY DEF Paths
<1>4. \A n \in Net : tree[n] = NewTree(n) \cup Paths(ExclusivePrefixes(subnets), n)
                                 \cup Paths(held[w], n)
  BY <1>1, <1>2, <1>3, InsideTrees
<1>5. ExclusivePrefixes(subnets') = ExclusivePrefixes(subnets) \cup held[w]
  BY DEF ExclusivePrefixes
<1>6. Fits(held[w])
  BY DEF BookInv, HeldFits
<1>7. \A r \in R : ~r.may => r.prefix \in held[w]
  BY DEF ExclusivePrefixes
<1>8. \A r \in subnets : ~r.may => r.prefix \in ExclusivePrefixes(subnets)
  BY DEF ExclusivePrefixes
<1>9. RowsFit'
  <2> SUFFICES ASSUME NEW r \in subnets', ~r.may
               PROVE  /\ r.prefix.net \in Net
                      /\ Clear(NewTree(r.prefix.net), r.prefix.path)
                      /\ \A s \in subnets' \ {r} :
                           ~s.may /\ s.prefix.net = r.prefix.net
                             => ~Overlap(s.prefix.path, r.prefix.path)
    BY DEF RowsFit
  <2>1. r.prefix.net \in Net /\ Clear(NewTree(r.prefix.net), r.prefix.path)
    BY <1>6, <1>7 DEF BookInv, RowsFit, Fits
  <2>2. ASSUME NEW s \in subnets' \ {r}, ~s.may, s.prefix.net = r.prefix.net
        PROVE  ~Overlap(s.prefix.path, r.prefix.path)
    <3>1. CASE r \in subnets /\ s \in subnets
      BY <2>2, <3>1 DEF BookInv, RowsFit
    <3>2. CASE r \in R /\ s \in R
      BY <2>2, <3>2
    <3>3. CASE r \in R /\ s \in subnets
      BY <1>6, <1>7, <1>8, <2>2, <3>3, OverlapSymmetric DEF Fits
    <3>4. CASE r \in subnets /\ s \in R
      BY <1>6, <1>7, <1>8, <2>2, <3>4 DEF Fits
    <3> QED
      BY <2>2, <3>1, <3>2, <3>3, <3>4
  <2> QED
    BY <2>1, <2>2
<1>10. Fits(held[w])'
  BY DEF Fits
<1>11. ASSUME NEW n \in Net
       PROVE  /\ tree'[n] = NewTree(n) \cup Paths(ExclusivePrefixes(subnets'), n)
              /\ Paths(FreedBy(w)', n) = {} /\ Paths(held'[w], n) = {}
  <2>1. Paths(ExclusivePrefixes(subnets'), n)
          = Paths(ExclusivePrefixes(subnets), n) \cup Paths(held[w], n)
    BY <1>5, PathsUnion
  <2> QED
    BY <1>1, <1>3, <1>4, <2>1
<1> QED
  BY <1>9, <1>10, <1>11, InsideMove

\* The first half of DELETE of a subnet: what it takes out of the trees counts as
\* freed until the row goes.
LEMMA FreeMove ==
  ASSUME TypeInv, BookInv, NEW w \in Handler, Inside(w),
         pc[w] = "deleteSubnet", pc'[w] = "dropRow", held'[w] = held[w], req'[w] = req[w],
         tree' = Drop(tree, ExclusivePrefixes(RowsWithId(req[w].id))), UNCHANGED subnets
  PROVE  BookInv'
<1> DEFINE Gone == ExclusivePrefixes(RowsWithId(req[w].id))
<1>1. held[w] = {}
  BY DEF BookInv, HeldByRequest, HeldRight, Listing
<1>2. FreedBy(w) = {} /\ FreedBy(w)' = Gone
  BY DEF FreedBy, RowsWithId
<1>3. pc[w] \in Critical
  BY DEF Inside
<1>4. \A n \in Net : Paths({}, n) = {}
  BY DEF Paths
<1>5. \A n \in Net : tree[n] = NewTree(n) \cup Paths(ExclusivePrefixes(subnets), n)
  BY <1>1, <1>2, <1>3, <1>4, InsideTrees
<1>6. \A n \in Net : tree'[n] = tree[n] \ Paths(Gone, n)
  BY DEF Drop, TypeInv, TypeOK, MemTyped
<1>7. \A n \in Net : NewTree(n) \cap Paths(Gone, n) = {}
  <2> SUFFICES ASSUME NEW n \in Net, NEW x \in Paths(Gone, n), x \in NewTree(n)
               PROVE  FALSE
    OBVIOUS
  <2>1. PICK p \in Gone : p.net = n /\ p.path = x
    BY PathsMember
  <2>2. PICK r \in subnets : ~r.may /\ r.prefix = p
    BY <2>1 DEF ExclusivePrefixes, RowsWithId
  <2>3. p \in Prefix
    BY <2>2 DEF TypeInv, TypeOK, DbTyped
  <2> QED
    BY <2>1, <2>2, <2>3, OverlapReflexive DEF BookInv, RowsFit, Clear
<1>8. RowsFit' /\ Fits(held[w])'
  BY DEF BookInv, RowsFit, HeldFits, Fits
<1>9. UNCHANGED ExclusivePrefixes(subnets)
  OBVIOUS
<1> HIDE DEF Gone
<1>10. ASSUME NEW n \in Net
       PROVE  /\ tree'[n] = NewTree(n)
                     \cup (Paths(ExclusivePrefixes(subnets), n) \ Paths(Gone, n))
              /\ Paths(held'[w], n) = {}
  BY <1>1, <1>4, <1>5, <1>6, <1>7
<1> QED
  BY <1>2, <1>8, <1>9, <1>10, InsideMove

\* The second half: the row goes, and what its prefix was stays free.
LEMMA UnbookMove ==
  ASSUME TypeInv, BookInv, NEW w \in Handler, Inside(w),
         pc[w] = "dropRow", pc'[w] # "dropRow", held'[w] = {},
         subnets' = subnets \ RowsWithId(req[w].id), UNCHANGED tree
  PROVE  BookInv'
<1> DEFINE Gone == ExclusivePrefixes(RowsWithId(req[w].id))
<1>1. held[w] = {}
  BY DEF BookInv, HeldByRequest, HeldRight, Listing
<1>2. FreedBy(w) = Gone /\ FreedBy(w)' = {}
  BY DEF FreedBy
<1>3. pc[w] \in Critical
  BY DEF Inside
<1>4. \A n \in Net : Paths({}, n) = {}
  BY DEF Paths
<1>5. ASSUME NEW r \in subnets, NEW s \in subnets, ~r.may, ~s.may, r.prefix = s.prefix
      PROVE  r = s
  <2>1. s.prefix \in Prefix
    BY DEF TypeInv, TypeOK, DbTyped
  <2> QED
    BY <1>5, <2>1, OverlapReflexive DEF BookInv, RowsFit
<1>6. ExclusivePrefixes(subnets') = ExclusivePrefixes(subnets) \ Gone
  BY <1>5 DEF ExclusivePrefixes, RowsWithId
<1>7. Gone \subseteq Prefix /\ ExclusivePrefixes(subnets) \subseteq Prefix
  BY DEF ExclusivePrefixes, RowsWithId, TypeInv, TypeOK, DbTyped
<1>8. RowsFit' /\ Fits(held[w])'
  BY DEF BookInv, RowsFit, Fits
<1> HIDE DEF Gone
<1>9. ASSUME NEW n \in Net
      PROVE  /\ tree'[n] = NewTree(n) \cup Paths(ExclusivePrefixes(subnets'), n)
             /\ Paths(held'[w], n) = {} /\ Paths(FreedBy(w)', n) = {}
  <2>1. tree[n] = NewTree(n) \cup (Paths(ExclusivePrefixes(subnets), n) \ Paths(Gone, n))
    BY <1>1, <1>2, <1>3, <1>4, InsideTrees
  <2>2. Paths(ExclusivePrefixes(subnets'), n)
          = Paths(ExclusivePrefixes(subnets), n) \ Paths(Gone, n)
    BY <1>6, <1>7, PathsMinus
  <2> QED
    BY <1>2, <1>4, <2>1, <2>2
<1> QED
  BY <1>8, <1>9, InsideMove

-----------------------------------------------------------------------------
(* The steps of the node                                                   *)

\* Steps of a handler outside its critical section, or into it.
LEMMA OutsideBooks ==
  ASSUME TypeInv, BookInv, Alone', NEW w \in Handler,
         Receive(w) \/ LockDb(w) \/ Finish(w)
  PROVE  BookInv'
<1>0. Keeps(w) /\ boot' = boot
  BY HandlerKeeps DEF TakeMutex, HandlerStep
<1>1. /\ UNCHANGED <<tree, subnets, held>>
      /\ pc[w] \notin Critical
      /\ pc'[w] # "dropRow" /\ HeldRight(w)' /\ boot = "up"
  BY RequestAssumption
  DEF Receive, LockDb, Finish, dbVars, memVars, Goto, HeldRight, Listing, Critical, BookInv,
      HeldByRequest, IdleUntilUp, TypeInv, TypeOK, HandlersTyped, Request
<1>2. Held' = Held
  BY <1>1 DEF Held
<1>3. \A v \in Handler : pc'[v] = "dropRow" <=> pc[v] = "dropRow"
  BY <1>0, <1>1 DEF Keeps, Critical
<1>4. \A v \in Handler : pc'[v] = "dropRow" => req'[v] = req[v]
  BY <1>0, <1>1 DEF Keeps
<1>5. Freed' = Freed
  BY <1>1, <1>3, <1>4 DEF Freed
<1>6. TreeAgrees'
  BY <1>0, <1>1, <1>2, <1>5 DEF BookInv, TreeAgrees
<1>7. RowsFit' /\ HeldFits'
  BY <1>1 DEF BookInv, RowsFit, HeldFits, Fits
<1>8. HeldByRequest'
  BY <1>0, <1>1 DEF BookInv, HeldByRequest, HeldRight, Keeps
<1>9. IdleUntilUp'
  BY <1>0, <1>1 DEF IdleUntilUp
<1> QED
  BY <1>6, <1>7, <1>8, <1>9 DEF BookInv

\* Steps inside that concern neither rows nor trees.
QuietStep(w) ==
  \/ AddRow(w) \/ AddSubnetRows(w) \/ AddPutPeer(w) \/ AddPutNew(w) \/ AddUncache(w)
  \/ DeleteRow(w) \/ DeleteFromWg(w)
  \/ UpdateRow(w) \/ UpdateReset(w) \/ UpdatePut(w) \/ GetRow(w)

\* A step that touches no row, no tree and no request leaves the books as they are.
LEMMA QuietBooks ==
  ASSUME TypeInv, BookInv, Alone', NEW w \in Handler, QuietStep(w)
  PROVE  BookInv'
<1> USE DEF HeldRight, Listing, Critical
<1>0. HeldRight(w) /\ pc \in [Handler -> {"idle", "wait", "done"} \cup Critical]
      /\ held \in [Handler -> SUBSET Prefix] /\ list \in [Handler -> Seq(Subnet)]
      /\ req \in [Handler -> Request \cup {NoRequest}]
  BY DEF BookInv, HeldByRequest, TypeInv, TypeOK, HandlersTyped
<1> DEFINE Quiet ==
      /\ UNCHANGED <<tree, subnets>> /\ held'[w] = held[w]
      /\ pc[w] # "dropRow" /\ pc'[w] # "dropRow"
      /\ pc[w] \in Critical /\ HeldRight(w)'
<1>1. ASSUME AddRow(w)
      PROVE  Quiet
  BY <1>0, <1>1 DEF AddRow, Goto, Fail, dbVars, memVars
<1>2. ASSUME AddSubnetRows(w)
      PROVE  Quiet
  BY <1>0, <1>2 DEF AddSubnetRows, Goto, Fail, dbVars, memVars
<1>3. ASSUME AddPutPeer(w)
      PROVE  Quiet
  BY <1>0, <1>3 DEF AddPutPeer, Goto, Fail, dbVars, memVars
<1>4. ASSUME AddPutNew(w)
      PROVE  Quiet
  BY <1>0, <1>4 DEF AddPutNew, Goto, Fail, dbVars
<1>5. ASSUME AddUncache(w)
      PROVE  Quiet
  BY <1>0, <1>5 DEF AddUncache, Goto, UnlockAndRespond, Respond, dbVars
<1>6. ASSUME DeleteRow(w)
      PROVE  Quiet
  BY <1>0, <1>6 DEF DeleteRow, Goto, UnlockAndRespond, Respond, Continue, memVars
<1>7. ASSUME DeleteFromWg(w)
      PROVE  Quiet
  BY <1>0, <1>7 DEF DeleteFromWg, Goto, UnlockAndRespond, Respond, dbVars, memVars
<1>8. ASSUME UpdateRow(w)
      PROVE  Quiet
  BY <1>0, <1>8 DEF UpdateRow, Goto, UnlockAndRespond, Respond, Continue, memVars
<1>9. ASSUME UpdateReset(w)
      PROVE  Quiet
  BY <1>0, <1>9 DEF UpdateReset, Goto, UnlockAndRespond, Respond, Continue, dbVars, memVars
<1>10. ASSUME UpdatePut(w)
      PROVE  Quiet
  BY <1>0, <1>10 DEF UpdatePut, Goto, UnlockAndRespond, Respond, dbVars, memVars
<1>11. ASSUME GetRow(w)
      PROVE  Quiet
  BY <1>0, <1>11 DEF GetRow, Goto, UnlockAndRespond, Respond, dbVars, memVars
<1>12. Quiet
  BY <1>1, <1>2, <1>3, <1>4, <1>5, <1>6, <1>7, <1>8, <1>9, <1>10, <1>11 DEF QuietStep
<1>13. Keeps(w) /\ boot' = boot
  BY HandlerKeeps DEF QuietStep, HandlerStep, TakeMutex
<1> QED
  BY <1>12, <1>13, StayMove DEF Inside

\* The loop of POST /peers over its list: when nothing is refused, what it has
\* reserved is what was wanted, and no two items overlap.
LEMMA ReservedAll ==
  ASSUME NEW l \in Seq(Subnet), Refused(l) = {}
  PROVE  ReservedBy(l) = Wanted(l) /\ ListApart(l)
<1>1. ReservedBy(l) = Wanted(l)
  BY DEF ReservedBy, Wanted
<1>2. ASSUME NEW i \in DOMAIN l, NEW j \in DOMAIN l, j < i, ~l[i].may, ~l[j].may,
             l[i].prefix.net = l[j].prefix.net
      PROVE  ~Overlap(l[j].prefix.path, l[i].prefix.path)
  <2>1. j \in 1..i - 1
    BY <1>2
  <2> QED
    BY <1>2, <2>1 DEF Refused
<1>3. ListApart(l)
  <2> SUFFICES ASSUME NEW i \in DOMAIN l, NEW j \in DOMAIN l, i # j, ~l[i].may, ~l[j].may,
                      l[i].prefix.net = l[j].prefix.net
               PROVE  ~Overlap(l[i].prefix.path, l[j].prefix.path)
    BY DEF ListApart
  <2>1. i < j \/ j < i
    OBVIOUS
  <2> QED
    BY <1>2, <2>1, OverlapSymmetric
<1> QED
  BY <1>1, <1>3

\* What the loop has reserved when it ends, refused or not, is clear of the trees
\* and of itself.
LEMMA ReservedClear ==
  ASSUME TypeInv, NEW l \in Seq(Subnet)
  PROVE  /\ \A p \in ReservedBy(l) : p.net \in Net /\ Clear(tree[p.net], p.path)
         /\ \A p, q \in ReservedBy(l) :
              p # q /\ p.net = q.net => ~Overlap(p.path, q.path)
<1>1. ASSUME NEW p \in ReservedBy(l)
      PROVE  \E i \in DOMAIN l : ~l[i].may /\ i \notin Refused(l) /\ l[i].prefix = p
  BY DEF ReservedBy
<1>2. \A p \in ReservedBy(l) : p.net \in Net
  BY <1>1 DEF Refused, Reservable, TypeInv, TypeOK, MemTyped
<1>3. ASSUME NEW p \in ReservedBy(l)
      PROVE  Clear(tree[p.net], p.path)
  BY <1>1 DEF Refused, Reservable
<1>4. ASSUME NEW p \in ReservedBy(l), NEW q \in ReservedBy(l), p # q, p.net = q.net
      PROVE  ~Overlap(p.path, q.path)
  <2>1. ReservedBy(l) \subseteq Prefix
    BY ReservedTyped
  <2>2. p.path # q.path
    BY <1>4, <2>1, PathsInjective
  <2>3. p.path \in Paths(ReservedBy(l), p.net) /\ q.path \in Paths(ReservedBy(l), p.net)
    BY <1>4, PathsMember
  <2> QED
    BY <1>2, <2>2, <2>3, ReservedApart DEF Apart
<1> QED
  BY <1>2, <1>3, <1>4

\* AssignRandomInEachNet reserves one free address of each net and lists them.
LEMMA PickedClear ==
  ASSUME TypeInv, NEW pick \in FreePicks(Heights, tree)
  PROVE  /\ \A p \in Picked(pick) : p.net \in Net /\ Clear(tree[p.net], p.path)
         /\ \A p, q \in Picked(pick) : p # q /\ p.net = q.net => ~Overlap(p.path, q.path)
<1>1. DOMAIN pick = Net /\ \A n \in Net : Clear(tree[n], pick[n])
  BY NetFacts DEF FreePicks
<1> QED
  BY <1>1 DEF Picked

\* What a random assignment takes is what the rows it is going to insert ask for.
LEMMA PickedWanted ==
  ASSUME NEW pick, DOMAIN pick = Net,
         NEW l, l = [n \in Net |-> [prefix |-> [net |-> n, path |-> pick[n]], may |-> FALSE]]
  PROVE  Picked(pick) = Wanted(l) /\ ListApart(l)
<1>1. DOMAIN l = Net /\ \A n \in Net : l[n] = [prefix |-> [net |-> n, path |-> pick[n]], may |-> FALSE]
  OBVIOUS
<1> QED
  BY <1>1 DEF Picked, Wanted, ListApart

\* Steps inside that put something into the trees.
LEMMA TakingBooks ==
  ASSUME TypeInv, BookInv, Alone', NEW w \in Handler,
         AddReserve(w) \/ AddAssignRandom(w) \/ ReserveInTree(w)
  PROVE  BookInv'
<1> USE DEF Listing, Critical
<1>0. /\ HeldRight(w) /\ pc \in [Handler -> {"idle", "wait", "done"} \cup Critical]
      /\ held \in [Handler -> SUBSET Prefix] /\ list \in [Handler -> Seq(Subnet)]
      /\ req \in [Handler -> Request \cup {NoRequest}]
  BY DEF BookInv, HeldByRequest, TypeInv, TypeOK, HandlersTyped
<1>1. pc[w] \in {"addReserve", "reserve"} /\ held[w] = {}
  BY <1>0 DEF AddReserve, AddAssignRandom, ReserveInTree, HeldRight
<1>2. Keeps(w) /\ boot' = boot
  BY HandlerKeeps DEF HandlerStep
<1>3. CASE AddReserve(w)
  <2> DEFINE S == ReservedBy(list[w])
  <2>1. list[w] \in Seq(Subnet) /\ S \in SUBSET Prefix
    BY <1>0, ReservedTyped
  <2>2. /\ held'[w] = S /\ tree' = Put(tree, S) /\ UNCHANGED <<subnets, list>>
        /\ \/ Refused(list[w]) = {} /\ pc'[w] = "addSubnets"
           \/ pc'[w] = "rollback"
    BY <1>0, <1>3 DEF AddReserve, Goto, Fail, dbVars
  <2>3. HeldRight(w)'
    BY <2>1, <2>2, ReservedAll DEF HeldRight
  <2> HIDE DEF S
  <2>4. /\ \A p \in S : p.net \in Net /\ Clear(tree[p.net], p.path)
        /\ \A p, q \in S : p # q /\ p.net = q.net => ~Overlap(p.path, q.path)
    BY <2>1, ReservedClear DEF S
  <2>5. pc[w] # "dropRow" /\ pc'[w] # "dropRow" /\ Inside(w)
    BY <1>1, <1>2, <2>2, <2>3 DEF Inside
  <2> QED
    BY <1>1, <2>1, <2>2, <2>4, <2>5, TakeMove
<1>4. CASE AddAssignRandom(w)
  <2>1. ASSUME NEW pick \in FreePicks(Heights, tree),
               tree' = Put(tree, Picked(pick)), held'[w] = Picked(pick),
               list'[w] = [n \in Net |-> [prefix |-> [net |-> n, path |-> pick[n]],
                                          may |-> FALSE]],
               pc'[w] = "addSubnets"
        PROVE  BookInv'
    <3>1. Picked(pick) \in SUBSET Prefix
      BY <2>1, PickTyped
    <3>2. DOMAIN pick = Net
      BY NetFacts DEF FreePicks
    <3>3. HeldRight(w)'
      BY <2>1, <3>2, PickedWanted DEF HeldRight
    <3>4. pc[w] # "dropRow" /\ pc'[w] # "dropRow" /\ Inside(w)
      BY <1>1, <1>2, <2>1, <3>3 DEF Inside
    <3>5. UNCHANGED subnets
      BY <1>4 DEF AddAssignRandom, dbVars
    <3> QED
      BY <1>1, <2>1, <3>1, <3>4, <3>5, PickedClear, TakeMove
  <2>2. ASSUME UNCHANGED <<tree, held>>, pc'[w] = "rollback"
        PROVE  BookInv'
    <3>1. HeldRight(w)' /\ UNCHANGED subnets
      BY <1>1, <1>4, <2>2 DEF HeldRight, AddAssignRandom, dbVars
    <3>2. Inside(w)
      BY <1>1, <1>2, <3>1 DEF Inside
    <3> QED
      BY <1>1, <2>2, <3>1, <3>2, StayMove
  <2> QED
    BY <1>0, <1>4, <2>1, <2>2 DEF AddAssignRandom, Goto, Fail
<1>5. CASE ReserveInTree(w)
  <2> DEFINE S == IF req[w].sub.may THEN {} ELSE {req[w].sub.prefix}
  <2>0. S \in SUBSET Prefix
    BY <1>5 DEF ReserveInTree, TypeInv, RequestFits, Subnet
  <2>1. ASSUME req[w].sub.may \/ Reservable(tree, req[w].sub.prefix),
               tree' = Put(tree, S), held'[w] = S, pc'[w] = "reserveRow", UNCHANGED req
        PROVE  BookInv'
    <3>1. HeldRight(w)'
      BY <2>1 DEF HeldRight
    <3>2. /\ \A p \in S : p.net \in Net /\ Clear(tree[p.net], p.path)
          /\ \A p, q \in S : p # q /\ p.net = q.net => ~Overlap(p.path, q.path)
      BY <2>1 DEF Reservable, TypeInv, TypeOK, MemTyped
    <3>3. pc[w] # "dropRow" /\ pc'[w] # "dropRow" /\ Inside(w)
      BY <1>1, <1>2, <2>1, <3>1 DEF Inside
    <3>4. UNCHANGED subnets
      BY <1>5 DEF ReserveInTree, dbVars
    <3> HIDE DEF S
    <3> QED
      BY <1>1, <2>0, <2>1, <3>2, <3>3, <3>4, TakeMove
  <2>2. ASSUME UNCHANGED tree, held'[w] = {}, pc'[w] = "done"
        PROVE  BookInv'
    <3>1. HeldRight(w)' /\ UNCHANGED subnets
      BY <1>5, <2>2 DEF HeldRight, ReserveInTree, dbVars
    <3>2. Inside(w)
      BY <1>1, <1>2, <3>1 DEF Inside
    <3> QED
      BY <1>1, <2>2, <3>1, <3>2, StayMove
  <2> HIDE DEF S
  <2>3. \/ /\ req[w].sub.may \/ Reservable(tree, req[w].sub.prefix)
           /\ tree' = Put(tree, S) /\ held'[w] = S /\ pc'[w] = "reserveRow" /\ UNCHANGED req
        \/ UNCHANGED tree /\ held'[w] = {} /\ pc'[w] = "done"
    BY <1>0, <1>5 DEF ReserveInTree, Goto, UnlockAndRespond, Respond, S
  <2> QED
    BY <2>1, <2>2, <2>3
<1> QED
  BY <1>3, <1>4, <1>5

\* The exclusive prefix of a table with one row, if it is exclusive.
LEMMA OneRow ==
  ASSUME NEW r
  PROVE  ExclusivePrefixes({r}) = IF r.may THEN {} ELSE {r.prefix}
<1>1. CASE r.may
  BY <1>1 DEF ExclusivePrefixes
<1>2. CASE ~r.may
  BY <1>2 DEF ExclusivePrefixes
<1> QED
  BY <1>1, <1>2

\* The rows of a list are what was wanted of it, and apart if its items are.
LEMMA RowsOfList ==
  ASSUME NEW l \in Seq(Subnet), NEW owner, ListApart(l)
  PROVE  /\ ExclusivePrefixes(NewRows(l, owner)) = Wanted(l)
         /\ \A r, s \in NewRows(l, owner) :
              r # s /\ ~r.may /\ ~s.may /\ r.prefix.net = s.prefix.net
                => ~Overlap(s.prefix.path, r.prefix.path)
<1> DEFINE Row(i) == [id |-> nextSubnet + i - 1, prefix |-> l[i].prefix, owner |-> owner,
                      may |-> l[i].may]
<1>1. NewRows(l, owner) = { Row(i) : i \in DOMAIN l }
  BY DEF NewRows
<1>2. \A i \in DOMAIN l : Row(i).prefix = l[i].prefix /\ Row(i).may = l[i].may
  OBVIOUS
<1> HIDE DEF Row
<1>3. ExclusivePrefixes(NewRows(l, owner)) = Wanted(l)
  <2>1. ASSUME NEW p \in ExclusivePrefixes(NewRows(l, owner))
        PROVE  p \in Wanted(l)
    BY <1>1, <1>2 DEF ExclusivePrefixes, Wanted
  <2>2. ASSUME NEW p \in Wanted(l)
        PROVE  p \in ExclusivePrefixes(NewRows(l, owner))
    BY <1>1, <1>2 DEF ExclusivePrefixes, Wanted
  <2> QED
    BY <2>1, <2>2
<1>4. ASSUME NEW r \in NewRows(l, owner), NEW s \in NewRows(l, owner),
             r # s, ~r.may, ~s.may, r.prefix.net = s.prefix.net
      PROVE  ~Overlap(s.prefix.path, r.prefix.path)
  <2>1. PICK i \in DOMAIN l : r = Row(i)
    BY <1>1
  <2>2. PICK j \in DOMAIN l : s = Row(j)
    BY <1>1
  <2> QED
    BY <1>2, <1>4, <2>1, <2>2 DEF ListApart
<1> QED
  BY <1>3, <1>4

\* Steps inside that end a claim: a rollback, or rows in its place.
LEMMA EndingBooks ==
  ASSUME TypeInv, BookInv, Holding, Alone', NEW w \in Handler,
         AddCommit(w) \/ AddRollback(w) \/ ReserveRow(w)
  PROVE  BookInv'
<1> USE DEF Listing, Critical
<1>0. /\ HeldRight(w) /\ pc \in [Handler -> {"idle", "wait", "done"} \cup Critical]
      /\ held \in [Handler -> SUBSET Prefix] /\ list \in [Handler -> Seq(Subnet)]
      /\ req \in [Handler -> Request \cup {NoRequest}]
  BY DEF BookInv, HeldByRequest, TypeInv, TypeOK, HandlersTyped
<1>1. pc[w] \in {"addCommit", "rollback", "reserveRow"}
  BY DEF AddCommit, AddRollback, ReserveRow
<1>2. Keeps(w) /\ boot' = boot
  BY HandlerKeeps DEF HandlerStep
<1>3. CASE AddCommit(w)
  <2> DEFINE R == NewRows(list[w], nextPeer)
  <2>0. pc[w] = "addCommit" /\ UNCHANGED tree
    BY <1>3 DEF AddCommit, memVars
  <2>1. ASSUME subnets' = subnets \cup R, held'[w] = {}, pc'[w] = "done"
        PROVE  BookInv'
    <3>1. /\ ExclusivePrefixes(R) = held[w]
          /\ \A r, s \in R : r # s /\ ~r.may /\ ~s.may /\ r.prefix.net = s.prefix.net
                               => ~Overlap(s.prefix.path, r.prefix.path)
      BY <1>0, <2>0, RowsOfList DEF HeldRight
    <3>2. Inside(w)
      BY <1>1, <1>2, <2>1 DEF Inside, HeldRight
    <3> HIDE DEF R
    <3> QED
      BY <2>0, <2>1, <3>1, <3>2, BookMove
  <2>2. ASSUME UNCHANGED <<subnets, held>>, pc'[w] = "rollback"
        PROVE  BookInv'
    <3>1. Inside(w)
      BY <1>1, <1>2, <2>2 DEF Inside, HeldRight
    <3> QED
      BY <2>0, <2>2, <3>1, StayMove
  <2> QED
    <3>1. Unlockable
      BY <2>0, HoldsUnlocks DEF Holding
    <3> QED
      BY <1>0, <1>3, <2>1, <2>2, <3>1 DEF AddCommit, Goto, Fail, UnlockAndRespond, Respond, dbVars
<1>4. CASE AddRollback(w)
  <2>1. tree' = Drop(tree, held[w]) /\ held'[w] = {} /\ pc'[w] = "uncache" /\ UNCHANGED subnets
    BY <1>0, <1>4 DEF AddRollback, Goto, dbVars
  <2>2. Inside(w)
    BY <1>1, <1>2, <2>1 DEF Inside, HeldRight
  <2> QED
    BY <1>1, <2>1, <2>2, GiveBackMove
<1>5. CASE ReserveRow(w)
  <2> DEFINE R == NewRows(<<req[w].sub>>, 0)
  <2>0. pc[w] = "reserveRow" /\ pc'[w] = "done" /\ held'[w] = {}
    BY <1>0, <1>5 DEF ReserveRow, UnlockAndRespond, Respond, Goto
  <2>1. Inside(w)
    BY <1>1, <1>2, <2>0 DEF Inside, HeldRight
  <2>2. ASSUME subnets' = subnets \cup R, UNCHANGED tree
        PROVE  BookInv'
    <3>0. R = {[id |-> nextSubnet + 1 - 1, prefix |-> req[w].sub.prefix, owner |-> 0,
                may |-> req[w].sub.may]}
      BY DEF NewRows
    <3>1. held[w] = IF req[w].sub.may THEN {} ELSE {req[w].sub.prefix}
      BY <1>0, <2>0 DEF HeldRight
    <3>2. ExclusivePrefixes(R) = IF req[w].sub.may THEN {} ELSE {req[w].sub.prefix}
      <4> DEFINE r == [id |-> nextSubnet + 1 - 1, prefix |-> req[w].sub.prefix, owner |-> 0,
                       may |-> req[w].sub.may]
      <4>1. r.prefix = req[w].sub.prefix /\ r.may = req[w].sub.may /\ R = {r}
        BY <3>0
      <4> HIDE DEF r, R
      <4> QED
        BY <4>1, OneRow
    <3>3. \A r, s \in R : r = s
      BY <3>0
    <3> QED
      BY <2>0, <2>1, <2>2, <3>1, <3>2, <3>3, BookMove
  <2>3. ASSUME tree' = Drop(tree, held[w]), UNCHANGED subnets
        PROVE  BookInv'
    BY <2>0, <2>1, <2>3, GiveBackMove
  <2> QED
    BY <1>5, <2>2, <2>3 DEF ReserveRow
<1> QED
  BY <1>3, <1>4, <1>5

\* DELETE of a subnet, when the DELETE statement does not fail.
LEMMA UnbookingBooks ==
  ASSUME TypeInv, BookInv, Alone', "dropRow" \notin Faults, NEW w \in Handler,
         DeleteSubnetFromTree(w) \/ DeleteSubnetRow(w)
  PROVE  BookInv'
<1> USE DEF Listing, Critical
<1>0. /\ HeldRight(w) /\ pc \in [Handler -> {"idle", "wait", "done"} \cup Critical]
      /\ held \in [Handler -> SUBSET Prefix]
      /\ req \in [Handler -> Request \cup {NoRequest}]
  BY DEF BookInv, HeldByRequest, TypeInv, TypeOK, HandlersTyped
<1>1. pc[w] \in {"deleteSubnet", "dropRow"} /\ held[w] = {}
  BY <1>0 DEF DeleteSubnetFromTree, DeleteSubnetRow, HeldRight
<1>2. Keeps(w) /\ boot' = boot
  BY HandlerKeeps DEF HandlerStep
<1>3. CASE DeleteSubnetFromTree(w)
  <2>0. pc[w] = "deleteSubnet" /\ UNCHANGED subnets
    BY <1>3 DEF DeleteSubnetFromTree, dbVars
  <2>1. ASSUME tree' = Drop(tree, ExclusivePrefixes(RowsWithId(req[w].id))),
               pc'[w] = "dropRow", UNCHANGED <<held, req>>
        PROVE  BookInv'
    <3>1. Inside(w)
      BY <1>1, <1>2, <2>1 DEF Inside, HeldRight
    <3> QED
      BY <2>0, <2>1, <3>1, FreeMove
  <2>2. ASSUME UNCHANGED tree, held'[w] = {}, pc'[w] = "done"
        PROVE  BookInv'
    <3>1. Inside(w)
      BY <1>1, <1>2, <2>2 DEF Inside, HeldRight
    <3> QED
      BY <1>1, <2>0, <2>2, <3>1, StayMove
  <2> QED
    BY <1>0, <1>3, <2>1, <2>2 DEF DeleteSubnetFromTree, Goto, Continue, UnlockAndRespond, Respond
<1>4. CASE DeleteSubnetRow(w)
  <2>1. /\ pc[w] = "dropRow" /\ pc'[w] = "done" /\ held'[w] = {}
        /\ subnets' = subnets \ RowsWithId(req[w].id) /\ UNCHANGED tree
    BY <1>0, <1>4 DEF DeleteSubnetRow, UnlockAndRespond, Respond, Goto, memVars
  <2>2. Inside(w)
    BY <1>1, <1>2, <2>1 DEF Inside, HeldRight
  <2> QED
    BY <2>1, <2>2, UnbookMove
<1> QED
  BY <1>3, <1>4

\* The death of the process empties the trees and leaves the rows.
LEMMA GoneBooks ==
  ASSUME BookInv, ProcessGone
  PROVE  BookInv'
<1>1. /\ boot' = "down" /\ UNCHANGED subnets
      /\ \A w \in Handler : pc'[w] = "idle" /\ held'[w] = {}
  BY DEF ProcessGone, dbVars
<1>2. Alone' /\ IdleUntilUp'
  BY <1>1 DEF Alone, IdleUntilUp, Critical
<1>3. HeldByRequest' /\ HeldFits'
  BY <1>1 DEF HeldByRequest, HeldRight, HeldFits, Fits, Listing
<1>4. RowsFit' /\ TreeAgrees'
  BY <1>1 DEF BookInv, RowsFit, TreeAgrees
<1> QED
  BY <1>2, <1>3, <1>4 DEF BookInv

\* While the process starts no handler has anything in the trees.
LEMMA StartBooks ==
  ASSUME TypeInv, BookInv, StartStep
  PROVE  BookInv'
<1>1. CASE StartFailed
  BY <1>1, GoneBooks DEF StartFailed
<1>2. ASSUME ~StartFailed
      PROVE  BookInv'
  <2>1. UNCHANGED <<subnets, pc, req, list, held>> /\ boot # "up"
    BY <1>2 DEF StartStep, StartTrees, StartServing, StartRemove, StartPut, StartUndo,
                dbVars, handlerVars
  <2>2. \A w \in Handler : pc[w] = "idle" /\ held[w] = {}
    BY <2>1 DEF BookInv, IdleUntilUp, HeldByRequest, HeldRight, Listing
  <2>3. Held = {} /\ Freed = {} /\ Held' = {} /\ Freed' = {}
    BY <2>1, <2>2 DEF Held, Freed
  <2>4. \A n \in Net : Paths({}, n) = {}
    BY DEF Paths
  <2>5. ASSUME StartTrees, boot' \notin {"down", "refused"}, NEW n \in Net
        PROVE  tree'[n] = NewTree(n) \cup Paths(ExclusivePrefixes(subnets), n)
    BY <2>5 DEF StartTrees, Put
  <2>6. ASSUME ~StartTrees
        PROVE  UNCHANGED tree /\ boot \notin {"down", "refused"}
    BY <1>2, <2>6 DEF StartStep, StartServing, StartRemove, StartPut, StartUndo, memVars
  <2>7. TreeAgrees'
    BY <2>1, <2>3, <2>4, <2>5, <2>6 DEF BookInv, TreeAgrees
  <2>8. RowsFit' /\ HeldFits' /\ HeldByRequest' /\ Alone' /\ IdleUntilUp'
    BY <2>1, <2>2
    DEF BookInv, RowsFit, HeldFits, HeldByRequest, HeldRight, Fits, Alone, IdleUntilUp
  <2> QED
    BY <2>7, <2>8 DEF BookInv
<1> QED
  BY <1>1, <1>2

\* A step that changes nothing the books are about.
LEMMA IdleBooks ==
  ASSUME BookInv, UNCHANGED <<subnets, tree, pc, req, list, held, boot>>
  PROVE  BookInv'
<1>1. Held' = Held /\ Freed' = Freed
  BY DEF Held, Freed
<1>2. TreeAgrees' /\ RowsFit'
  BY <1>1 DEF BookInv, TreeAgrees, RowsFit
<1>3. HeldFits' /\ HeldByRequest'
  BY DEF BookInv, HeldFits, Fits, HeldByRequest, HeldRight
<1>4. Alone' /\ IdleUntilUp'
  BY DEF BookInv, Alone, IdleUntilUp
<1> QED
  BY <1>2, <1>3, <1>4 DEF BookInv

\* The invariant is inductive, given mutual exclusion.
LEMMA NextBooks ==
  ASSUME "dropRow" \notin Faults, TypeInv, BookInv, Holding, Alone', [Next]_vars
  PROVE  BookInv'
<1>1. CASE UNCHANGED vars
  BY <1>1, IdleBooks DEF vars, dbVars, memVars, handlerVars, procVars
<1>2. CASE ProcessGone
  BY <1>2, GoneBooks
<1>3. CASE CollectorStep
  <2>1. UNCHANGED <<subnets, tree, pc, req, list, held, boot>>
    BY <1>3 DEF CollectorStep, CollectDump, CollectLockCache, CollectWrite, dbVars, memVars,
                handlerVars
  <2> QED
    BY <2>1, IdleBooks
<1>4. ASSUME NEW w \in Handler, Receive(w) \/ TakeMutex(w) \/ HandlerStep(w)
      PROVE  BookInv'
  BY <1>4, OutsideBooks, QuietBooks, TakingBooks, EndingBooks, UnbookingBooks
  DEF TakeMutex, HandlerStep, QuietStep
<1> QED
  BY <1>1, <1>2, <1>3, <1>4, StartBooks DEF Next, Crash, FatalUnlock

-----------------------------------------------------------------------------
(* The theorems                                                            *)

\* At the first start there are no rows and nobody holds anything.
LEMMA InitBooks == Init => BookInv
<1> SUFFICES ASSUME Init
             PROVE  BookInv
  OBVIOUS
<1> USE DEF Init
<1>1. Alone /\ IdleUntilUp
  BY DEF Alone, IdleUntilUp, Critical
<1>2. HeldByRequest /\ HeldFits
  BY DEF HeldByRequest, HeldRight, HeldFits, Fits, Listing
<1>3. RowsFit /\ TreeAgrees
  BY DEF RowsFit, TreeAgrees
<1> QED
  BY <1>1, <1>2, <1>3 DEF BookInv

\* The books are right as long as no DELETE of a subnet's row fails (which leaves
\* the row of a prefix that its tree has given free) and no COMMIT fails beside
\* another handler.
LEMMA BooksBalance ==
  ASSUME CommitAlone, "dropRow" \notin Faults
  PROVE  Spec => []BookInv
<1>1. TypeInv /\ BookInv /\ Holding /\ Alone' /\ [Next]_vars => BookInv'
  BY NextBooks
<1>2. Spec => []TypeInv
  BY TypeInit, NextTyped, PTL DEF Spec
<1> QED
  BY <1>1, <1>2, HoldsMutex, OneInside, InitBooks, PTL DEF Spec

\* The trees hold the exclusive rows of the table, the networks' own hosts and what
\* requests under way have reserved, and nothing else: for any number of handlers,
\* whatever statement or command but those two fails, and over rollbacks and deaths
\* of the process, apiAddPeer, apiAddReservedSubnet and apiDeleteSubnet leak no
\* address and free none that is in use.  A failed COMMIT is covered where one
\* handler is all there is; beside others it is not true (claim_commit.cfg).
THEOREM TreesMatchTable ==
  ASSUME CommitAlone, "dropRow" \notin Faults
  PROVE  Spec => []TreeAgrees
<1>1. BookInv => TreeAgrees
  BY DEF BookInv
<1> QED
  BY <1>1, BooksBalance, PTL

\* Under the same conditions exclusive subnets never overlap: not two rows of the
\* table, not a row and the network's own hosts, not a row and a reservation that
\* has no row yet, not two such reservations of one request.
THEOREM RowsNeverOverlap ==
  ASSUME CommitAlone, "dropRow" \notin Faults
  PROVE  Spec => []ExclusiveDisjoint
<1>1. BookInv => ExclusiveDisjoint
  BY DEF BookInv, ExclusiveDisjoint, HeldFits, Fits
<1> QED
  BY <1>1, BooksBalance, PTL

\* So NewService accepts the rows the node has written, after every death of the
\* process: the node never refuses to start over them.
THEOREM StartNeverRefused ==
  ASSUME CommitAlone, "dropRow" \notin Faults
  PROVE  Spec => []StartupAccepts
<1>1. Init => StartupAccepts
  BY DEF Init, StartupAccepts
<1>2. ASSUME TypeInv, BookInv, StartupAccepts, [Next]_vars
      PROVE  StartupAccepts'
  <2>1. CASE UNCHANGED vars
    BY <1>2, <2>1 DEF vars, procVars, StartupAccepts
  <2>2. CASE ProcessGone
    BY <2>2 DEF ProcessGone, StartupAccepts
  <2>3. CASE CollectorStep
    BY <1>2, <2>3
    DEF CollectorStep, CollectDump, CollectLockCache, CollectWrite, StartupAccepts
  <2>4. CASE StartStep
    BY <1>2, <2>4
    DEF StartStep, StartTrees, StartServing, StartFailed, StartRemove, StartPut, StartUndo,
        ProcessGone, BookInv, StartupAccepts
  <2>5. ASSUME NEW w \in Handler, Receive(w) \/ TakeMutex(w) \/ HandlerStep(w)
        PROVE  StartupAccepts'
    BY <1>2, <2>5, HandlerKeeps DEF StartupAccepts
  <2> QED
    BY <1>2, <2>1, <2>2, <2>3, <2>4, <2>5 DEF Next, Crash, FatalUnlock
<1>3. TypeInv /\ BookInv /\ StartupAccepts /\ [Next]_vars => StartupAccepts'
  BY <1>2
<1>4. Spec => []TypeInv
  BY TypeInit, NextTyped, PTL DEF Spec
<1> QED
  BY <1>1, <1>3, <1>4, BooksBalance, PTL DEF Spec

-----------------------------------------------------------------------------
(* The row ids of the statistics cache                                     *)

\* From AddRow to COMMIT the key has no row; when COMMIT comes, the cache has the
\* row id that it is going to insert.
AddingRight(w) ==
  /\ pc[w] \in Listing \cup {"addReserve"} => peerId[req[w].key] = 0
  /\ pc[w] = "addCommit" => cache[req[w].key] = nextPeer

CacheInv == CacheIds /\ IdleUntilUp /\ \A w \in Handler : AddingRight(w)

\* A step inside leaves to show what becomes of the cache and of w's own key.
LEMMA InsideCache ==
  ASSUME TypeInv, CacheInv, Alone, NEW w \in Handler, pc[w] \in Critical,
         Keeps(w), boot' = boot, CacheIds', AddingRight(w)'
  PROVE  CacheInv'
<1>1. boot = "up"
  BY DEF CacheInv, IdleUntilUp, Critical
<1>2. \A v \in Handler \ {w} : pc'[v] \notin Listing \cup {"addReserve"}
  BY DEF Alone, Keeps, Critical, Listing
<1> QED
  BY <1>1, <1>2 DEF CacheInv, IdleUntilUp, AddingRight, Listing

\* Steps of a handler that write the cache or the row ids of the peers.
LEMMA HandlerCache ==
  ASSUME TypeInv, CacheInv, Alone, NEW w \in Handler,
         AddRow(w) \/ AddReserve(w) \/ AddAssignRandom(w) \/ AddSubnetRows(w) \/ AddPutPeer(w)
           \/ AddPutNew(w) \/ AddCommit(w) \/ AddRollback(w) \/ AddUncache(w) \/ DeleteRow(w)
  PROVE  CacheInv'
<1> USE DEF Listing, AddingRight, CacheIds, Goto, Fail
<1>0. /\ CacheIds /\ AddingRight(w)
      /\ pc \in [Handler -> {"idle", "wait", "done"} \cup Critical]
      /\ peerId \in [Key -> Nat] /\ cache \in [Key -> Nat]
      /\ req \in [Handler -> Request \cup {NoRequest}]
  BY DEF CacheInv, TypeInv, TypeOK, HandlersTyped, DbTyped, MemTyped
<1>1. req[w].key \in Key
  BY DEF TypeInv, RequestFits, KeyPcs, AddRow, AddReserve, AddAssignRandom, AddSubnetRows,
         AddPutPeer, AddPutNew, AddCommit, AddRollback, AddUncache, DeleteRow
<1> DEFINE Goal == pc[w] \in Critical /\ CacheIds' /\ AddingRight(w)'
<1>2. ASSUME AddRow(w)
      PROVE  Goal
  BY <1>0, <1>1, <1>2 DEF AddRow, dbVars, memVars, Critical
<1>3. ASSUME AddReserve(w) \/ AddAssignRandom(w)
      PROVE  Goal
  BY <1>0, <1>1, <1>3 DEF AddReserve, AddAssignRandom, dbVars, Critical
<1>4. ASSUME AddSubnetRows(w) \/ AddPutPeer(w)
      PROVE  Goal
  BY <1>0, <1>1, <1>4 DEF AddSubnetRows, AddPutPeer, dbVars, memVars, Critical
<1>5. ASSUME AddPutNew(w)
      PROVE  Goal
  BY <1>0, <1>1, <1>5 DEF AddPutNew, CachePut, dbVars, Critical
<1>6. ASSUME AddCommit(w)
      PROVE  Goal
  BY <1>0, <1>1, <1>6 DEF AddCommit, UnlockAndRespond, Respond, dbVars, memVars, Critical
<1>7. ASSUME AddRollback(w) \/ AddUncache(w)
      PROVE  Goal
  BY <1>0, <1>1, <1>7 DEF AddRollback, AddUncache, UnlockAndRespond, Respond, dbVars, Critical
<1>8. ASSUME DeleteRow(w)
      PROVE  Goal
  BY <1>0, <1>1, <1>8
  DEF DeleteRow, UnlockAndRespond, Respond, Continue, memVars, Critical
<1>9. Goal
  BY <1>2, <1>3, <1>4, <1>5, <1>6, <1>7, <1>8
<1> HIDE DEF AddingRight, CacheIds
<1>10. Keeps(w) /\ boot' = boot
  BY <1>9, HandlerKeeps DEF HandlerStep, TakeMutex
<1> QED
  BY <1>9, <1>10, InsideCache

\* The other steps of a handler leave the cache and the table of peers alone.
LEMMA OtherCache ==
  ASSUME TypeInv, CacheInv, NEW w \in Handler,
         \/ Receive(w) \/ LockDb(w) \/ Finish(w) \/ DeleteFromWg(w)
         \/ UpdateRow(w) \/ UpdateReset(w) \/ UpdatePut(w) \/ GetRow(w)
         \/ ReserveInTree(w) \/ ReserveRow(w) \/ DeleteSubnetFromTree(w) \/ DeleteSubnetRow(w)
  PROVE  CacheInv'
<1> DEFINE Goal ==
      /\ boot = "up" /\ UNCHANGED <<peerId, nextPeer, cache>>
      /\ pc'[w] \notin Listing \cup {"addReserve"}
<1> USE DEF Listing, Goto, UnlockAndRespond, Respond, Continue, dbVars, memVars
<1>0. /\ IdleUntilUp
      /\ pc \in [Handler -> {"idle", "wait", "done"} \cup Critical]
  BY DEF CacheInv, TypeInv, TypeOK, HandlersTyped
<1>1. ASSUME Receive(w) \/ LockDb(w) \/ Finish(w)
      PROVE  Goal
  BY <1>0, <1>1 DEF Receive, LockDb, Finish, Request, IdleUntilUp
<1>2. ASSUME DeleteFromWg(w) \/ UpdateRow(w) \/ UpdateReset(w) \/ UpdatePut(w) \/ GetRow(w)
      PROVE  Goal
  BY <1>0, <1>2 DEF DeleteFromWg, UpdateRow, UpdateReset, UpdatePut, GetRow, IdleUntilUp
<1>3. ASSUME \/ ReserveInTree(w) \/ ReserveRow(w)
             \/ DeleteSubnetFromTree(w) \/ DeleteSubnetRow(w)
      PROVE  Goal
  BY <1>0, <1>3
  DEF ReserveInTree, ReserveRow, DeleteSubnetFromTree, DeleteSubnetRow, IdleUntilUp
<1>4. Goal
  BY <1>1, <1>2, <1>3
<1> HIDE DEF Goto, Respond, Continue
<1>5. Keeps(w) /\ boot' = boot
  BY <1>4, HandlerKeeps DEF HandlerStep, TakeMutex
<1>6. CacheIds' /\ IdleUntilUp'
  BY <1>4, <1>5 DEF CacheInv, CacheIds, IdleUntilUp
<1>7. \A v \in Handler : AddingRight(v)'
  BY <1>4, <1>5 DEF CacheInv, AddingRight, Keeps
<1> QED
  BY <1>6, <1>7 DEF CacheInv

\* The invariant is inductive as long as handlers are alone inside.
LEMMA NextCache ==
  ASSUME TypeInv, CacheInv, Alone, [Next]_vars
  PROVE  CacheInv'
<1>1. CASE UNCHANGED vars
  BY <1>1 DEF vars, dbVars, memVars, handlerVars, procVars, CacheInv, CacheIds, IdleUntilUp,
              AddingRight
<1>2. CASE ProcessGone
  BY <1>2 DEF ProcessGone, CacheInv, CacheIds, IdleUntilUp, AddingRight, Listing
<1>3. CASE CollectorStep
  BY <1>3
  DEF CollectorStep, CollectDump, CollectLockCache, CollectWrite, dbVars, memVars,
      handlerVars, CacheInv, CacheIds, IdleUntilUp, AddingRight
<1>4. ASSUME StartStep, ~ProcessGone
      PROVE  CacheInv'
  <2>1. UNCHANGED <<peerId, nextPeer, pc, req>> /\ boot # "up"
    BY <1>4 DEF StartStep, StartTrees, StartServing, StartFailed, StartRemove, StartPut,
                StartUndo, dbVars, handlerVars
  <2>2. CacheIds'
    BY <1>4, <2>1
    DEF StartStep, StartTrees, StartServing, StartFailed, StartRemove, StartPut, StartUndo,
        memVars, CachePut, CacheInv, CacheIds, TypeInv, TypeOK, MemTyped
  <2> QED
    BY <2>1, <2>2 DEF CacheInv, IdleUntilUp, AddingRight, Listing
<1>5. ASSUME NEW w \in Handler, Receive(w) \/ TakeMutex(w) \/ HandlerStep(w), ~ProcessGone
      PROVE  CacheInv'
  <2>1. \/ AddRow(w) \/ AddReserve(w) \/ AddAssignRandom(w) \/ AddSubnetRows(w)
        \/ AddPutPeer(w) \/ AddPutNew(w) \/ AddCommit(w) \/ AddUncache(w) \/ DeleteRow(w)
        \/ AddRollback(w)
        \/ Receive(w) \/ LockDb(w) \/ Finish(w) \/ DeleteFromWg(w)
        \/ UpdateRow(w) \/ UpdateReset(w) \/ UpdatePut(w) \/ GetRow(w)
        \/ ReserveInTree(w) \/ ReserveRow(w) \/ DeleteSubnetFromTree(w) \/ DeleteSubnetRow(w)
    BY <1>5 DEF TakeMutex, HandlerStep
  <2> QED
    BY <2>1, HandlerCache, OtherCache
<1> QED
  BY <1>1, <1>2, <1>3, <1>4, <1>5 DEF Next, Crash, FatalUnlock

\* The collector never finds in the cache the row id of an earlier peer with the
\* same key, whatever requests, failures and restarts there have been, but for a
\* failed COMMIT beside other handlers: PutNew of apiAddPeer replaces what a deleted
\* peer has left.
THEOREM CacheNeverStale ==
  ASSUME CommitAlone
  PROVE  Spec => []CacheIds
<1>1. Init => CacheInv
  BY DEF Init, CacheInv, CacheIds, IdleUntilUp, AddingRight, Listing
<1>2. TypeInv /\ CacheInv /\ Alone /\ [Next]_vars => CacheInv'
  BY NextCache
<1>3. Spec => []TypeInv
  BY TypeInit, NextTyped, PTL DEF Spec
<1>4. CacheInv => CacheIds
  BY DEF CacheInv
<1> QED
  BY <1>1, <1>2, <1>3, <1>4, OneInside, PTL DEF Spec

=============================================================================
