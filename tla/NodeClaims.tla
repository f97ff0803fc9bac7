----------------------------- MODULE NodeClaims -----------------------------
(***************************************************************************)
(* What the documentation of the repository says of the node and the code  *)
(* does not do.  TLC finds a counterexample to each under the cfg that      *)
(* names it (claim_*.cfg).                                                 *)
(***************************************************************************)
EXTENDS Node

\* "Get total stat for peer" (stats.go:86): the collector knows every peer of
\* the table, so the totals it answers with go on growing.  apiAddPeer's
\* rollback takes the entry of the peer that is already there out of the cache
\* when its POST is refused because the key exists.
CacheCoversPeers ==
  boot = "up" => \A k \in Key : peerId[k] # 0 /\ ~Changing(k) => cache[k] # 0

\* "FOREIGN KEY(peer_id) REFERENCES peers(id) ON DELETE CASCADE" (migration
\* 20260322102405, lines 11-12): no subnet outlives its peer.  The connection
\* is opened without enabling foreign keys.
CascadeHolds ==
  \A r \in subnets : r.owner # 0 => \E k \in Key : peerId[k] = r.owner

\* A peer is put into the interface "if updatePeer.IsEnabled" (peers.go:614),
\* and removed otherwise.  The next start puts every peer into it.
DisabledNotServed ==
  boot = "up" =>
    \A k \in Key : peerId[k] # 0 /\ ~enabled[k] /\ ~Changing(k) => k \notin wgPeers

\* "@Success 201" (peers.go:108): a POST that created the peer says so, also
\* for a subnet that "may overlap with other subnets" (peers.go:70).
CreatedAnswered ==
  [][\A w \in Handler :
       pc[w] = "addCommit" /\ nextPeer' # nextPeer => reply'[w] = "201"]_vars

\* "@Failure 404" (peers.go:487): GET of an unknown peer.
GetMissing404 ==
  [][\A w \in Handler :
       pc[w] = "get" /\ peerId[req[w].key] = 0 /\ pc'[w] = "done"
         => reply'[w] \in {"404", "500"}]_vars

=============================================================================
