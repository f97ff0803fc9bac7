----------------------------- MODULE TotalStat -----------------------------
(***************************************************************************)
(* A TotalStatCalc that is kept from one Calculate to the next, as package *)
(* peerstats and its test use it, over a peer that transfers, roams and is *)
(* recreated.  (The collector of the node does not keep it: see Traffic.)  *)
(***************************************************************************)
EXTENDS PeerStats

CONSTANTS
  StartTx, StartRx,  \* the totals the calculator is made with
  MaxBytes,          \* bound on the traffic in each direction
  MaxResets          \* bound on the times the peer is recreated

ASSUME StartAssumption == StartTx \in Nat /\ StartRx \in Nat
ASSUME BoundAssumption == MaxBytes \in Nat /\ MaxResets \in Nat

VARIABLES
  calc,     \* the calculator
  kernel,   \* the kernel's view of the peer
  sent,     \* history: the traffic there has been
  total,    \* the total Calculate returned last
  alarm,    \* and its newPeriod
  recreated, \* the peer has been recreated since then
  resets

vars == <<calc, kernel, sent, total, alarm, recreated, resets>>

Init ==
  /\ calc = MakeTotalStatsCalc(StartTx, StartRx)
  /\ kernel \in { [NoStat EXCEPT !.endpoint = configured] : configured \in BOOLEAN }
  /\ sent = [tx |-> 0, rx |-> 0]
  /\ total = [tx |-> StartTx, rx |-> StartRx]
  /\ alarm = FALSE /\ recreated = FALSE /\ resets = 0

\* Whoever transfers has shaken hands and has an endpoint.
Transfer(dir) ==
  /\ sent[dir] < MaxBytes
  /\ kernel' = [kernel EXCEPT ![dir] = @ + 1, !.handshake = TRUE, !.endpoint = TRUE]
  /\ sent' = [sent EXCEPT ![dir] = @ + 1]
  /\ UNCHANGED <<calc, total, alarm, recreated, resets>>

Recreate ==
  /\ resets < MaxResets
  /\ kernel' \in { [NoStat EXCEPT !.endpoint = configured] : configured \in BOOLEAN }
  /\ recreated' = TRUE
  /\ resets' = resets + 1
  /\ UNCHANGED <<calc, sent, total, alarm>>

Calculate ==
  /\ total' = Total(calc, kernel)
  /\ alarm' = NewPeriod(calc, kernel)
  /\ calc' = Calculated(calc, kernel)
  /\ recreated' = FALSE
  /\ UNCHANGED <<kernel, sent, resets>>

Step == (\E dir \in {"tx", "rx"} : Transfer(dir)) \/ Recreate \/ Calculate

Spec == Init /\ [][Step]_vars

-----------------------------------------------------------------------------
(* Properties                                                              *)

TypeOK ==
  /\ calc \in [prevTx : StartTx..StartTx + MaxBytes, prevRx : StartRx..StartRx + MaxBytes,
               cur : [rx : 0..MaxBytes, tx : 0..MaxBytes, handshake : BOOLEAN,
                      endpoint : BOOLEAN]]
  /\ kernel \in [rx : 0..MaxBytes, tx : 0..MaxBytes, handshake : BOOLEAN, endpoint : BOOLEAN]
  /\ sent \in [tx : 0..MaxBytes, rx : 0..MaxBytes]
  /\ total \in [tx : Nat, rx : Nat]
  /\ alarm \in BOOLEAN /\ recreated \in BOOLEAN /\ resets \in 0..MaxResets

\* No byte is counted twice, whether or not a reset is noticed.
NeverMore == total.tx <= StartTx + sent.tx /\ total.rx <= StartRx + sent.rx

\* A total never drops, also when the peer was recreated and the check does not
\* notice.
NeverDrops == [][total'.tx >= total.tx /\ total'.rx >= total.rx]_vars

\* "newPeriod" is not raised without a reset (peerstats/stats.go:28).
NoFalseAlarm == [][alarm' /\ calc' # calc => recreated]_vars

=============================================================================
