----------------------------- MODULE PeerStats -----------------------------
(***************************************************************************)
(* Package peerstats: the sum of a counter that starts anew whenever the   *)
(* kernel's peer is recreated.  Of a handshake time and an endpoint only   *)
(* whether they are set matters.                                           *)
(***************************************************************************)
EXTENDS Integers

NoStat == [rx |-> 0, tx |-> 0, handshake |-> FALSE, endpoint |-> FALSE]

MakeTotalStatsCalc(tx, rx) == [prevTx |-> tx, prevRx |-> rx, cur |-> NoStat]

\* Defect: only the counters are looked at, and only at their sum.
NewPeriodBySum(calc, cur) == calc.cur.tx + calc.cur.rx > cur.tx + cur.rx

\* Defect: an unchanged counter counts as a reset one.
NewPeriodUnlessMore(calc, cur) == calc.cur.tx >= cur.tx \/ calc.cur.rx >= cur.rx

\* The current period's data look as if the peer had been reset.
NewPeriod(calc, cur) ==
  \/ calc.cur.tx > cur.tx
  \/ calc.cur.rx > cur.rx
  \/ calc.cur.handshake /\ ~cur.handshake
  \/ calc.cur.endpoint /\ ~cur.endpoint

\* Defect: the period that ended is always added.
CalculatedAlways(calc, cur) ==
  [prevTx |-> calc.prevTx + calc.cur.tx, prevRx |-> calc.prevRx + calc.cur.rx, cur |-> cur]

\* What Calculate leaves in the calculator it is called on.
Calculated(calc, cur) ==
  IF NewPeriod(calc, cur)
  THEN [prevTx |-> calc.prevTx + calc.cur.tx, prevRx |-> calc.prevRx + calc.cur.rx,
        cur |-> cur]
  ELSE [calc EXCEPT !.cur = cur]

\* Defect: the current period is left out.
TotalBefore(calc, cur) ==
  [tx |-> Calculated(calc, cur).prevTx, rx |-> Calculated(calc, cur).prevRx]

\* What it returns.
Total(calc, cur) ==
  [tx |-> Calculated(calc, cur).prevTx + cur.tx, rx |-> Calculated(calc, cur).prevRx + cur.rx]

=============================================================================
