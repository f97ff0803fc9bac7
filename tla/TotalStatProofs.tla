-------------------------- MODULE TotalStatProofs --------------------------
(***************************************************************************)
(* Proofs about the calculator of package peerstats, for any totals it is  *)
(* made with and any bounds on the traffic and on the resets.  Both        *)
(* directions are counted alike, so a lemma about one of them serves both. *)
(***************************************************************************)
EXTENDS TotalStat, TLAPS

Stats == [rx : Nat, tx : Nat, handshake : BOOLEAN, endpoint : BOOLEAN]

\* What the calculator has booked, and how far that is behind the traffic: while
\* the peer lives on, the kernel shows all that the calculator has seen of the
\* period; once it has been recreated, the kernel's counters are new traffic.
Booked(prev, cur, now, start, all) ==
  /\ ~recreated => cur <= now /\ prev + now <= start + all
  /\ recreated => prev + cur + now <= start + all

CalcInv ==
  /\ calc \in [prevTx : Nat, prevRx : Nat, cur : Stats]
  /\ kernel \in Stats
  /\ sent \in [tx : 0..MaxBytes, rx : 0..MaxBytes]
  /\ total \in [tx : Nat, rx : Nat]
  /\ alarm \in BOOLEAN /\ recreated \in BOOLEAN /\ resets \in 0..MaxResets
  /\ calc.prevTx >= StartTx /\ calc.prevRx >= StartRx
  /\ total.tx = calc.prevTx + calc.cur.tx
  /\ total.rx = calc.prevRx + calc.cur.rx
  /\ Booked(calc.prevTx, calc.cur.tx, kernel.tx, StartTx, sent.tx)
  /\ Booked(calc.prevRx, calc.cur.rx, kernel.rx, StartRx, sent.rx)
  /\ ~recreated => /\ calc.cur.handshake => kernel.handshake
                   /\ calc.cur.endpoint => kernel.endpoint

\* While the peer lives on, nothing looks like a reset.
LEMMA NoResetSeen == CalcInv /\ ~recreated => ~NewPeriod(calc, kernel)
BY DEF CalcInv, NewPeriod, Booked, Stats

\* A calculator that has just been made.
LEMMA CalcInit == Init => CalcInv
<1> SUFFICES ASSUME Init PROVE CalcInv
  OBVIOUS
<1>1. PICK configured \in BOOLEAN :
        kernel = [rx |-> 0, tx |-> 0, handshake |-> FALSE, endpoint |-> configured]
  BY DEF Init, NoStat
<1>2. calc = [prevTx |-> StartTx, prevRx |-> StartRx,
              cur |-> [rx |-> 0, tx |-> 0, handshake |-> FALSE, endpoint |-> FALSE]]
  BY DEF Init, MakeTotalStatsCalc, NoStat
<1>3. kernel \in Stats /\ calc \in [prevTx : Nat, prevRx : Nat, cur : Stats]
  BY <1>1, <1>2, StartAssumption DEF Stats
<1>4. calc.prevTx = StartTx /\ calc.prevRx = StartRx /\ calc.cur.tx = 0 /\ calc.cur.rx = 0
      /\ ~calc.cur.handshake /\ ~calc.cur.endpoint /\ kernel.tx = 0 /\ kernel.rx = 0
  BY <1>1, <1>2
<1>5. /\ Booked(calc.prevTx, calc.cur.tx, kernel.tx, StartTx, sent.tx)
      /\ Booked(calc.prevRx, calc.cur.rx, kernel.rx, StartRx, sent.rx)
      /\ sent \in [tx : 0..MaxBytes, rx : 0..MaxBytes]
  BY <1>4, StartAssumption, BoundAssumption DEF Init, Booked
<1>6. /\ total \in [tx : Nat, rx : Nat]
      /\ total.tx = calc.prevTx + calc.cur.tx /\ total.rx = calc.prevRx + calc.cur.rx
  BY <1>4, StartAssumption DEF Init
<1>7. alarm \in BOOLEAN /\ recreated \in BOOLEAN /\ resets \in 0..MaxResets
  <2>1. alarm = FALSE /\ recreated = FALSE /\ resets = 0
    BY DEF Init
  <2>2. resets \in 0..MaxResets
    BY <2>1, BoundAssumption
  <2> QED BY <2>1, <2>2, Zenon
<1>8. calc.prevTx >= StartTx /\ calc.prevRx >= StartRx
  BY <1>4, StartAssumption
<1> QED BY <1>3, <1>4, <1>5, <1>6, <1>7, <1>8 DEF CalcInv

\* One more byte in direction dir.
LEMMA TransferKeeps == ASSUME CalcInv, NEW dir \in {"tx", "rx"}, Transfer(dir) PROVE CalcInv'
<1> USE StartAssumption, BoundAssumption
<1>1. kernel \in Stats /\ sent \in [tx : 0..MaxBytes, rx : 0..MaxBytes]
      /\ calc \in [prevTx : Nat, prevRx : Nat, cur : Stats]
  BY DEF CalcInv
<1>2. kernel' = [rx |-> IF dir = "rx" THEN kernel.rx + 1 ELSE kernel.rx,
                 tx |-> IF dir = "tx" THEN kernel.tx + 1 ELSE kernel.tx,
                 handshake |-> TRUE, endpoint |-> TRUE]
  BY <1>1 DEF Transfer, Stats
<1>3. /\ sent' = [sent EXCEPT ![dir] = @ + 1]
      /\ sent[dir] < MaxBytes
      /\ UNCHANGED <<calc, total, alarm, recreated, resets>>
  BY DEF Transfer
<1>4. sent' \in [tx : 0..MaxBytes, rx : 0..MaxBytes]
      /\ sent'.tx = (IF dir = "tx" THEN sent.tx + 1 ELSE sent.tx)
      /\ sent'.rx = (IF dir = "rx" THEN sent.rx + 1 ELSE sent.rx)
  BY <1>1, <1>3
<1>5. kernel' \in Stats /\ kernel'.handshake /\ kernel'.endpoint
      /\ kernel'.tx = (IF dir = "tx" THEN kernel.tx + 1 ELSE kernel.tx)
      /\ kernel'.rx = (IF dir = "rx" THEN kernel.rx + 1 ELSE kernel.rx)
  BY <1>1, <1>2 DEF Stats
<1>6. calc.cur.tx \in Nat /\ calc.cur.rx \in Nat /\ kernel.tx \in Nat /\ kernel.rx \in Nat
      /\ calc.prevTx \in Nat /\ calc.prevRx \in Nat /\ sent.tx \in Nat /\ sent.rx \in Nat
  BY <1>1 DEF Stats
<1>7. /\ Booked(calc.prevTx, calc.cur.tx, kernel.tx, StartTx, sent.tx)'
      /\ Booked(calc.prevRx, calc.cur.rx, kernel.rx, StartRx, sent.rx)'
  BY <1>3, <1>4, <1>5, <1>6 DEF CalcInv, Booked
<1> QED BY <1>3, <1>4, <1>5, <1>7 DEF CalcInv

\* The peer is recreated: the kernel's counters start anew.
LEMMA RecreateKeeps == ASSUME CalcInv, Recreate PROVE CalcInv'
<1> USE StartAssumption, BoundAssumption
<1>1. PICK configured \in BOOLEAN :
        kernel' = [rx |-> 0, tx |-> 0, handshake |-> FALSE, endpoint |-> configured]
  BY DEF Recreate, NoStat
<1>2. kernel' \in Stats /\ kernel'.tx = 0 /\ kernel'.rx = 0
  BY <1>1 DEF Stats
<1>3. recreated' = TRUE /\ resets' \in 0..MaxResets /\ UNCHANGED <<calc, sent, total, alarm>>
  BY DEF Recreate, CalcInv
<1>4. calc.cur.tx \in Nat /\ calc.cur.rx \in Nat /\ kernel.tx \in Nat /\ kernel.rx \in Nat
      /\ calc.prevTx \in Nat /\ calc.prevRx \in Nat /\ sent.tx \in Nat /\ sent.rx \in Nat
  BY DEF Stats, CalcInv
<1>5. /\ Booked(calc.prevTx, calc.cur.tx, kernel.tx, StartTx, sent.tx)'
      /\ Booked(calc.prevRx, calc.cur.rx, kernel.rx, StartRx, sent.rx)'
  BY <1>2, <1>3, <1>4 DEF CalcInv, Booked
<1> QED BY <1>2, <1>3, <1>5 DEF CalcInv

\* Calculate in each of its branches, and what it does to the total.
LEMMA CalculateKeeps ==
  ASSUME CalcInv, Calculate
  PROVE  /\ CalcInv'
         /\ total'.tx >= total.tx /\ total'.rx >= total.rx
<1> USE StartAssumption, BoundAssumption
<1>1. calc' = Calculated(calc, kernel) /\ recreated' = FALSE /\ alarm' = NewPeriod(calc, kernel)
      /\ total' = [tx |-> Calculated(calc, kernel).prevTx + kernel.tx,
                   rx |-> Calculated(calc, kernel).prevRx + kernel.rx]
      /\ UNCHANGED <<kernel, sent, resets>>
  BY DEF Calculate, Total
<1>2. /\ alarm' \in BOOLEAN /\ recreated' \in BOOLEAN /\ kernel' = kernel
      /\ calc'.cur = kernel =>
           /\ calc'.cur.handshake => kernel'.handshake
           /\ calc'.cur.endpoint => kernel'.endpoint
      /\ resets' \in 0..MaxResets /\ sent' \in [tx : 0..MaxBytes, rx : 0..MaxBytes]
  <2>1. alarm' \in BOOLEAN
    BY <1>1, Zenon DEF NewPeriod
  <2> QED BY <1>1, <2>1 DEF CalcInv
<1>3. calc.cur.tx \in Nat /\ calc.cur.rx \in Nat /\ kernel.tx \in Nat /\ kernel.rx \in Nat
      /\ calc.prevTx \in Nat /\ calc.prevRx \in Nat /\ sent.tx \in Nat /\ sent.rx \in Nat
      /\ kernel \in Stats /\ calc \in [prevTx : Nat, prevRx : Nat, cur : Stats]
  BY DEF Stats, CalcInv
<1>4. CASE NewPeriod(calc, kernel)
  <2>1. recreated
    BY <1>4, NoResetSeen DEF CalcInv
  <2>2. calc' = [prevTx |-> calc.prevTx + calc.cur.tx, prevRx |-> calc.prevRx + calc.cur.rx,
                 cur |-> kernel]
    BY <1>1, <1>4 DEF Calculated
  <2>3. calc'.prevTx = calc.prevTx + calc.cur.tx /\ calc'.prevRx = calc.prevRx + calc.cur.rx
        /\ calc'.cur = kernel
        /\ total'.tx = calc.prevTx + calc.cur.tx + kernel.tx
        /\ total'.rx = calc.prevRx + calc.cur.rx + kernel.rx
    BY <1>1, <1>4, <2>2 DEF Calculated
  <2>4. calc' \in [prevTx : Nat, prevRx : Nat, cur : Stats] /\ total' \in [tx : Nat, rx : Nat]
    BY <1>1, <1>4, <1>3, <2>2, <2>3 DEF Calculated
  <2>5. /\ Booked(calc.prevTx, calc.cur.tx, kernel.tx, StartTx, sent.tx)'
        /\ Booked(calc.prevRx, calc.cur.rx, kernel.rx, StartRx, sent.rx)'
    BY <1>1, <1>3, <2>1, <2>3 DEF CalcInv, Booked
  <2> QED BY <1>1, <1>2, <1>3, <2>3, <2>4, <2>5 DEF CalcInv
<1>5. CASE ~NewPeriod(calc, kernel)
  <2>1. calc' = [calc EXCEPT !.cur = kernel] /\ total'.tx = calc.prevTx + kernel.tx
        /\ total'.rx = calc.prevRx + kernel.rx /\ total' \in [tx : Nat, rx : Nat]
    BY <1>1, <1>5 DEF Calculated, CalcInv, Stats
  <2>2. calc.cur.tx <= kernel.tx /\ calc.cur.rx <= kernel.rx
    BY <1>5, <1>3 DEF NewPeriod
  <2>3. calc' \in [prevTx : Nat, prevRx : Nat, cur : Stats]
        /\ calc'.prevTx = calc.prevTx /\ calc'.prevRx = calc.prevRx /\ calc'.cur = kernel
    BY <1>3, <2>1
  <2>4. /\ Booked(calc.prevTx, calc.cur.tx, kernel.tx, StartTx, sent.tx)'
        /\ Booked(calc.prevRx, calc.cur.rx, kernel.rx, StartRx, sent.rx)'
    BY <1>1, <1>3, <2>2, <2>3 DEF CalcInv, Booked
  <2> QED BY <1>1, <1>2, <1>3, <2>1, <2>2, <2>3, <2>4 DEF CalcInv
<1> QED BY <1>4, <1>5

\* No step breaks the calculator's books.
LEMMA CalcStep == CalcInv /\ [Step]_vars => CalcInv'
<1> SUFFICES ASSUME CalcInv, [Step]_vars PROVE CalcInv' OBVIOUS
<1>1. ASSUME NEW dir \in {"tx", "rx"}, Transfer(dir) PROVE CalcInv'
  BY <1>1, TransferKeeps
<1>2. CASE Recreate
  BY <1>2, RecreateKeeps
<1>3. CASE Calculate
  BY <1>3, CalculateKeeps
<1>4. CASE UNCHANGED vars
  BY <1>4 DEF CalcInv, Booked, vars
<1> QED BY <1>1, <1>2, <1>3, <1>4 DEF Step

\* So they hold in every state.
LEMMA CalcInvariant == Spec => []CalcInv
BY CalcInit, CalcStep, PTL DEF Spec

\* Every variable has its type; in particular no counter passes the traffic.
THEOREM CalcTyped == Spec => []TypeOK
<1>1. CalcInv => TypeOK
  BY StartAssumption, BoundAssumption DEF CalcInv, Booked, Stats, TypeOK
<1> QED BY <1>1, CalcInvariant, PTL

\* No byte is counted twice, however often the peer is recreated and whether or not
\* Calculate notices.
THEOREM NothingCountedTwice == Spec => []NeverMore
<1>1. CalcInv => NeverMore
  BY StartAssumption, BoundAssumption DEF CalcInv, Booked, Stats, NeverMore
<1> QED BY <1>1, CalcInvariant, PTL

\* The total never drops.
THEOREM TotalsGrow == Spec => NeverDrops
<1>1. CalcInv /\ [Step]_vars => [total'.tx >= total.tx /\ total'.rx >= total.rx]_vars
  <2> SUFFICES ASSUME CalcInv, Step PROVE total'.tx >= total.tx /\ total'.rx >= total.rx
    OBVIOUS
  <2>1. CASE Calculate
    BY <2>1, CalculateKeeps
  <2>2. CASE UNCHANGED total
    BY <2>2 DEF CalcInv
  <2> QED BY <2>1, <2>2 DEF Step, Transfer, Recreate
<1> QED BY <1>1, CalcInvariant, PTL DEF Spec, NeverDrops

\* newPeriod is raised only for a peer that has been recreated since the last
\* Calculate.
THEOREM AlarmsAreTrue == Spec => NoFalseAlarm
<1>1. CalcInv /\ [Step]_vars => [alarm' /\ calc' # calc => recreated]_vars
  <2> SUFFICES ASSUME CalcInv, Step, alarm', calc' # calc PROVE recreated
    OBVIOUS
  <2>1. Calculate
    BY DEF Step, Transfer, Recreate
  <2> QED BY <2>1, NoResetSeen DEF Calculate, CalcInv
<1> QED BY <1>1, CalcInvariant, PTL DEF Spec, NoFalseAlarm

=============================================================================
