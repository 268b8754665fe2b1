--------------------------------- MODULE PnL ---------------------------------
(***************************************************************************)
(* Profit and loss, internal/pnl/service.go: fills update the cost basis   *)
(* and the realized profit of both sides.  The bridge has one goroutine    *)
(* per pair that calls RecordFill; the two sides of a fill are two         *)
(* separate steps under the lock, and several pairs share a base asset.    *)
(* Everything is in memory: a restart forgets it all.                      *)
(*                                                                         *)
(* Amounts are exact fractions <<numerator, denominator>>.                 *)
(***************************************************************************)
EXTENDS Integers, Sequences, FiniteSets, FiniteSetsExt

CONSTANTS
  PnlUsers, Bases,      \* users, base assets
  PnlPairs,             \* one goroutine each: records [name, base]
  PnlFills,             \* what a fill may carry: <<quantity, price>>
  MaxFills, MaxDay, PnlFaults

ASSUME PnlAssumption ==
  /\ \A p \in PnlPairs : p.base \in Bases
  /\ PnlFills \subseteq (Nat \ {0}) \X (Nat \ {0}) /\ PnlFills # {}
  /\ MaxFills \in Nat /\ MaxDay \in Nat /\ PnlFaults \in Nat

VARIABLES
  positions,    \* Service.positions by user and base asset
  daily,        \* Service.daily by user and date
  today,
  recording,    \* per pair, the fill its goroutine is recording
  cashFlow,     \* history: quote asset each user paid or got per base asset, since the start
  fills, pnlRestarts

pnlVars == <<positions, daily, today, recording, cashFlow, fills, pnlRestarts>>

\* Fractions, in lowest terms.
Lowest(n, d) ==
  LET size == IF n < 0 THEN -n ELSE n
      g == Max({k \in 1..d : d % k = 0 /\ size % k = 0})
  IN  <<n \div g, d \div g>>
Whole(n)   == <<n, 1>>
Plus(a, b) == Lowest(a[1] * b[2] + b[1] * a[2], a[2] * b[2])
Times(n, a) == Lowest(n * a[1], a[2])
Over(a, n) == IF n < 0 THEN Lowest(-a[1], a[2] * (-n)) ELSE Lowest(a[1], a[2] * n)
Total(S, f(_)) == FoldSet(LAMBDA x, sum : Plus(f(x), sum), Whole(0), S)

Sign(n) == IF n > 0 THEN 1 ELSE IF n < 0 THEN -1 ELSE 0
Least(a, b) == IF a < b THEN a ELSE b
Size(n) == n * Sign(n)

NoPosition == [qty |-> 0, avg |-> Whole(0), realized |-> Whole(0)]

-----------------------------------------------------------------------------
(* updateUser: delta is the signed quantity, bought or sold at a price *)

Reduces(pos, delta) == Sign(pos.qty) * Sign(delta) < 0

\* Profit on the part that is closed: a long's, or a short's, negated.
Realized(pos, price, delta) ==
  IF Reduces(pos, delta)
  THEN Times(Sign(pos.qty) * Least(Size(pos.qty), Size(delta)), Plus(Whole(price), Times(-1, pos.avg)))
  ELSE Whole(0)

Weighted(pos, price, delta) ==
  Over(Plus(Times(pos.qty, pos.avg), Whole(delta * price)), pos.qty + delta)
Flips(pos, delta) == Sign(pos.qty) * Sign(pos.qty + delta) < 0

\* MUTANT for PnLAddsUp: a reduction folds the exit price into the average.
Mutant_FoldsExit(pos, price, delta) ==
  CASE pos.qty + delta = 0 -> Whole(0)
    [] Flips(pos, delta)   -> Whole(price)
    [] OTHER               -> Weighted(pos, price, delta)
\* The basis moves when the position grows; one that flips starts at the price.
AvgCost(pos, price, delta) ==
  CASE pos.qty + delta = 0  -> Whole(0)
    [] Flips(pos, delta)    -> Whole(price)
    [] Reduces(pos, delta)  -> pos.avg
    [] OTHER                -> Weighted(pos, price, delta)

UpdateUser(u, base, price, delta, date) ==
  LET pos == positions[u][base]
      gain == Realized(pos, price, delta)
  IN  /\ positions' = [positions EXCEPT ![u][base] =
           [qty |-> pos.qty + delta, avg |-> AvgCost(pos, price, delta), realized |-> Plus(pos.realized, gain)]]
      /\ daily' = [daily EXCEPT ![u][date] = Plus(@, gain)]
      /\ cashFlow' = [cashFlow EXCEPT ![u][base] = @ - delta * price]

-----------------------------------------------------------------------------
(* consumeFills of each pair *)

Nothing == [step |-> "none"]
Signed(side, qty) == IF side = "buy" THEN qty ELSE -qty

\* RecordFill fixes the date of both sides when it begins.
RecordFill(p) ==
  /\ recording[p] = Nothing /\ fills < MaxFills /\ fills' = fills + 1
  /\ \E taker \in PnlUsers, f \in PnlFills, side \in {"buy", "sell"} :
     \E maker \in PnlUsers \ {taker} :
       recording' = [recording EXCEPT ![p] = [step |-> "taker", taker |-> taker, maker |-> maker,
                       delta |-> Signed(side, f[1]), price |-> f[2], date |-> today]]
  /\ UNCHANGED <<positions, daily, today, cashFlow, pnlRestarts>>

UpdateTaker(p) ==
  LET f == recording[p]
  IN  /\ f.step = "taker" /\ UpdateUser(f.taker, p.base, f.price, f.delta, f.date)
      /\ recording' = [recording EXCEPT ![p].step = "maker"]
      /\ UNCHANGED <<today, fills, pnlRestarts>>

UpdateMaker(p) ==
  LET f == recording[p]
  IN  /\ f.step = "maker" /\ UpdateUser(f.maker, p.base, f.price, -f.delta, f.date)
      /\ recording' = [recording EXCEPT ![p] = Nothing]
      /\ UNCHANGED <<today, fills, pnlRestarts>>

Midnight ==
  /\ today < MaxDay /\ today' = today + 1
  /\ UNCHANGED <<positions, daily, recording, cashFlow, fills, pnlRestarts>>

NoPositions == [u \in PnlUsers |-> [b \in Bases |-> NoPosition]]
NoDays      == [u \in PnlUsers |-> [d \in 0..MaxDay |-> Whole(0)]]
NoFlow      == [u \in PnlUsers |-> [b \in Bases |-> 0]]

\* The process starts again: positions and what was in hand are gone.
PnlRestart ==
  /\ pnlRestarts < PnlFaults /\ pnlRestarts' = pnlRestarts + 1
  /\ positions' = NoPositions /\ daily' = NoDays /\ cashFlow' = NoFlow
  /\ recording' = [p \in PnlPairs |-> Nothing]
  /\ UNCHANGED <<today, fills>>

PnlInit ==
  /\ positions = NoPositions /\ daily = NoDays /\ cashFlow = NoFlow
  /\ recording = [p \in PnlPairs |-> Nothing]
  /\ today = 0 /\ fills = 0 /\ pnlRestarts = 0

PnlNext ==
  \/ \E p \in PnlPairs : RecordFill(p) \/ UpdateTaker(p) \/ UpdateMaker(p)
  \/ Midnight \/ PnlRestart

PnlSpec == PnlInit /\ [][PnlNext]_pnlVars

-----------------------------------------------------------------------------
(* What users are shown *)

\* Assets without a reference price count for nothing in Unrealized.
Summary(u, refs) ==
  [todayRealized |-> daily[u][today],
   totalRealized |-> Total(Bases, LAMBDA b : positions[u][b].realized),
   unrealized    |-> Total(DOMAIN refs, LAMBDA b :
                       Times(positions[u][b].qty, Plus(Whole(refs[b]), Times(-1, positions[u][b].avg))))]

History(u, days) ==
  [d \in today - days + 1..today |-> IF d \in DOMAIN daily[u] THEN daily[u][d] ELSE Whole(0)]

-----------------------------------------------------------------------------
(* Properties *)

\* "Folding the exit price into the remainder would double-count realized PnL":
\* whatever fills of several pairs a user takes or makes, in whatever order, and
\* through zero, what the summary shows as realized and unrealized at some
\* prices is the user's cash plus the worth of what is held at those prices;
\* the history of the days adds up to the realized total; and when no fill is
\* half recorded, the realized and unrealized results of all users cancel out.
PnLAddsUp ==
  LET price == (CHOOSE f \in PnlFills : TRUE)[2]
      shown == [u \in PnlUsers |-> Summary(u, [b \in Bases |-> price])]
      result == [u \in PnlUsers |-> Plus(shown[u].totalRealized, shown[u].unrealized)]
      days == today + 1
  IN  fills > 0 =>
      /\ \A u \in PnlUsers :
           /\ result[u] = Whole(MapThenSumSet(LAMBDA b : cashFlow[u][b] + positions[u][b].qty * price, Bases))
           /\ Total(today - days + 1..today, LAMBDA d : History(u, days)[d]) = shown[u].totalRealized
      /\ (\A p \in PnlPairs : recording[p] = Nothing) => Total(PnlUsers, LAMBDA u : result[u]) = Whole(0)
===============================================================================
