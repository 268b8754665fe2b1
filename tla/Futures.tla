------------------------------ MODULE Futures ------------------------------
(***************************************************************************)
(* Perpetual futures (internal/api/futures_handler.go) of one user in one  *)
(* pair: the requests that open, close and change positions, the ticker    *)
(* that executes take-profits, stop-losses and liquidations, and hourly    *)
(* funding, over the position store (internal/store/pg_futures.go) and the *)
(* user's futures account (pg_wallet.go).                                  *)
(*                                                                         *)
(* Every one of them reads rows, decides at a mark price, moves money in   *)
(* one wallet transaction and then writes the row back whole; nothing      *)
(* keeps another from doing the same in between.  An amount is an integer, *)
(* a price that is not set is 0, and a mark price of 0 is a feed that has  *)
(* no price.                                                               *)
(***************************************************************************)
EXTENDS Integers, Sequences, FiniteSets, FiniteSetsExt

CONSTANTS
  Handlers,     \* goroutines serving HTTP requests
  Tickers,      \* goroutines that execute take-profits and liquidations, one in each gateway
  Funders,      \* goroutines that apply funding, one in each gateway
  Deployments,  \* bound: the funds, prices, requests and faults of a behaviour
  MaxCalls      \* bound: requests and rounds of funding in any behaviour

Procs == Handlers \cup Tickers \cup Funders

\* What a position's row holds of interest; entry and quantity are written once.
Row == [side : {"long", "short"}, mode : {"isolated", "cross"},
        entry : Nat, qty : Nat, margin : Int, tp : Nat, sl : Nat,
        status : {"open", "closed", "liquidated"}]

\* A request to open; price is 0 when the mark is to be used, keep says that
\* take-profit and stop-loss prices not given leave those of a position be.
OpenRequest == [side : {"long", "short"}, mode : {"isolated", "cross"}, qty : Nat \ {0},
                leverage : 1..125, price : Nat, tp : Nat, sl : Nat, keep : BOOLEAN]
Request == [op : {"close", "partial", "add", "reduce", "liquidate"}, n : Nat \ {0}]

ASSUME DeploymentAssumption ==
  \A d \in Deployments :
    /\ d.opens \subseteq OpenRequest /\ d.requests \subseteq Request
    /\ d.deposit \in Nat /\ d.prices \subseteq Nat /\ d.fundings \subseteq Int
    /\ d.calls \in 0..MaxCalls
    /\ d.faults \subseteq {"db", "crash"} /\ d.serial \in BOOLEAN
    /\ d.rounding \in Nat

VARIABLES
  deployment,  \* what was transferred into the futures account (deposit), and what
               \* may happen: opens, requests, how many calls, prices, fundings,
               \* faults, whether calls never overlap (serial), and by how much a
               \* sum of margins may be off (rounding)
  balance,     \* the user's futures account
  locked,      \* the part of it that is locked
  pos,         \* futures_positions, oldest first
  act,         \* what each goroutine is in the middle of
  held,        \* history: the size of each position, opened less closed
  drift,       \* history: by how much the margins stored were rounded, all told
  calls
vars == <<deployment, balance, locked, pos, act, held, drift, calls>>
account == <<balance, locked>>

NoRow == [side |-> "long", mode |-> "isolated", entry |-> 0, qty |-> 0, margin |-> 0,
          tp |-> 0, sl |-> 0, status |-> "closed"]

\* What a goroutine is about to do: move money (unlock and delta, or cost to
\* reserve), which opens or closes so much of the position (size), and then
\* write the row back as id, or as a new one if id is 0; off is history, by how
\* much the row's margin was rounded.
NoPlan == [id |-> 0, row |-> NoRow, unlock |-> 0, delta |-> 0, cost |-> 0, size |-> 0, off |-> 0]

\* A goroutine at rest.  Otherwise it has read rows it has not decided about
\* (todo), or has a plan, and is to open the position then after it.
Rest(op) == [pc |-> "idle", op |-> op, n |-> 0, todo |-> {}, plan |-> NoPlan, then |-> NoRow]

Init ==
  /\ deployment \in Deployments
  /\ balance = deployment.deposit /\ locked = 0
  /\ pos = << >> /\ held = << >> /\ drift = 0
  /\ act = [p \in Procs |-> Rest("none")]
  /\ calls = 0
-----------------------------------------------------------------------------
(***************************************************************************)
(* Positions and prices.                                                   *)
(***************************************************************************)
OpenIds == {i \in DOMAIN pos : pos[i].status = "open"}
Copies(ids) == {[id |-> i, row |-> pos[i]] : i \in ids}

Gain(row, mark) == IF row.side = "long" THEN mark - row.entry ELSE row.entry - mark
PnL(row, mark) == Gain(row, mark) * row.qty

\* What a cross position can lose beyond its margin: what is available in the
\* account, and its own margin a second time; nothing if the account cannot be read.
Backing(row) ==
  {IF row.mode = "cross" THEN balance - locked + row.margin ELSE 0}
  \cup (IF "db" \in deployment.faults THEN {0} ELSE {})

\* isLiquidated
Underwater(row, mark, backing) ==
  \/ row.margin <= 0
  \/ (row.margin + PnL(row, mark) + backing) * 200 <= row.entry * row.qty

\* The mark price has reached the take-profit or the stop-loss.
Hit(row, mark) ==
  /\ mark > 0
  /\ \/ row.tp > 0 /\ IF row.side = "long" THEN mark >= row.tp ELSE mark <= row.tp
     \/ row.sl > 0 /\ IF row.side = "long" THEN mark <= row.sl ELSE mark >= row.sl

\* The row as a handler changes it.
Changed(row, qty, margin, tp, sl, status) ==
  [side |-> row.side, mode |-> row.mode, entry |-> row.entry, qty |-> qty, margin |-> margin,
   tp |-> tp, sl |-> sl, status |-> status]
WithMargin(row, margin) == Changed(row, row.qty, margin, row.tp, row.sl, row.status)
Ended(row, status) == Changed(row, row.qty, row.margin, row.tp, row.sl, status)

\* Sums and differences of margins are 64-bit floats, written with 18 decimals;
\* the account adds the same amounts exactly.  A sum keeps its sign.
Rounded(sum) ==
  {m \in (sum - deployment.rounding)..(sum + deployment.rounding) :
     (sum >= 0 => m >= 0) /\ (sum <= 0 => m <= 0)}
Distance(m, n) == IF m >= n THEN m - n ELSE n - m

\* SavePosition on a row that exists.
Upsert(old, row) == Changed(old, old.qty, row.margin, row.tp, row.sl, row.status)
-----------------------------------------------------------------------------
(***************************************************************************)
(* What a goroutine has decided to do, a its state and x the row it read.  *)
(***************************************************************************)
Doing(a, pc, plan) ==
  [pc |-> pc, op |-> a.op, n |-> a.n, todo |-> a.todo, plan |-> plan, then |-> a.then]

Reserving(a, id, row, cost, size, off) ==
  Doing(a, "reserve", [id |-> id, row |-> row, unlock |-> 0, delta |-> 0, cost |-> cost,
                       size |-> size, off |-> off])

Settling(a, x, row, unlock, delta, size, off) ==
  Doing(a, "settle", [id |-> x.id, row |-> row, unlock |-> unlock, delta |-> delta,
                      cost |-> 0, size |-> size, off |-> off])

\* Mutant: the margin stays locked.
Mutant_MarginStaysLocked(a, x, mark) ==
  Settling(a, x, Ended(x.row, "closed"), 0, PnL(x.row, mark), -x.row.qty, 0)

\* closePosition
Closing(a, x, mark) ==
  Settling(a, x, Ended(x.row, "closed"), x.row.margin, PnL(x.row, mark), -x.row.qty, 0)

\* The margin is unlocked and taken.
Liquidating(a, x) ==
  Settling(a, x, Ended(x.row, "liquidated"), x.row.margin, -x.row.margin, -x.row.qty, 0)

\* Part of the position is closed at the current price, and that part of its
\* margin freed; the rest is what the row keeps.
ClosingPart(a, x, part, rest, mark) ==
  Settling(a, x, Changed(x.row, x.row.qty - a.n, rest, x.row.tp, x.row.sl, x.row.status),
           part, Gain(x.row, mark) * a.n, -a.n, Distance(rest, x.row.margin - part))

\* The margin changes and the account pays or receives delta; nothing is locked for it.
ChangingMargin(a, x, margin, delta) == Settling(a, x, WithMargin(x.row, margin), 0, delta, 0, 0)

Begun(op, n, todo, then) ==
  [pc |-> "decide", op |-> op, n |-> n, todo |-> todo, plan |-> NoPlan, then |-> then]

\* An amount divided, with the unit in which amounts are counted as its precision.
IsQuotient(q, amount, divisor) == q * divisor <= amount /\ amount < (q + 1) * divisor

\* On to the next row of the list, or done.  The ticker's two scans alternate.
Continue(a) ==
  IF a.todo = {} THEN Rest(IF a.op = "tpsl" THEN "tpsl" ELSE "none")
                 ELSE Begun(a.op, a.n, a.todo, NoRow)

Goes(p, a) == act' = [act EXCEPT ![p] = a]
-----------------------------------------------------------------------------
(***************************************************************************)
(* Starting.                                                               *)
(***************************************************************************)
Free(p) ==
  /\ act[p].pc = "idle"
  /\ deployment.serial => \A q \in Procs : act[q].pc = "idle"

CallsOn == calls < deployment.calls /\ calls' = calls + 1

\* netPosition: the newest open position, 0 if there is none or the query fails.
NetPosition ==
  {i \in OpenIds : \A j \in OpenIds : j <= i}
  \cup (IF OpenIds = {} \/ "db" \in deployment.faults THEN {0} ELSE {})

Opened(r, entry, margin) ==
  [side |-> r.side, mode |-> r.mode, entry |-> entry, qty |-> r.qty, margin |-> margin,
   tp |-> r.tp, sl |-> r.sl, status |-> "open"]

Merged(r, row, total) ==
  Changed(row, row.qty + r.qty, total,
          IF r.keep /\ r.tp = 0 THEN row.tp ELSE r.tp,
          IF r.keep /\ r.sl = 0 THEN row.sl ELSE r.sl, row.status)

\* A position on the same side grows, one on the other side is closed first.
\* margin is notional / leverage.
Open(p, r) ==
  /\ Free(p) /\ CallsOn
  /\ \E mark \in deployment.prices, net \in NetPosition :
       LET entry == IF r.price > 0 THEN r.price ELSE mark
       IN \E margin \in 0..(entry * r.qty) :
            /\ IsQuotient(margin, entry * r.qty, r.leverage)
            /\ LET new == Opened(r, entry, margin)
                   a == Begun("open", 0, {}, NoRow)
               IN \/ net = 0 /\ Goes(p, Reserving(a, 0, new, margin, r.qty, 0))
                  \/ /\ net > 0 /\ pos[net].side = r.side
                     /\ \E total \in Rounded(pos[net].margin + margin) :
                          Goes(p, Reserving(a, net, Merged(r, pos[net], total), margin, r.qty,
                                            Distance(total, pos[net].margin + margin)))
                  \/ /\ net > 0 /\ pos[net].side # r.side
                     /\ Goes(p, Closing(Begun("open", 0, {}, new), [id |-> net, row |-> pos[net]], mark))
  /\ UNCHANGED <<deployment, account, pos, held, drift>>

OpenPosition(p, r) == r.keep /\ Open(p, r)

\* A market order is filled at the mark price, and sets both prices or removes them.
CreateOrder(p, r) == ~r.keep /\ r.price = 0 /\ Open(p, r)

\* A request about a position: its row is read and must be open.  ReduceMargin
\* turns down closed ones only.
Call(p, r) ==
  /\ Free(p) /\ CallsOn
  /\ \E i \in DOMAIN pos :
       /\ IF r.op = "reduce" THEN pos[i].status # "closed" ELSE pos[i].status = "open"
       /\ Goes(p, Begun(r.op, r.n, Copies({i}), NoRow))
  /\ UNCHANGED <<deployment, account, pos, held, drift>>

\* ListOpenPositions, whose failure ends the scan.
Scan(p, op) ==
  /\ Free(p)
  /\ \E ids \in {OpenIds} \cup (IF "db" \in deployment.faults THEN {{}} ELSE {}) :
       Goes(p, Continue(Begun(op, 0, Copies(ids), NoRow)))
  /\ UNCHANGED <<deployment, account, pos, held, drift>>

\* CheckTPSL and CheckLiquidations, one after the other, every ten seconds.
TickerScan(t) ==
  /\ Scan(t, IF act[t].op = "tpsl" THEN "liquidations" ELSE "tpsl")
  /\ UNCHANGED calls

\* ApplyFunding
FundingScan(f) == CallsOn /\ deployment.fundings # {} /\ Scan(f, "funding")
-----------------------------------------------------------------------------
(***************************************************************************)
(* Deciding, at a mark price, about one row that was read.                 *)
(***************************************************************************)
\* The part of the margin, which may be a debt, that belongs to n of the quantity.
Share(row, n) ==
  {m \in (IF row.margin >= 0 THEN 0..row.margin ELSE row.margin..0) :
     IsQuotient(m, row.margin * n, row.qty)}

ClosePositionPartial(a, x, mark) ==
  IF a.n > x.row.qty THEN {Continue(a)}
  ELSE IF a.n = x.row.qty THEN {Closing(a, x, mark)}
  ELSE UNION {{ClosingPart(a, x, part, rest, mark) : rest \in Rounded(x.row.margin - part)} :
                part \in Share(x.row, a.n)}

\* Margin is added unless the payment fails, and taken unless that endangers the position.
AddMargin(a, x) == {ChangingMargin(a, x, total, -a.n) : total \in Rounded(x.row.margin + a.n)}

ReduceMargin(a, x, mark) ==
  UNION {LET row == WithMargin(x.row, rest)
         IN {IF a.n > x.row.margin \/ Underwater(row, mark, backing) THEN Continue(a)
             ELSE ChangingMargin(a, x, rest, a.n) : backing \in Backing(row)} :
           rest \in Rounded(x.row.margin - a.n)}

\* LiquidatePosition and CheckLiquidations
Liquidate(a, x, mark) ==
  {IF Underwater(x.row, mark, backing) THEN Liquidating(a, x) ELSE Continue(a) :
     backing \in Backing(x.row)}

CheckTPSL(a, x, mark) == {IF Hit(x.row, mark) THEN Closing(a, x, mark) ELSE Continue(a)}

\* Some amount per position; none without a price.
ApplyFunding(a, x, mark) ==
  IF mark = 0 THEN {Continue(a)}
  ELSE UNION {{ChangingMargin(a, x, total, f) : total \in Rounded(x.row.margin + f)} :
                f \in deployment.fundings}

Decision(a, x, mark) ==
  CASE a.op = "close" -> {Closing(a, x, mark)}
    [] a.op = "partial" -> ClosePositionPartial(a, x, mark)
    [] a.op = "add" -> AddMargin(a, x)
    [] a.op = "reduce" -> ReduceMargin(a, x, mark)
    [] a.op \in {"liquidate", "liquidations"} -> Liquidate(a, x, mark)
    [] a.op = "tpsl" -> CheckTPSL(a, x, mark)
    [] a.op = "funding" -> ApplyFunding(a, x, mark)
    [] OTHER -> {}

Decide(p) ==
  /\ act[p].pc = "decide"
  /\ \E x \in act[p].todo :
       /\ \A y \in act[p].todo : y.id <= x.id
       /\ LET a == Begun(act[p].op, act[p].n, act[p].todo \ {x}, NoRow)
          IN \E mark \in deployment.prices : \E b \in Decision(a, x, mark) : Goes(p, b)
  /\ UNCHANGED <<deployment, account, pos, held, drift, calls>>
-----------------------------------------------------------------------------
(***************************************************************************)
(* Moving the money: Settle unlocks, if that much is locked, and then      *)
(* pays, if that much is available; ReserveForAccount locks.               *)
(***************************************************************************)
Unlocked(unlock) == IF locked >= unlock THEN locked - unlock ELSE locked

Funded(unlock, delta) == delta >= 0 \/ balance - Unlocked(unlock) >= -delta

\* The size of a position that exists changes.
Resized(plan) == IF plan.id = 0 THEN held ELSE [held EXCEPT ![plan.id] = @ + plan.size]

\* After an error, CheckLiquidations goes on to write the row; the others leave
\* the position as it is.
Refused(a) == IF a.op = "liquidations" THEN Doing(a, "save", a.plan) ELSE Continue(a)

\* The answer to a commit that went through may be lost.
Settle(p) ==
  /\ act[p].pc = "settle"
  /\ Funded(act[p].plan.unlock, act[p].plan.delta)
  /\ locked' = Unlocked(act[p].plan.unlock)
  /\ balance' = balance + act[p].plan.delta
  /\ held' = Resized(act[p].plan)
  /\ \/ Goes(p, Doing(act[p], "save", act[p].plan))
     \/ "db" \in deployment.faults /\ Goes(p, Refused(act[p]))
  /\ UNCHANGED <<deployment, pos, drift, calls>>

SettleImpossible(p) ==
  /\ act[p].pc = "settle"
  /\ ~Funded(act[p].plan.unlock, act[p].plan.delta) \/ "db" \in deployment.faults
  /\ UNCHANGED <<deployment, account, pos, held, drift, calls>>

\* Mutant: CheckLiquidations gives up, too, and leaves the position open.
Mutant_LiquidationGivesUp(p) == SettleImpossible(p) /\ Goes(p, Continue(act[p]))

\* Nothing is moved.
SettleFails(p) == SettleImpossible(p) /\ Goes(p, Refused(act[p]))

\* Mutant: what is locked already is not subtracted.
Mutant_IgnoresLocked(cost) == cost > 0 /\ balance >= cost

Affordable(cost) == cost > 0 /\ balance - locked >= cost

\* The row is read again after the commit; if that fails, the call has failed.
Reserve(p) ==
  /\ act[p].pc = "reserve"
  /\ Affordable(act[p].plan.cost)
  /\ locked' = locked + act[p].plan.cost
  /\ \/ held' = Resized(act[p].plan) /\ Goes(p, Doing(act[p], "save", act[p].plan))
     \/ "db" \in deployment.faults /\ Goes(p, Continue(act[p])) /\ UNCHANGED held
  /\ UNCHANGED <<deployment, balance, pos, drift, calls>>

ReserveFails(p) ==
  /\ act[p].pc = "reserve"
  /\ ~Affordable(act[p].plan.cost) \/ "db" \in deployment.faults
  /\ Goes(p, Continue(act[p]))
  /\ UNCHANGED <<deployment, account, pos, held, drift, calls>>
-----------------------------------------------------------------------------
(***************************************************************************)
(* Writing the row, and opening the position that was to follow.           *)
(***************************************************************************)
Save(p) ==
  LET a == act[p]
      id == a.plan.id
  IN  /\ a.pc = "save"
      /\ \/ id = 0 /\ pos' = Append(pos, a.plan.row) /\ held' = Append(held, a.plan.size)
         \/ id > 0 /\ pos' = [pos EXCEPT ![id] = Upsert(pos[id], a.plan.row)] /\ UNCHANGED held
      /\ drift' = drift + a.plan.off
      /\ Goes(p, IF a.then = NoRow THEN Continue(a)
                 ELSE Reserving(Begun(a.op, a.n, a.todo, NoRow), 0, a.then, a.then.margin, a.then.qty, 0))
      /\ UNCHANGED <<deployment, account, calls>>

\* Only closePosition looks at the error, and only OpenPosition and CreateOrder
\* go on after closePosition: they do not, then.
SaveFails(p) ==
  /\ act[p].pc = "save"
  /\ "db" \in deployment.faults
  /\ Goes(p, Continue(act[p]))
  /\ UNCHANGED <<deployment, account, pos, held, drift, calls>>

\* A gateway ends; what each of its goroutines had in hand is gone.
Crash(p) ==
  /\ "crash" \in deployment.faults
  /\ act[p].pc # "idle"
  /\ Goes(p, Rest("none"))
  /\ UNCHANGED <<deployment, account, pos, held, drift, calls>>

Step(p) ==
  \/ Decide(p) \/ Settle(p) \/ SettleFails(p) \/ Reserve(p) \/ ReserveFails(p)
  \/ Save(p) \/ SaveFails(p)

Next ==
  \/ \E p \in Handlers : \/ \E r \in deployment.opens : OpenPosition(p, r) \/ CreateOrder(p, r)
                         \/ \E r \in deployment.requests : Call(p, r)
  \/ \E t \in Tickers : TickerScan(t)
  \/ \E f \in Funders : FundingScan(f)
  \/ \E p \in Procs : Step(p) \/ Crash(p)

Spec == Init /\ [][Next]_vars

\* Goroutines run, and the ticker keeps ticking.
FairSpec == Spec /\ (\A t \in Tickers : WF_vars(TickerScan(t))) /\ \A p \in Procs : WF_vars(Step(p))
-----------------------------------------------------------------------------
(***************************************************************************)
(* Properties.                                                             *)
(***************************************************************************)
AllIdle == \A p \in Procs : act[p].pc = "idle"
Calm == deployment.serial /\ deployment.faults = {}

(***************************************************************************)
(* However calls overlap, fail or break off, the account never goes below  *)
(* zero and no more is locked than there is (pg_wallet.go: "The WHERE      *)
(* clause guarantees we never go negative on available balance").  Funding *)
(* that is charged is excepted: it may turn a margin negative, and closing *)
(* that position then locks more.                                          *)
(***************************************************************************)
Solvent ==
  /\ balance >= 0 /\ locked >= 0
  /\ deployment.fundings \subseteq Nat => locked <= balance

Margins == [i \in OpenIds |-> pos[i].margin]

(***************************************************************************)
(* As long as calls do not overlap, fail or change margins, the margins of *)
(* the open positions are locked: none is freed while its position is      *)
(* open, but for what was rounded when margins were merged or divided.  If *)
(* none was rounded, nothing else is locked either: no margin is forgotten *)
(* when its position is closed, merged, replaced or liquidated.  One that  *)
(* was rounded up is more than what is locked; Settle then skips the       *)
(* unlock, and all of it stays locked.                                     *)
(***************************************************************************)
LocksMatch ==
  /\ Calm /\ deployment.fundings = {} /\ AllIdle
  /\ \A r \in deployment.requests : r.op \notin {"add", "reduce"}
  => LET margins == MapThenSumSet(LAMBDA i : Margins[i], OpenIds)
     IN locked >= margins - drift /\ (drift = 0 => locked = margins)

\* OpenPosition: "One-way position netting: only one open position per pair per
\* user", as long as calls do not overlap or fail.
OneOpenPosition == Calm => Cardinality(OpenIds) <= 1

\* What was closed or liquidated never opens again, as long as calls do not overlap.
EndsForGood ==
  [][deployment.serial =>
       \A i \in DOMAIN pos : pos[i].status # "open" => pos'[i].status = pos[i].status]_vars

(***************************************************************************)
(* An isolated position does not stay open if its margin is lost whatever  *)
(* the price does, or if its take-profit or stop-loss is met and the       *)
(* account can pay for closing it: the ticker liquidates or closes it      *)
(* unless it is changed first.  A liquidation goes through even if the     *)
(* account does not hold what it takes.  A close does not, and CheckTPSL   *)
(* drops the error: what AddMargin has added is not locked, so that less   *)
(* may be freed than is lost.                                              *)
(***************************************************************************)
Payable(row, mark) == Funded(row.margin, PnL(row, mark))
Lost(row) == \A mark \in deployment.prices : row.margin + PnL(row, mark) <= 0
Triggered(row) == \A mark \in deployment.prices : Hit(row, mark) /\ Payable(row, mark)

Doomed(i) ==
  /\ i \in OpenIds /\ pos[i].mode = "isolated" /\ deployment.faults = {}
  /\ Lost(pos[i]) \/ Triggered(pos[i])
PositionEnds == \A i \in 1..MaxCalls : Doomed(i) ~> ~Doomed(i)

\* ClosePositionPartial turns down what exceeds the position's size ("quantity
\* exceeds position size"), so that no more is ever closed than was opened.
NothingOverclosed == Calm => \A i \in DOMAIN held : held[i] >= 0

\* The account and the positions table agree: margins are locked once each, and
\* netting leaves one open position of a pair.
PositionsAccounted == LocksMatch /\ OneOpenPosition

\* Positions end when they must, and once they have ended stay so.
PositionsEnd == EndsForGood /\ PositionEnds
=============================================================================
