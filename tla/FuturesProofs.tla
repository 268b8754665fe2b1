--------------------------- MODULE FuturesProofs ---------------------------
(***************************************************************************)
(* Proofs about futures, for any number of goroutines, any prices and      *)
(* requests.  The account stays solvent under any interleaving, failure or *)
(* crash; while calls neither overlap nor fail, account and positions      *)
(* agree; and while they do not overlap, a position that ended stays so.   *)
(***************************************************************************)
EXTENDS Futures, SequenceTheorems, SumTheorems, TLAPS

(***************************************************************************)
(* What is unlocked is never negative unless funding was charged: that is  *)
(* what keeps an unlock from locking more.  It rests on the margins of     *)
(* every row, stored or read and not yet written back.                     *)
(***************************************************************************)
NoCharges == deployment.fundings \subseteq Nat

Sound(row) == row \in Row /\ (NoCharges => row.margin >= 0)

\* A position that has yet to be opened owes nothing in any case.
Fresh(row) == row \in Row /\ row.margin \in Nat

Listed == [id : Nat, row : Row]
Plans == [id : Nat, row : Row, unlock : Int, delta : Int, cost : Nat, size : Int, off : Nat]
Ops == {"none", "open", "close", "partial", "add", "reduce", "liquidate",
        "liquidations", "tpsl", "funding"}
Acts == [pc : {"idle", "decide", "settle", "reserve", "save"}, op : Ops, n : Nat,
         todo : SUBSET Listed, plan : Plans, then : Row]

SoundPlan(plan) == plan \in Plans /\ Sound(plan.row) /\ (NoCharges => plan.unlock >= 0)
SoundAct(a) ==
  /\ a \in Acts
  /\ \A x \in a.todo : Sound(x.row)
  /\ SoundPlan(a.plan)
  /\ Fresh(a.then)

\* The inductive invariant.
IInv ==
  /\ deployment \in Deployments
  /\ balance \in Int /\ locked \in Int /\ drift \in Nat
  /\ pos \in Seq(Row)
  /\ \A i \in DOMAIN pos : Sound(pos[i])
  /\ DOMAIN act = Procs
  /\ \A p \in Procs : SoundAct(act[p])
  /\ Solvent
-----------------------------------------------------------------------------
(***************************************************************************)
(* Rows.                                                                   *)
(***************************************************************************)
\* The row that stands for none is sound.
LEMMA NoRowSound == Sound(NoRow) /\ Fresh(NoRow)
BY DEF Sound, Fresh, NoRow, Row

\* So is a row that is changed, if its new margin is.
LEMMA ChangedSound ==
  ASSUME NEW row \in Row, NEW qty \in Nat, NEW margin \in Int, NoCharges => margin >= 0,
         NEW tp \in Nat, NEW sl \in Nat, NEW status \in {"open", "closed", "liquidated"}
  PROVE  Sound(Changed(row, qty, margin, tp, sl, status))
BY DEF Sound, Changed, Row

\* A position that ends keeps a sound row.
LEMMA EndedSound ==
  ASSUME NEW row, Sound(row), NEW status \in {"open", "closed", "liquidated"}
  PROVE  Sound(Ended(row, status))
BY DEF Sound, Ended, Changed, Row

\* SavePosition writes a sound row over a sound row.
LEMMA UpsertSound ==
  ASSUME NEW old, Sound(old), NEW row, Sound(row)
  PROVE  Sound(Upsert(old, row))
BY DEF Sound, Upsert, Changed, Row

\* Gains are integers.
LEMMA GainType ==
  ASSUME NEW row \in Row, NEW mark \in Nat
  PROVE  Gain(row, mark) \in Int /\ PnL(row, mark) \in Int
<1>1. Gain(row, mark) \in Int
  BY DEF Gain, Row
<1> QED
  BY <1>1 DEF PnL, Row
\* A margin that is rounded keeps its sign.
LEMMA RoundedSound ==
  ASSUME deployment \in Deployments, NEW sum \in Int, NEW m \in Rounded(sum)
  PROVE  m \in Int /\ (sum >= 0 => m >= 0)
<1>1. deployment.rounding \in Nat
  BY DeploymentAssumption
<1> QED
  BY <1>1 DEF Rounded

\* How far two integers are apart.
LEMMA DistanceType ==
  ASSUME NEW m \in Int, NEW n \in Int
  PROVE  Distance(m, n) \in Nat /\ m <= n + Distance(m, n) /\ (Distance(m, n) = 0 => m = n)
BY DEF Distance
-----------------------------------------------------------------------------
(***************************************************************************)
(* The states of a goroutine.                                              *)
(***************************************************************************)
\* No plan is a sound plan.
LEMMA NoPlanSound == SoundPlan(NoPlan)
BY NoRowSound DEF SoundPlan, Plans, NoPlan, Sound

\* A goroutine at rest is sound.
LEMMA RestSound ==
  ASSUME NEW op \in Ops
  PROVE  SoundAct(Rest(op))
BY NoRowSound, NoPlanSound DEF SoundAct, SoundPlan, Acts, Sound, Fresh, Rest

\* So is one that has read sound rows.
LEMMA BegunSound ==
  ASSUME NEW op \in Ops, NEW n \in Nat, NEW todo \in SUBSET Listed,
         \A x \in todo : Sound(x.row), NEW then, Fresh(then)
  PROVE  SoundAct(Begun(op, n, todo, then))
BY NoPlanSound DEF SoundAct, SoundPlan, Acts, Sound, Fresh, Begun

\* So is one that goes on with its list.
LEMMA ContinueSound ==
  ASSUME NEW a, SoundAct(a)
  PROVE  SoundAct(Continue(a))
<1>1. a.op \in Ops /\ a.n \in Nat /\ a.todo \in SUBSET Listed /\ \A x \in a.todo : Sound(x.row)
  BY DEF SoundAct, Acts
<1>2. SoundAct(Rest("tpsl")) /\ SoundAct(Rest("none"))
  BY RestSound DEF Ops
<1>3. SoundAct(Begun(a.op, a.n, a.todo, NoRow))
  BY <1>1, BegunSound, NoRowSound
<1> QED
  BY <1>2, <1>3 DEF Continue

\* So is one that takes up a sound plan.
LEMMA DoingSound ==
  ASSUME NEW a, SoundAct(a), NEW pc \in {"idle", "decide", "settle", "reserve", "save"},
         NEW plan, SoundPlan(plan)
  PROVE  SoundAct(Doing(a, pc, plan))
BY DEF SoundAct, SoundPlan, Acts, Sound, Fresh, Doing

\* A plan to settle is sound if its row is and it unlocks no debt.
LEMMA SettlingSound ==
  ASSUME NEW a, SoundAct(a), NEW x \in Listed, NEW row, Sound(row),
         NEW unlock \in Int, NoCharges => unlock >= 0, NEW delta \in Int, NEW size \in Int,
         NEW off \in Nat
  PROVE  SoundAct(Settling(a, x, row, unlock, delta, size, off))
<1>1. SoundPlan([id |-> x.id, row |-> row, unlock |-> unlock, delta |-> delta,
                 cost |-> 0, size |-> size, off |-> off])
  BY DEF SoundPlan, Plans, Listed, Sound
<1> QED
  BY <1>1, DoingSound DEF Settling

\* A plan to reserve is sound if its row is.
LEMMA ReservingSound ==
  ASSUME NEW a, SoundAct(a), NEW id \in Nat, NEW row, Sound(row), NEW cost \in Nat,
         NEW size \in Int, NEW off \in Nat
  PROVE  SoundAct(Reserving(a, id, row, cost, size, off))
<1>1. SoundPlan([id |-> id, row |-> row, unlock |-> 0, delta |-> 0, cost |-> cost,
                 size |-> size, off |-> off])
  BY DEF SoundPlan, Plans, Sound
<1> QED
  BY <1>1, DoingSound DEF Reserving

\* Closing a position whose row is sound is a sound plan.
LEMMA ClosingSound ==
  ASSUME NEW a, SoundAct(a), NEW x \in Listed, Sound(x.row), NEW mark \in Nat
  PROVE  SoundAct(Closing(a, x, mark))
<1>1. x.row \in Row /\ x.row.margin \in Int /\ -x.row.qty \in Int
  BY DEF Sound, Row
<1>2. NoCharges => x.row.margin >= 0
  BY DEF Sound
<1>3. PnL(x.row, mark) \in Int /\ Sound(Ended(x.row, "closed"))
  BY <1>1, GainType, EndedSound
<1> QED
  BY <1>1, <1>2, <1>3, SettlingSound DEF Closing

\* Whatever is decided about a sound row is sound.
LEMMA DecisionSound ==
  ASSUME deployment \in Deployments, NEW a, SoundAct(a), NEW x \in Listed, Sound(x.row),
         NEW mark \in Nat, NEW b \in Decision(a, x, mark)
  PROVE  SoundAct(b)
<1>1. /\ a.n \in Nat /\ a.op \in Ops
      /\ x.row \in Row /\ x.row.margin \in Int /\ x.row.qty \in Nat
      /\ x.row.tp \in Nat /\ x.row.sl \in Nat
      /\ x.row.status \in {"open", "closed", "liquidated"}
  BY DEF SoundAct, Acts, Sound, Row
<1>2. NoCharges => x.row.margin >= 0
  BY DEF Sound
<1>3. CASE b = Continue(a)
  BY <1>3, ContinueSound
<1>4. CASE b = Closing(a, x, mark)
  BY <1>4, ClosingSound
<1>5. CASE b = Liquidating(a, x)
  <2>1. Sound(Ended(x.row, "liquidated")) /\ -x.row.margin \in Int /\ -x.row.qty \in Int
    BY <1>1, EndedSound
  <2> QED
    BY <2>1, <1>1, <1>2, <1>5, SettlingSound DEF Liquidating
<1>6. ASSUME a.n < x.row.qty, NEW part \in Share(x.row, a.n),
             NEW rest \in Rounded(x.row.margin - part), b = ClosingPart(a, x, part, rest, mark)
      PROVE  SoundAct(b)
  <2>1. /\ x.row.qty - a.n \in Nat /\ x.row.margin - part \in Int /\ part \in Int /\ -a.n \in Int
        /\ NoCharges => part >= 0 /\ x.row.margin - part >= 0
    BY <1>1, <1>2, <1>6 DEF Share
  <2>2. /\ rest \in Int /\ (NoCharges => rest >= 0)
        /\ Distance(rest, x.row.margin - part) \in Nat
    BY <1>6, <2>1, RoundedSound, DistanceType
  <2>3. Gain(x.row, mark) * a.n \in Int
    <3>1. Gain(x.row, mark) \in Int
      BY <1>1, GainType
    <3> QED
      BY <3>1, <1>1
  <2>4. Sound(Changed(x.row, x.row.qty - a.n, rest, x.row.tp, x.row.sl, x.row.status))
    BY <1>1, <2>1, <2>2, ChangedSound
  <2> QED
    BY <2>1, <2>2, <2>3, <2>4, <1>6, SettlingSound DEF ClosingPart
<1>7. ASSUME NEW margin \in Int, NoCharges => margin >= 0, NEW delta \in Int,
             b = ChangingMargin(a, x, margin, delta)
      PROVE  SoundAct(b)
  <2>1. Sound(WithMargin(x.row, margin))
    BY <1>1, <1>7, ChangedSound DEF WithMargin
  <2> QED
    BY <2>1, <1>7, SettlingSound DEF ChangingMargin
<1>8. CASE a.op \in {"close", "liquidate", "liquidations", "tpsl"}
  BY <1>3, <1>4, <1>5, <1>8 DEF Decision, Liquidate, CheckTPSL
<1>9. CASE a.op = "partial"
  <2>1. CASE a.n > x.row.qty \/ a.n = x.row.qty
    BY <1>1, <1>3, <1>4, <1>9, <2>1 DEF Decision, ClosePositionPartial
  <2>2. CASE a.n < x.row.qty
    <3>1. \E part \in Share(x.row, a.n) : \E rest \in Rounded(x.row.margin - part) :
             b = ClosingPart(a, x, part, rest, mark)
      BY <1>1, <1>9, <2>2 DEF Decision, ClosePositionPartial
    <3> QED
      BY <3>1, <2>2, <1>6
  <2> QED
    BY <2>1, <2>2, <1>1
<1>10. CASE a.op = "add"
  <2>1. PICK total \in Rounded(x.row.margin + a.n) : b = ChangingMargin(a, x, total, -a.n)
    BY <1>10 DEF Decision, AddMargin
  <2>2. x.row.margin + a.n \in Int /\ -a.n \in Int /\ (NoCharges => x.row.margin + a.n >= 0)
    BY <1>1, <1>2
  <2>3. total \in Int /\ (NoCharges => total >= 0)
    BY <2>2, RoundedSound
  <2> QED
    BY <2>1, <2>2, <2>3, <1>7
<1>11. CASE a.op = "reduce"
  <2>1. \/ b = Continue(a)
        \/ ~(a.n > x.row.margin) /\ \E rest \in Rounded(x.row.margin - a.n) : b = ChangingMargin(a, x, rest, a.n)
    BY <1>11 DEF Decision, ReduceMargin
  <2>2. ASSUME ~(a.n > x.row.margin), NEW rest \in Rounded(x.row.margin - a.n),
               b = ChangingMargin(a, x, rest, a.n)
        PROVE  SoundAct(b)
    <3>1. x.row.margin - a.n \in Int /\ a.n \in Int /\ x.row.margin - a.n >= 0
      BY <1>1, <2>2
    <3>2. rest \in Int /\ rest >= 0
      BY <3>1, RoundedSound
    <3> QED
      BY <2>2, <3>1, <3>2, <1>7
  <2> QED
    BY <2>1, <2>2, <1>3
<1>12. CASE a.op = "funding"
  <2>1. \/ b = Continue(a)
        \/ \E f \in deployment.fundings : \E total \in Rounded(x.row.margin + f) : b = ChangingMargin(a, x, total, f)
    BY <1>12 DEF Decision, ApplyFunding
  <2>2. ASSUME NEW f \in deployment.fundings, NEW total \in Rounded(x.row.margin + f),
               b = ChangingMargin(a, x, total, f)
        PROVE  SoundAct(b)
    <3>1. f \in Int /\ (NoCharges => f >= 0)
      BY <2>2, DeploymentAssumption DEF NoCharges
    <3>2. x.row.margin + f \in Int /\ (NoCharges => x.row.margin + f >= 0)
      BY <3>1, <1>1, <1>2
    <3>3. total \in Int /\ (NoCharges => total >= 0)
      BY <3>2, RoundedSound
    <3> QED
      BY <3>1, <3>3, <2>2, <1>7
  <2> QED
    BY <2>1, <2>2, <1>3
<1>13. a.op \notin {"none", "open"}
  BY DEF Decision
<1> QED
  BY <1>1, <1>8, <1>9, <1>10, <1>11, <1>12, <1>13 DEF Ops
-----------------------------------------------------------------------------
(***************************************************************************)
(* The steps.                                                              *)
(***************************************************************************)
\* A step that only gives one goroutine a sound state.
LEMMA GoesSound ==
  ASSUME IInv, NEW p \in Procs, NEW a, SoundAct(a), Goes(p, a),
         UNCHANGED <<deployment, account, pos, drift>>
  PROVE  IInv'
<1>1. DOMAIN act' = Procs /\ \A q \in Procs : SoundAct(act'[q])
  BY DEF IInv, Goes
<1> QED
  BY <1>1 DEF IInv, account, Solvent, SoundAct, SoundPlan, Sound, NoCharges

\* Copies of stored rows are sound.
LEMMA CopiesSound ==
  ASSUME IInv, NEW ids \in SUBSET DOMAIN pos
  PROVE  Copies(ids) \in SUBSET Listed /\ \A x \in Copies(ids) : Sound(x.row)
<1>1. \A i \in ids : i \in Nat /\ pos[i] \in Row /\ Sound(pos[i])
  BY DEF IInv
<1> QED
  BY <1>1 DEF Copies, Listed

\* The position in the pair is an open one, or none.
LEMMA NetType ==
  ASSUME IInv, NEW net \in NetPosition
  PROVE  net = 0 \/ net \in DOMAIN pos
BY DEF NetPosition, OpenIds

\* Opening, or growing, a position.
LEMMA OpenStep ==
  ASSUME IInv, NEW p \in Procs, NEW r \in deployment.opens, Open(p, r)
  PROVE  IInv'
<1>1. /\ r.side \in {"long", "short"} /\ r.mode \in {"isolated", "cross"} /\ r.qty \in Nat
      /\ r.tp \in Nat /\ r.sl \in Nat /\ r.price \in Nat
  <2>1. r \in OpenRequest
    BY DeploymentAssumption DEF IInv
  <2> QED
    BY <2>1 DEF OpenRequest
<1>2. PICK mark \in deployment.prices, net \in NetPosition :
        LET entry == IF r.price > 0 THEN r.price ELSE mark
        IN \E margin \in 0..(entry * r.qty) :
             /\ IsQuotient(margin, entry * r.qty, r.leverage)
             /\ LET new == Opened(r, entry, margin)
                    a == Begun("open", 0, {}, NoRow)
                IN \/ net = 0 /\ Goes(p, Reserving(a, 0, new, margin, r.qty, 0))
                   \/ /\ net > 0 /\ pos[net].side = r.side
                      /\ \E total \in Rounded(pos[net].margin + margin) :
                           Goes(p, Reserving(a, net, Merged(r, pos[net], total), margin, r.qty,
                                             Distance(total, pos[net].margin + margin)))
                   \/ /\ net > 0 /\ pos[net].side # r.side
                      /\ Goes(p, Closing(Begun("open", 0, {}, new), [id |-> net, row |-> pos[net]], mark))
  BY DEF Open
<1> DEFINE entry == IF r.price > 0 THEN r.price ELSE mark
<1>3. mark \in Nat /\ entry \in Nat
  BY <1>1, DeploymentAssumption DEF IInv
<1>4. PICK margin \in 0..(entry * r.qty) :
        LET new == Opened(r, entry, margin)
            a == Begun("open", 0, {}, NoRow)
        IN \/ net = 0 /\ Goes(p, Reserving(a, 0, new, margin, r.qty, 0))
           \/ /\ net > 0 /\ pos[net].side = r.side
              /\ \E total \in Rounded(pos[net].margin + margin) :
                   Goes(p, Reserving(a, net, Merged(r, pos[net], total), margin, r.qty,
                                     Distance(total, pos[net].margin + margin)))
           \/ /\ net > 0 /\ pos[net].side # r.side
              /\ Goes(p, Closing(Begun("open", 0, {}, new), [id |-> net, row |-> pos[net]], mark))
  BY <1>2
<1> DEFINE new == Opened(r, entry, margin)
           a == Begun("open", 0, {}, NoRow)
<1>5. margin \in Nat
  <2>1. entry * r.qty \in Nat
    BY <1>1, <1>3
  <2> QED
    BY <2>1
<1>6. Sound(new) /\ Fresh(new)
  BY <1>1, <1>3, <1>5 DEF Opened, Sound, Fresh, Row
<1>7. SoundAct(a) /\ SoundAct(Begun("open", 0, {}, new))
  BY <1>6, BegunSound, NoRowSound DEF Ops
<1>8. UNCHANGED <<deployment, account, pos, drift>>
  BY DEF Open
<1>9. CASE net = 0 /\ Goes(p, Reserving(a, 0, new, margin, r.qty, 0))
  <2>1. SoundAct(Reserving(a, 0, new, margin, r.qty, 0))
    BY <1>1, <1>5, <1>6, <1>7, ReservingSound
  <2> QED
    BY <2>1, <1>8, <1>9, GoesSound
<1>10. ASSUME net > 0
       PROVE  net \in DOMAIN pos /\ net \in Nat /\ pos[net] \in Row /\ Sound(pos[net])
  <2>1. net \in DOMAIN pos
    BY <1>10, NetType
  <2> QED
    BY <2>1 DEF IInv
<1>11. ASSUME net > 0, NEW total \in Rounded(pos[net].margin + margin),
              Goes(p, Reserving(a, net, Merged(r, pos[net], total), margin, r.qty,
                                Distance(total, pos[net].margin + margin)))
       PROVE  IInv'
  <2> DEFINE off == Distance(total, pos[net].margin + margin)
  <2>1. /\ total \in Int /\ (NoCharges => total >= 0) /\ off \in Nat
    <3>1. pos[net].margin \in Int /\ (NoCharges => pos[net].margin >= 0)
      BY <1>10, <1>11 DEF Sound, Row
    <3>2. pos[net].margin + margin \in Int /\ (NoCharges => pos[net].margin + margin >= 0)
      BY <1>5, <3>1
    <3> QED
      BY <3>2, RoundedSound, DistanceType DEF IInv
  <2> HIDE DEF off
  <2>2. Sound(Merged(r, pos[net], total))
    BY <1>1, <1>10, <1>11, <2>1 DEF Merged, Changed, Sound, Row
  <2>3. SoundAct(Reserving(a, net, Merged(r, pos[net], total), margin, r.qty, off))
    <3>1. net \in Nat /\ r.qty \in Int
      BY <1>1, <1>10, <1>11
    <3> HIDE DEF a
    <3> QED
      BY <2>1, <2>2, <3>1, <1>5, <1>7, ReservingSound
  <2> QED
    BY <2>3, <1>8, <1>11, GoesSound DEF off
<1>12. CASE net > 0 /\ Goes(p, Closing(Begun("open", 0, {}, new), [id |-> net, row |-> pos[net]], mark))
  <2>1. [id |-> net, row |-> pos[net]] \in Listed
    BY <1>10, <1>12 DEF Listed
  <2>2. SoundAct(Closing(Begun("open", 0, {}, new), [id |-> net, row |-> pos[net]], mark))
    BY <2>1, <1>3, <1>7, <1>10, <1>12, ClosingSound
  <2> QED
    BY <2>2, <1>8, <1>12, GoesSound
<1> QED
  BY <1>4, <1>9, <1>11, <1>12

\* A request about a position.
LEMMA CallStep ==
  ASSUME IInv, NEW p \in Procs, NEW r \in deployment.requests, Call(p, r)
  PROVE  IInv'
<1>1. r.op \in Ops /\ r.n \in Nat
  <2>1. r \in Request
    BY DeploymentAssumption DEF IInv
  <2> QED
    BY <2>1 DEF Request, Ops
<1>2. PICK i \in DOMAIN pos : Goes(p, Begun(r.op, r.n, Copies({i}), NoRow))
  BY DEF Call
<1>3. SoundAct(Begun(r.op, r.n, Copies({i}), NoRow))
  <2>1. Copies({i}) \in SUBSET Listed /\ \A x \in Copies({i}) : Sound(x.row)
    BY CopiesSound
  <2> QED
    BY <2>1, <1>1, BegunSound, NoRowSound
<1> QED
  BY <1>2, <1>3, GoesSound DEF Call

\* A scan of the open positions.
LEMMA ScanStep ==
  ASSUME IInv, NEW p \in Procs, NEW op \in Ops, Scan(p, op)
  PROVE  IInv'
<1>1. PICK ids \in {OpenIds} \cup (IF "db" \in deployment.faults THEN {{}} ELSE {}) :
        Goes(p, Continue(Begun(op, 0, Copies(ids), NoRow)))
  BY DEF Scan
<1>2. ids \in SUBSET DOMAIN pos
  BY <1>1 DEF OpenIds
<1>3. Copies(ids) \in SUBSET Listed /\ \A x \in Copies(ids) : Sound(x.row)
  BY <1>2, CopiesSound
<1>4. SoundAct(Begun(op, 0, Copies(ids), NoRow))
  BY <1>3, BegunSound, NoRowSound
<1> QED
  BY <1>1, <1>4, ContinueSound, GoesSound DEF Scan

\* A decision.
LEMMA DecideStep ==
  ASSUME IInv, NEW p \in Procs, Decide(p)
  PROVE  IInv'
<1>1. /\ act[p].op \in Ops /\ act[p].n \in Nat /\ act[p].todo \in SUBSET Listed
      /\ \A x \in act[p].todo : Sound(x.row)
  BY DEF IInv, SoundAct, Acts
<1>2. PICK x \in act[p].todo : \E mark \in deployment.prices :
        \E b \in Decision(Begun(act[p].op, act[p].n, act[p].todo \ {x}, NoRow), x, mark) : Goes(p, b)
  BY DEF Decide
<1>3. SoundAct(Begun(act[p].op, act[p].n, act[p].todo \ {x}, NoRow))
  BY <1>1, BegunSound, NoRowSound
<1>4. \A mark \in deployment.prices : mark \in Nat
  BY DeploymentAssumption DEF IInv
<1>5. PICK mark \in deployment.prices :
        \E b \in Decision(Begun(act[p].op, act[p].n, act[p].todo \ {x}, NoRow), x, mark) : Goes(p, b)
  BY <1>2
<1>6. PICK b \in Decision(Begun(act[p].op, act[p].n, act[p].todo \ {x}, NoRow), x, mark) : Goes(p, b)
  BY <1>5
<1>7. SoundAct(b)
  BY <1>1, <1>3, <1>4, DecisionSound DEF IInv
<1> QED
  BY <1>6, <1>7, GoesSound DEF Decide

\* A goroutine's own state and plan, spelled out.
LEMMA ActSound ==
  ASSUME IInv, NEW p \in Procs
  PROVE  /\ SoundAct(act[p]) /\ SoundPlan(act[p].plan) /\ Sound(act[p].plan.row)
         /\ act[p].plan.id \in Nat /\ act[p].plan.unlock \in Int /\ act[p].plan.delta \in Int
         /\ act[p].plan.cost \in Nat /\ (NoCharges => act[p].plan.unlock >= 0)
         /\ act[p].plan.off \in Nat
BY DEF IInv, SoundAct, SoundPlan, Plans, Acts

\* A step that moves money and gives one goroutine a sound state.
LEMMA MoneySound ==
  ASSUME IInv, NEW p \in Procs, NEW a, SoundAct(a), Goes(p, a),
         balance' \in Int, locked' \in Int, Solvent', UNCHANGED <<deployment, pos, drift>>
  PROVE  IInv'
<1>1. DOMAIN act' = Procs /\ \A q \in Procs : SoundAct(act'[q])
  BY DEF IInv, Goes
<1> QED
  BY <1>1 DEF IInv, SoundAct, SoundPlan, Sound, NoCharges

\* Unlocking and paying.
LEMMA SettleStep ==
  ASSUME IInv, NEW p \in Procs, Settle(p)
  PROVE  IInv'
<1> DEFINE unlock == act[p].plan.unlock
           delta == act[p].plan.delta
<1>1. /\ unlock \in Int /\ delta \in Int /\ (NoCharges => unlock >= 0)
      /\ balance \in Int /\ locked \in Int /\ balance >= 0 /\ locked >= 0
      /\ NoCharges => locked <= balance
  BY ActSound DEF IInv, Solvent, NoCharges
<1>2. locked' = Unlocked(unlock) /\ balance' = balance + delta /\ deployment' = deployment
      /\ (delta >= 0 \/ balance - Unlocked(unlock) >= -delta)
  BY DEF Settle, Funded
<1> HIDE DEF unlock, delta
<1>3. Unlocked(unlock) \in Int /\ Unlocked(unlock) >= 0 /\ (NoCharges => Unlocked(unlock) <= locked)
  BY <1>1 DEF Unlocked
<1>4. balance' \in Int /\ locked' \in Int /\ balance' >= 0 /\ locked' >= 0
      /\ (NoCharges => locked' <= balance')
  BY <1>1, <1>2, <1>3
<1>5. SoundAct(Continue(act[p])) /\ SoundAct(Doing(act[p], "save", act[p].plan))
  BY ActSound, ContinueSound, DoingSound
<1>6. PICK a : SoundAct(a) /\ Goes(p, a)
  BY <1>5 DEF Settle, Refused
<1> QED
  BY <1>2, <1>4, <1>6, MoneySound DEF Settle, Solvent, NoCharges

\* Locking, whether the call is known to have succeeded or not.
LEMMA ReserveStep ==
  ASSUME IInv, NEW p \in Procs, Reserve(p)
  PROVE  IInv'
<1> DEFINE cost == act[p].plan.cost
<1>1. /\ cost \in Nat /\ balance \in Int /\ locked \in Int /\ balance >= 0 /\ locked >= 0
  BY ActSound DEF IInv, Solvent
<1>2. locked' = locked + cost /\ balance' = balance /\ balance - locked >= cost
  BY DEF Reserve, Affordable
<1>3. balance' \in Int /\ locked' \in Int /\ balance' >= 0 /\ locked' >= 0 /\ locked' <= balance'
  BY <1>1, <1>2
<1>4. SoundAct(Continue(act[p])) /\ SoundAct(Doing(act[p], "save", act[p].plan))
  BY ActSound, ContinueSound, DoingSound
<1>5. PICK a : SoundAct(a) /\ Goes(p, a)
  BY <1>4 DEF Reserve
<1> QED
  BY <1>3, <1>5, MoneySound DEF Reserve, Solvent

\* A call that fails, or moves nothing.
LEMMA FailStep ==
  ASSUME IInv, NEW p \in Procs, SettleFails(p) \/ ReserveFails(p) \/ SaveFails(p)
  PROVE  IInv'
<1>1. SoundAct(Continue(act[p])) /\ SoundAct(Doing(act[p], "save", act[p].plan))
  BY ActSound, ContinueSound, DoingSound
<1> QED
  BY <1>1, GoesSound DEF SettleFails, SettleImpossible, Refused, ReserveFails, SaveFails, account

\* Writing the row.
LEMMA SaveStep ==
  ASSUME IInv, NEW p \in Procs, Save(p)
  PROVE  IInv'
<1> DEFINE id == act[p].plan.id
           row == act[p].plan.row
           then == act[p].then
<1>1. Sound(row) /\ row \in Row
  BY ActSound DEF Sound
<1>2. pos \in Seq(Row) /\ \A i \in DOMAIN pos : Sound(pos[i])
  BY DEF IInv
<1>3. /\ deployment' = deployment /\ balance' = balance /\ locked' = locked
      /\ drift' \in Nat
  <2>1. act[p].plan.off \in Nat /\ drift \in Nat
    BY ActSound DEF IInv
  <2> QED
    BY <2>1 DEF Save, account
<1>4. pos' \in Seq(Row) /\ \A i \in DOMAIN pos' : Sound(pos'[i])
  <2>1. CASE pos' = Append(pos, row)
    BY <1>1, <1>2, <2>1
  <2>2. CASE pos' = [pos EXCEPT ![id] = Upsert(pos[id], row)]
    <3>1. ASSUME id \in DOMAIN pos
          PROVE  Sound(Upsert(pos[id], row)) /\ Upsert(pos[id], row) \in Row
      <4>1. Sound(Upsert(pos[id], row))
        BY <1>1, <1>2, <3>1, UpsertSound
      <4> QED
        BY <4>1 DEF Sound
    <3>2. DOMAIN pos' = DOMAIN pos
          /\ \A i \in DOMAIN pos : pos'[i] = IF i = id THEN Upsert(pos[id], row) ELSE pos[i]
      BY <2>2
    <3>3. pos' \in Seq(Row)
      <4>1. CASE id \in 1..Len(pos)
        BY <4>1, <1>2, <2>2, <3>1, ExceptSeq
      <4>2. CASE id \notin DOMAIN pos
        <5>1. pos \in [1..Len(pos) -> Row] /\ DOMAIN pos = 1..Len(pos)
          BY <1>2, LenProperties
        <5>2. pos' = pos
          BY <5>1, <4>2, <2>2
        <5> QED
          BY <5>2, <1>2
      <4> QED
        BY <4>1, <4>2, <1>2
    <3> QED
      BY <1>2, <3>1, <3>2, <3>3
  <2> QED
    BY <2>1, <2>2 DEF Save
<1>5. DOMAIN act' = Procs /\ \A q \in Procs : SoundAct(act'[q])
  <2>1. SoundAct(Continue(act[p]))
    BY ActSound, ContinueSound
  <2>2. SoundAct(Reserving(Begun(act[p].op, act[p].n, act[p].todo, NoRow), 0, then,
                           then.margin, then.qty, 0))
    <3>1. Sound(then) /\ then.margin \in Nat /\ then.qty \in Int
      BY ActSound DEF SoundAct, Fresh, Sound, Row
    <3>2. SoundAct(Begun(act[p].op, act[p].n, act[p].todo, NoRow))
      BY ActSound, BegunSound, NoRowSound DEF SoundAct, Acts
    <3> HIDE DEF then
    <3> QED
      BY <3>1, <3>2, ReservingSound
  <2>3. PICK a : SoundAct(a) /\ Goes(p, a)
    BY <2>1, <2>2 DEF Save
  <2> QED
    BY <2>3 DEF Goes, IInv
<1> QED
  BY <1>3, <1>4, <1>5 DEF IInv, Solvent, SoundAct, SoundPlan, Sound, NoCharges

\* A goroutine ending.
LEMMA CrashStep ==
  ASSUME IInv, NEW p \in Procs, Crash(p)
  PROVE  IInv'
<1>1. SoundAct(Rest("none"))
  BY RestSound DEF Ops
<1> QED
  BY <1>1, GoesSound DEF Crash
-----------------------------------------------------------------------------
(***************************************************************************)
(* The theorems.                                                           *)
(***************************************************************************)
\* The inductive invariant holds at first.
LEMMA InitIInv == Init => IInv
<1> SUFFICES ASSUME Init PROVE IInv
  OBVIOUS
<1>1. deployment.deposit \in Nat
  BY DeploymentAssumption DEF Init
<1>2. SoundAct(Rest("none"))
  BY RestSound DEF Ops
<1> QED
  BY <1>1, <1>2 DEF Init, IInv, Solvent

\* Every step keeps it.
LEMMA NextIInv == IInv /\ [Next]_vars => IInv'
<1> SUFFICES ASSUME IInv, [Next]_vars PROVE IInv'
  OBVIOUS
<1>1. ASSUME NEW p \in Handlers, NEW r \in deployment.opens,
             OpenPosition(p, r) \/ CreateOrder(p, r)
      PROVE  IInv'
  BY <1>1, OpenStep DEF Procs, OpenPosition, CreateOrder
<1>2. ASSUME NEW p \in Handlers, NEW r \in deployment.requests, Call(p, r) PROVE IInv'
  BY <1>2, CallStep DEF Procs
<1>3. ASSUME NEW p \in Tickers, TickerScan(p) PROVE IInv'
  BY <1>3, ScanStep DEF TickerScan, Procs, Ops
<1>4. ASSUME NEW p \in Funders, FundingScan(p) PROVE IInv'
  BY <1>4, ScanStep DEF FundingScan, Procs, Ops
<1>5. ASSUME NEW p \in Procs, Step(p) PROVE IInv'
  BY <1>5, DecideStep, SettleStep, ReserveStep, SaveStep, FailStep DEF Step
<1>6. CASE UNCHANGED vars
  BY <1>6 DEF vars, account, IInv, Solvent, SoundAct, SoundPlan, Sound, NoCharges
<1> QED
  BY <1>1, <1>2, <1>3, <1>4, <1>5, <1>6, CrashStep DEF Next

(***************************************************************************)
(* The futures account never goes below zero, and never has more locked    *)
(* than it holds unless funding is charged (Settle and ReserveForAccount,  *)
(* pg_wallet.go), whatever the goroutines, requests, prices and failures.  *)
(***************************************************************************)
THEOREM FuturesSolvent == Spec => []Solvent
<1>1. IInv => Solvent
  BY DEF IInv
<1> QED
  BY <1>1, InitIInv, NextIInv, PTL DEF Spec
-----------------------------------------------------------------------------
(***************************************************************************)
(* Calls that do not overlap.  What a goroutine read is then what is still *)
(* stored; and if calls do not fail either, there is one open position at  *)
(* most, whose margin is what is locked but for what the goroutine in the  *)
(* middle of a call has moved and not yet written, and for what has been   *)
(* rounded.                                                                *)
(***************************************************************************)
Acting == {"settle", "reserve", "save"}
OpenIn(ps) == {i \in DOMAIN ps : ps[i].status = "open"}

\* The rows on a goroutine's list are the rows stored, and open but for a ReduceMargin.
Fetched(a, ps) ==
  \A x \in a.todo : /\ x.id \in DOMAIN ps /\ x.row = ps[x.id]
                    /\ a.op # "reduce" => x.row.status = "open"

\* The row to be written reopens nothing.
Planned(a, ps) ==
  a.pc \in Acting /\ a.plan.id # 0 =>
    /\ a.plan.id \in DOMAIN ps
    /\ \A x \in a.todo : x.id # a.plan.id
    /\ ps[a.plan.id].status # "open" => a.plan.row.status = ps[a.plan.id].status

\* Whoever is to write an open row writes the only one.
Single(a, ps) ==
  a.pc \in Acting =>
    /\ a.plan.row.status = "open" \/ a.then # NoRow => OpenIn(ps) \subseteq {a.plan.id}
    /\ a.then # NoRow => a.plan.row.status # "open" /\ a.plan.id # 0

\* No call changes a margin without the lock.
Quiet ==
  /\ Calm /\ deployment.fundings = {}
  /\ \A r \in deployment.requests : r.op \notin {"add", "reduce"}

Kept(row) == IF row.status = "open" THEN row.margin ELSE 0

\* What is locked covers an amount but for off that was rounded, and is just
\* that amount if nothing was.
Agrees(lk, amount, off) == lk >= amount - off /\ (off = 0 => lk = amount)

Matching(ps, lk, dr) ==
  (OpenIn(ps) = {} => Agrees(lk, 0, dr)) /\ \A i \in OpenIn(ps) : Agrees(lk, ps[i].margin, dr)

\* What a plan unlocks or locks is what its row will add or take.
Locks(a, ps, lk, dr) ==
  /\ a.op \notin {"add", "reduce", "funding"}
  /\ a.pc \in Acting /\ a.then # NoRow => a.then.status = "open"
  /\ a.pc = "settle" => /\ a.plan.id \in OpenIn(ps)
                        /\ Agrees(lk, Kept(a.plan.row) + a.plan.unlock, dr + a.plan.off)
                        /\ a.op = "liquidations" =>
                             a.plan.row.status # "open" /\ a.plan.delta = -a.plan.unlock
  /\ a.pc = "reserve" => /\ a.plan.row.status = "open"
                         /\ Agrees(lk + a.plan.cost, a.plan.row.margin, dr + a.plan.off)
  /\ a.pc = "save" => /\ Agrees(lk, Kept(a.plan.row), dr + a.plan.off)
                      /\ OpenIn(ps) \subseteq {a.plan.id}

Steady(a, ps, lk, dr) ==
  /\ deployment.serial /\ a.pc # "idle" => Fetched(a, ps) /\ Planned(a, ps)
  /\ Calm => Single(a, ps)
  /\ Quiet => Locks(a, ps, lk, dr)

\* The inductive invariant, beside IInv.
SInv ==
  /\ deployment.serial => \A p, q \in Procs : act[p].pc # "idle" /\ act[q].pc # "idle" => p = q
  /\ \A p \in Procs : Steady(act[p], pos, locked, drift)
  /\ Calm => \A i, j \in OpenIn(pos) : i = j
  /\ Quiet /\ (\A p \in Procs : act[p].pc # "save") => Matching(pos, locked, drift)

\* Quiet is calm, and calm is serial.
LEMMA QuietCalm == (Quiet => Calm) /\ (Calm => deployment.serial /\ deployment.faults = {})
BY DEF Quiet, Calm

\* A goroutine that goes on with its list, or rests.
LEMMA ContinueSteady ==
  ASSUME NEW a, NEW ps, NEW lk, NEW dr, deployment.serial => Fetched(a, ps),
         Quiet => a.op \notin {"add", "reduce", "funding"}
  PROVE  Steady(Continue(a), ps, lk, dr) /\ Continue(a).pc \notin Acting
<1> DEFINE c == Continue(a)
<1>1. CASE a.todo = {}
  <2>1. c.pc = "idle" /\ c.op \in {"tpsl", "none"}
    BY <1>1 DEF Continue, Rest
  <2> HIDE DEF c
  <2>2. Steady(c, ps, lk, dr) /\ c.pc \notin Acting
    BY <2>1 DEF Steady, Single, Locks, Acting
  <2> QED
    BY <2>2 DEF c
<1>2. CASE a.todo # {}
  <2>1. c.pc = "decide" /\ c.op = a.op /\ c.todo = a.todo
    BY <1>2 DEF Continue, Begun
  <2> HIDE DEF c
  <2>2. Steady(c, ps, lk, dr) /\ c.pc \notin Acting
    BY <2>1 DEF Steady, Single, Locks, Acting, Fetched, Planned
  <2> QED
    BY <2>2 DEF c
<1> QED
  BY <1>1, <1>2

\* One goroutine moves while the others rest, if calls do not overlap.
LEMMA OneMoves ==
  ASSUME SInv, DOMAIN act = Procs, NEW p \in Procs, NEW a, Goes(p, a), deployment' = deployment,
         deployment.serial => \A q \in Procs \ {p} : act[q].pc = "idle",
         Steady(a, pos', locked', drift'),
         Calm => \A i, j \in OpenIn(pos') : i = j,
         Quiet /\ a.pc # "save" => Matching(pos', locked', drift')
  PROVE  SInv'
<1>1. act' = [act EXCEPT ![p] = a]
  BY DEF Goes
<1>2. act'[p] = a /\ \A q \in Procs \ {p} : act'[q] = act[q]
  BY <1>1
<1>3. (Calm' <=> Calm) /\ (Quiet' <=> Quiet)
  BY DEF Calm, Quiet
<1>4. \A q \in Procs \ {p} : Steady(act[q], pos', locked', drift')
  <2> SUFFICES ASSUME NEW q \in Procs \ {p} PROVE Steady(act[q], pos', locked', drift')
    OBVIOUS
  <2>1. Steady(act[q], pos, locked, drift)
    BY DEF SInv
  <2> QED
    BY <2>1, QuietCalm DEF Steady, Single, Locks, Acting
<1>5. \A q \in Procs : Steady(act'[q], pos', locked', drift')
  BY <1>2, <1>4
<1>6. (\A q \in Procs : Steady(act[q], pos, locked, drift))'
  BY <1>3, <1>5 DEF Steady
<1>7. deployment'.serial => \A q, r \in Procs : act'[q].pc # "idle" /\ act'[r].pc # "idle" => q = r
  BY <1>2
<1>8. Quiet /\ (\A q \in Procs : act'[q].pc # "save") => Matching(pos', locked', drift')
  BY <1>2
<1> QED
  BY <1>3, <1>6, <1>7, <1>8 DEF SInv

\* The others rest when one begins, or is in the middle of a call.
LEMMA OthersRest ==
  ASSUME SInv, NEW p \in Procs, Free(p) \/ act[p].pc # "idle"
  PROVE  deployment.serial => \A q \in Procs \ {p} : act[q].pc = "idle"
BY DEF SInv, Free

\* What is locked matches as long as nobody has a row to write.
LEMMA MatchesNow ==
  ASSUME SInv, NEW p \in Procs, Free(p) \/ act[p].pc # "idle", act[p].pc # "save"
  PROVE  Quiet => Matching(pos, locked, drift)
<1>1. Quiet => \A q \in Procs \ {p} : act[q].pc = "idle"
  BY OthersRest, QuietCalm
<1> QED
  BY <1>1 DEF SInv

\* A step that moves neither money nor rows.
LEMMA OneMovesOn ==
  ASSUME IInv, SInv, NEW p \in Procs, NEW a, Goes(p, a), UNCHANGED <<deployment, account, pos, drift>>,
         Free(p) \/ act[p].pc # "idle", act[p].pc # "save" \/ ~Quiet,
         Steady(a, pos, locked, drift)
  PROVE  SInv'
<1>1. pos' = pos /\ locked' = locked
  BY DEF account
<1>2. Quiet => Matching(pos, locked, drift)
  BY MatchesNow
<1>3. Calm => \A i, j \in OpenIn(pos) : i = j
  BY DEF SInv
<1> QED
  BY <1>1, <1>2, <1>3, OneMoves, OthersRest DEF IInv

\* What a goroutine in the middle of a call is about, spelled out.
LEMMA ActSteady ==
  ASSUME SInv, NEW p \in Procs, act[p].pc # "idle"
  PROVE  /\ deployment.serial => Fetched(act[p], pos) /\ Planned(act[p], pos)
         /\ Calm => Single(act[p], pos)
         /\ Quiet => Locks(act[p], pos, locked, drift)
BY DEF SInv, Steady

\* A decision about a row that is stored.
LEMMA DecisionSteady ==
  ASSUME IInv, SInv, NEW a, SoundAct(a), a.pc = "decide", a.then = NoRow, NEW x \in Listed, Sound(x.row),
         NEW mark \in Nat, NEW b \in Decision(a, x, mark),
         deployment.serial => /\ Fetched(a, pos) /\ \A y \in a.todo : y.id # x.id
                              /\ x.id \in DOMAIN pos /\ x.row = pos[x.id]
                              /\ a.op # "reduce" => x.row.status = "open",
         Quiet => a.op \notin {"add", "reduce", "funding"} /\ Matching(pos, locked, drift)
  PROVE  Steady(b, pos, locked, drift)
<1>1. ASSUME NEW row, NEW unlock, NEW delta, NEW size, NEW off,
             b = Settling(a, x, row, unlock, delta, size, off),
             x.row.status # "open" => row.status = x.row.status,
             Quiet => /\ Agrees(locked, x.row.margin, drift) =>
                           Agrees(locked, Kept(row) + unlock, drift + off)
                      /\ a.op = "liquidations" => row.status # "open" /\ delta = -unlock
      PROVE  Steady(b, pos, locked, drift)
  <2>1. /\ b.pc = "settle" /\ b.op = a.op /\ b.todo = a.todo /\ b.then = NoRow
        /\ b.plan.id = x.id /\ b.plan.row = row /\ b.plan.unlock = unlock /\ b.plan.delta = delta
        /\ b.plan.off = off
    BY <1>1 DEF Settling, Doing
  <2>2. deployment.serial => Fetched(b, pos) /\ Planned(b, pos)
    BY <1>1, <2>1 DEF Fetched, Planned
  <2>3. Calm => Single(b, pos)
    <3> SUFFICES ASSUME Calm, row.status = "open" PROVE OpenIn(pos) \subseteq {x.id}
      BY <2>1 DEF Single
    <3>1. x.id \in OpenIn(pos)
      BY <1>1, QuietCalm DEF OpenIn
    <3> QED
      BY <3>1 DEF SInv
  <2>4. Quiet => Locks(b, pos, locked, drift)
    <3> SUFFICES ASSUME Quiet PROVE Locks(b, pos, locked, drift)
      OBVIOUS
    <3>1. x.id \in OpenIn(pos) /\ x.row = pos[x.id]
      BY QuietCalm DEF OpenIn
    <3>2. Agrees(locked, x.row.margin, drift)
      BY <3>1 DEF Matching
    <3> QED
      BY <1>1, <2>1, <3>1, <3>2 DEF Locks
  <2> QED
    BY <2>2, <2>3, <2>4 DEF Steady
<1>2. x.row.margin \in Int /\ x.row.qty \in Nat /\ a.op \in Ops /\ locked \in Int /\ drift \in Nat
  BY DEF Sound, Row, SoundAct, Acts, IInv
<1>3. CASE b = Continue(a)
  BY <1>3, ContinueSteady
<1>4. ASSUME NEW status \in {"closed", "liquidated"}, NEW delta, NEW size,
             b = Settling(a, x, Ended(x.row, status), x.row.margin, delta, size, 0),
             a.op # "reduce", Quiet /\ a.op = "liquidations" => delta = -x.row.margin
      PROVE  Steady(b, pos, locked, drift)
  <2>1. CASE ~deployment.serial
    BY <2>1, QuietCalm DEF Steady
  <2>2. CASE deployment.serial
    <3>1. x.row.status = "open"
      BY <1>4, <2>2
    <3>2. Kept(Ended(x.row, status)) = 0 /\ Ended(x.row, status).status # "open"
      BY <1>4 DEF Kept, Ended, Changed
    <3>3. Kept(Ended(x.row, status)) + x.row.margin = x.row.margin /\ drift + 0 = drift
      BY <1>2, <3>2
    <3> QED
      BY <1>1, <1>4, <3>1, <3>2, <3>3
  <2> QED
    BY <2>1, <2>2
<1>5. CASE b = Closing(a, x, mark) /\ a.op \in {"close", "partial", "tpsl"}
  BY <1>4, <1>5 DEF Closing
<1>6. CASE b = Liquidating(a, x) /\ a.op \in {"liquidate", "liquidations"}
  BY <1>4, <1>6 DEF Liquidating
<1>7. ASSUME NEW margin, NEW delta, b = ChangingMargin(a, x, margin, delta),
             a.op \in {"add", "reduce", "funding"}
      PROVE  Steady(b, pos, locked, drift)
  <2>1. WithMargin(x.row, margin).status = x.row.status
    BY DEF WithMargin, Changed
  <2> QED
    BY <2>1, <1>1, <1>7 DEF ChangingMargin
<1>8. ASSUME NEW part \in Share(x.row, a.n), NEW rest \in Rounded(x.row.margin - part),
             b = ClosingPart(a, x, part, rest, mark), a.op = "partial"
      PROVE  Steady(b, pos, locked, drift)
  <2>1. CASE ~deployment.serial
    BY <2>1, QuietCalm DEF Steady
  <2>2. CASE deployment.serial
    <3> DEFINE row == Changed(x.row, x.row.qty - a.n, rest, x.row.tp, x.row.sl, x.row.status)
               off == Distance(rest, x.row.margin - part)
    <3>1. x.row.status = "open" /\ part \in Int /\ x.row.margin - part \in Int
      BY <1>2, <1>8, <2>2 DEF Share
    <3>2. row.status = "open" /\ row.margin = rest
      BY <3>1 DEF Changed
    <3>3. Kept(row) = rest
      BY <3>2 DEF Kept
    <3>4. rest \in Int
      BY <3>1, RoundedSound DEF IInv
    <3>5. off \in Nat /\ rest <= (x.row.margin - part) + off /\ (off = 0 => rest = x.row.margin - part)
      BY <3>1, <3>4, DistanceType
    <3>6. b = Settling(a, x, row, part, Gain(x.row, mark) * a.n, -a.n, off)
      BY <1>8 DEF ClosingPart
    <3> HIDE DEF row, off
    <3>7. Agrees(locked, x.row.margin, drift) => Agrees(locked, Kept(row) + part, drift + off)
      BY <1>2, <3>1, <3>3, <3>4, <3>5 DEF Agrees
    <3> QED
      BY <1>1, <1>8, <3>1, <3>6, <3>7
  <2> QED
    BY <2>1, <2>2
<1>9. CASE a.op \in {"close", "liquidate", "liquidations", "tpsl"}
  BY <1>3, <1>5, <1>6, <1>9 DEF Decision, Liquidate, CheckTPSL
<1>10. CASE a.op = "partial"
  <2>1. \/ b = Continue(a) \/ b = Closing(a, x, mark)
        \/ \E part \in Share(x.row, a.n) : \E rest \in Rounded(x.row.margin - part) :
              b = ClosingPart(a, x, part, rest, mark)
    BY <1>10 DEF Decision, ClosePositionPartial
  <2> QED
    BY <2>1, <1>3, <1>5, <1>8, <1>10
<1>11. CASE a.op \in {"add", "reduce", "funding"}
  <2>1. b = Continue(a) \/ \E margin, delta : b = ChangingMargin(a, x, margin, delta)
    BY <1>11 DEF Decision, AddMargin, ReduceMargin, ApplyFunding
  <2> QED
    BY <2>1, <1>3, <1>7, <1>11
<1>12. a.op \notin {"none", "open"}
  BY DEF Decision
<1> QED
  BY <1>2, <1>9, <1>10, <1>11, <1>12 DEF Ops

\* A position that is to be opened, grown, or opened after another is closed.
LEMMA OpenSteady ==
  ASSUME IInv, SInv, NEW p \in Procs, NEW r \in deployment.opens, Open(p, r)
  PROVE  SInv'
<1>1. /\ r.side \in {"long", "short"} /\ r.mode \in {"isolated", "cross"} /\ r.qty \in Nat
      /\ r.tp \in Nat /\ r.sl \in Nat /\ r.price \in Nat
  <2>1. r \in OpenRequest
    BY DeploymentAssumption DEF IInv
  <2> QED
    BY <2>1 DEF OpenRequest
<1>2. PICK mark \in deployment.prices, net \in NetPosition :
        LET entry == IF r.price > 0 THEN r.price ELSE mark
        IN \E margin \in 0..(entry * r.qty) :
             /\ IsQuotient(margin, entry * r.qty, r.leverage)
             /\ LET new == Opened(r, entry, margin)
                    a == Begun("open", 0, {}, NoRow)
                IN \/ net = 0 /\ Goes(p, Reserving(a, 0, new, margin, r.qty, 0))
                   \/ /\ net > 0 /\ pos[net].side = r.side
                      /\ \E total \in Rounded(pos[net].margin + margin) :
                           Goes(p, Reserving(a, net, Merged(r, pos[net], total), margin, r.qty,
                                             Distance(total, pos[net].margin + margin)))
                   \/ /\ net > 0 /\ pos[net].side # r.side
                      /\ Goes(p, Closing(Begun("open", 0, {}, new), [id |-> net, row |-> pos[net]], mark))
  BY DEF Open
<1> DEFINE entry == IF r.price > 0 THEN r.price ELSE mark
<1>3. mark \in Nat /\ entry \in Nat
  BY <1>1, DeploymentAssumption DEF IInv
<1>4. PICK margin \in 0..(entry * r.qty) :
        LET new == Opened(r, entry, margin)
            a == Begun("open", 0, {}, NoRow)
        IN \/ net = 0 /\ Goes(p, Reserving(a, 0, new, margin, r.qty, 0))
           \/ /\ net > 0 /\ pos[net].side = r.side
              /\ \E total \in Rounded(pos[net].margin + margin) :
                   Goes(p, Reserving(a, net, Merged(r, pos[net], total), margin, r.qty,
                                     Distance(total, pos[net].margin + margin)))
           \/ /\ net > 0 /\ pos[net].side # r.side
              /\ Goes(p, Closing(Begun("open", 0, {}, new), [id |-> net, row |-> pos[net]], mark))
  BY <1>2
<1> DEFINE new == Opened(r, entry, margin)
<1>5. margin \in Nat
  <2>1. entry * r.qty \in Nat
    BY <1>1, <1>3
  <2> QED
    BY <2>1
<1>6. new.status = "open" /\ new.margin = margin
  BY DEF Opened
<1>7. UNCHANGED <<deployment, account, pos, drift>> /\ Free(p) /\ act[p].pc = "idle"
  BY DEF Open, Free
<1>8. net = 0 \/ net \in OpenIn(pos)
  BY DEF NetPosition, OpenIds, OpenIn
<1>9. Calm /\ net = 0 => OpenIn(pos) = {}
  <2> SUFFICES ASSUME Calm, net = 0, OpenIds # {} PROVE FALSE
    BY DEF OpenIds, OpenIn
  <2>1. net \in OpenIds
    BY QuietCalm DEF NetPosition
  <2> QED
    BY <2>1 DEF OpenIds, IInv
<1>10. net # 0 => /\ net \in DOMAIN pos /\ pos[net] \in Row /\ pos[net].status = "open"
                  /\ pos[net].margin \in Int
                  /\ Calm => OpenIn(pos) \subseteq {net}
  <2> SUFFICES ASSUME net \in OpenIn(pos)
               PROVE  /\ net \in DOMAIN pos /\ pos[net] \in Row /\ pos[net].status = "open"
                      /\ pos[net].margin \in Int
                      /\ Calm => OpenIn(pos) \subseteq {net}
    BY <1>8
  <2>1. net \in DOMAIN pos /\ pos[net].status = "open"
    BY DEF OpenIn
  <2>2. pos[net] \in Row
    BY <2>1 DEF IInv
  <2>3. Calm => OpenIn(pos) \subseteq {net}
    BY DEF SInv
  <2> QED
    BY <2>1, <2>2, <2>3 DEF Row
<1>11. Quiet => Matching(pos, locked, drift)
  BY <1>7, MatchesNow
<1>12. locked \in Int /\ drift \in Nat
  BY DEF IInv
<1>13. CASE net = 0 /\ Goes(p, Reserving(Begun("open", 0, {}, NoRow), 0, new, margin, r.qty, 0))
  <2> DEFINE a == Reserving(Begun("open", 0, {}, NoRow), 0, new, margin, r.qty, 0)
  <2>1. /\ a.pc = "reserve" /\ a.op = "open" /\ a.todo = {} /\ a.then = NoRow
        /\ a.plan.id = 0 /\ a.plan.row = new /\ a.plan.cost = margin /\ a.plan.off = 0
    BY DEF Reserving, Doing, Begun
  <2>2. Goes(p, a)
    BY <1>13
  <2> HIDE DEF a, new
  <2>3. Quiet => Agrees(locked + margin, margin, drift + 0)
    <3> SUFFICES ASSUME Quiet PROVE Agrees(locked + margin, margin, drift + 0)
      OBVIOUS
    <3>1. Agrees(locked, 0, drift)
      BY <1>9, <1>13, <1>11, QuietCalm DEF Matching
    <3> QED
      BY <1>5, <1>12, <3>1 DEF Agrees
  <2>4. Steady(a, pos, locked, drift)
    BY <1>6, <1>9, <1>13, <2>1, <2>3, QuietCalm DEF Steady, Fetched, Planned, Single, Locks, Acting
  <2> QED
    BY <1>7, <2>2, <2>4, OneMovesOn
<1>14. ASSUME net > 0, NEW total \in Rounded(pos[net].margin + margin),
              Goes(p, Reserving(Begun("open", 0, {}, NoRow), net, Merged(r, pos[net], total), margin,
                                r.qty, Distance(total, pos[net].margin + margin)))
       PROVE  SInv'
  <2> DEFINE off == Distance(total, pos[net].margin + margin)
             row == Merged(r, pos[net], total)
             a == Reserving(Begun("open", 0, {}, NoRow), net, row, margin, r.qty, off)
  <2>1. /\ a.pc = "reserve" /\ a.op = "open" /\ a.todo = {} /\ a.then = NoRow
        /\ a.plan.id = net /\ a.plan.row = row /\ a.plan.cost = margin /\ a.plan.off = off
    BY DEF Reserving, Doing, Begun
  <2>2. Goes(p, a) /\ row.status = pos[net].status /\ row.margin = total
    BY <1>14 DEF Merged, Changed
  <2>3. pos[net].margin \in Int /\ pos[net].margin + margin \in Int
    BY <1>5, <1>10, <1>14
  <2>4. total \in Int
    BY <1>14, <2>3, RoundedSound DEF IInv
  <2>5. off \in Nat /\ total <= (pos[net].margin + margin) + off
        /\ (off = 0 => total = pos[net].margin + margin)
    BY <2>3, <2>4, DistanceType
  <2> HIDE DEF a, new, row, off
  <2>6. Quiet => Agrees(locked + margin, total, drift + off)
    <3> SUFFICES ASSUME Quiet PROVE Agrees(locked + margin, total, drift + off)
      OBVIOUS
    <3>1. Agrees(locked, pos[net].margin, drift)
      BY <1>8, <1>14, <1>11 DEF Matching
    <3> QED
      BY <1>5, <1>12, <2>3, <2>4, <2>5, <3>1 DEF Agrees
  <2>7. Steady(a, pos, locked, drift)
    BY <1>8, <1>10, <1>14, <2>1, <2>2, <2>6, QuietCalm DEF Steady, Fetched, Planned, Single, Locks, Acting
  <2> QED
    BY <1>7, <2>2, <2>7, OneMovesOn
<1>15. CASE net > 0 /\ Goes(p, Closing(Begun("open", 0, {}, new), [id |-> net, row |-> pos[net]], mark))
  <2> DEFINE a == Closing(Begun("open", 0, {}, new), [id |-> net, row |-> pos[net]], mark)
             row == Ended(pos[net], "closed")
  <2>1. /\ a.pc = "settle" /\ a.op = "open" /\ a.todo = {} /\ a.then = new
        /\ a.plan.id = net /\ a.plan.row = row /\ a.plan.unlock = pos[net].margin /\ a.plan.off = 0
    BY DEF Closing, Settling, Doing, Begun
  <2>2. Goes(p, a) /\ row.status = "closed"
    BY <1>15 DEF Ended, Changed
  <2>3. Kept(row) = 0
    BY <2>2 DEF Kept
  <2> HIDE DEF a, new, row
  <2>4. Quiet => Agrees(locked, Kept(row) + pos[net].margin, drift + 0)
    <3> SUFFICES ASSUME Quiet PROVE Agrees(locked, Kept(row) + pos[net].margin, drift + 0)
      OBVIOUS
    <3>1. Agrees(locked, pos[net].margin, drift)
      BY <1>8, <1>15, <1>11 DEF Matching
    <3>2. Kept(row) + pos[net].margin = pos[net].margin /\ drift + 0 = drift
      BY <1>10, <1>15, <1>12, <2>3
    <3> QED
      BY <3>1, <3>2
  <2>5. Steady(a, pos, locked, drift)
    BY <1>6, <1>8, <1>10, <1>15, <2>1, <2>2, <2>4, QuietCalm DEF Steady, Fetched, Planned, Single, Locks, Acting
  <2> QED
    BY <1>7, <2>2, <2>5, OneMovesOn
<1> QED
  BY <1>4, <1>13, <1>14, <1>15

\* Copies of stored rows are what is stored.
LEMMA CopiesFetched ==
  ASSUME NEW a, NEW ids \in SUBSET DOMAIN pos, a.todo = Copies(ids),
         a.op # "reduce" => \A i \in ids : pos[i].status = "open"
  PROVE  Fetched(a, pos)
BY DEF Fetched, Copies

\* A request about a position.
LEMMA CallSteady ==
  ASSUME IInv, SInv, NEW p \in Procs, NEW r \in deployment.requests, Call(p, r)
  PROVE  SInv'
<1>1. PICK i \in DOMAIN pos : /\ IF r.op = "reduce" THEN pos[i].status # "closed" ELSE pos[i].status = "open"
                              /\ Goes(p, Begun(r.op, r.n, Copies({i}), NoRow))
  BY DEF Call
<1>2. r.op \in {"close", "partial", "add", "reduce", "liquidate"}
  <2>1. r \in Request
    BY DeploymentAssumption DEF IInv
  <2> QED
    BY <2>1 DEF Request
<1> DEFINE a == Begun(r.op, r.n, Copies({i}), NoRow)
<1>3. a.pc = "decide" /\ a.op = r.op /\ a.todo = Copies({i})
  BY DEF Begun
<1>4. Goes(p, a)
  BY <1>1
<1> HIDE DEF a
<1>5. Fetched(a, pos)
  BY <1>1, <1>3, CopiesFetched
<1>6. Quiet => r.op \notin {"add", "reduce"}
  BY DEF Quiet
<1>7. Steady(a, pos, locked, drift)
  BY <1>2, <1>3, <1>5, <1>6 DEF Steady, Planned, Single, Locks, Acting
<1> QED
  BY <1>4, <1>7, OneMovesOn DEF Call, Free

\* A scan of the open positions.
LEMMA ScanSteady ==
  ASSUME IInv, SInv, NEW p \in Procs, NEW op \in {"tpsl", "liquidations", "funding"}, Scan(p, op),
         Quiet => op # "funding"
  PROVE  SInv'
<1>1. PICK ids \in {OpenIds} \cup (IF "db" \in deployment.faults THEN {{}} ELSE {}) :
        Goes(p, Continue(Begun(op, 0, Copies(ids), NoRow)))
  BY DEF Scan
<1>2. ids \in SUBSET DOMAIN pos /\ \A i \in ids : pos[i].status = "open"
  BY <1>1 DEF OpenIds
<1> DEFINE a == Begun(op, 0, Copies(ids), NoRow)
<1>3. a.op = op /\ a.todo = Copies(ids)
  BY DEF Begun
<1>4. Goes(p, Continue(a))
  BY <1>1
<1> HIDE DEF a
<1>5. Fetched(a, pos)
  BY <1>2, <1>3, CopiesFetched
<1>6. Steady(Continue(a), pos, locked, drift)
  BY <1>3, <1>5, ContinueSteady
<1> QED
  BY <1>4, <1>6, OneMovesOn DEF Scan, Free

\* A decision.
LEMMA DecideSteady ==
  ASSUME IInv, SInv, NEW p \in Procs, Decide(p)
  PROVE  SInv'
<1>1. /\ act[p].op \in Ops /\ act[p].n \in Nat /\ act[p].todo \in SUBSET Listed
      /\ \A x \in act[p].todo : Sound(x.row)
  BY DEF IInv, SoundAct, Acts
<1>2. PICK x \in act[p].todo : \E mark \in deployment.prices :
        \E b \in Decision(Begun(act[p].op, act[p].n, act[p].todo \ {x}, NoRow), x, mark) : Goes(p, b)
  BY DEF Decide
<1> DEFINE a == Begun(act[p].op, act[p].n, act[p].todo \ {x}, NoRow)
<1>3. SoundAct(a)
  BY <1>1, BegunSound, NoRowSound
<1>4. a.pc = "decide" /\ a.op = act[p].op /\ a.todo = act[p].todo \ {x} /\ a.then = NoRow
  BY DEF Begun
<1>5. PICK mark \in deployment.prices : \E b \in Decision(a, x, mark) : Goes(p, b)
  BY <1>2
<1> HIDE DEF a
<1>6. PICK b \in Decision(a, x, mark) : Goes(p, b)
  BY <1>5
<1>7. act[p].pc = "decide" /\ mark \in Nat /\ x \in Listed /\ Sound(x.row)
  BY <1>1, DeploymentAssumption DEF IInv, Decide
<1>8. /\ deployment.serial => Fetched(act[p], pos)
      /\ Quiet => act[p].op \notin {"add", "reduce", "funding"}
  BY <1>7, ActSteady DEF Locks
<1>9. deployment.serial => /\ Fetched(a, pos) /\ x.id \in DOMAIN pos /\ x.row = pos[x.id]
                           /\ a.op # "reduce" => x.row.status = "open"
  BY <1>4, <1>8 DEF Fetched
<1>10. deployment.serial => \A y \in a.todo : y.id # x.id
  <2> SUFFICES ASSUME deployment.serial, NEW y \in act[p].todo, y.id = x.id PROVE y = x
    BY <1>4
  <2>1. y.row = x.row
    BY <1>8 DEF Fetched
  <2>2. y \in Listed /\ x \in Listed
    BY <1>1
  <2> QED
    BY <2>1, <2>2 DEF Listed
<1>11. Steady(b, pos, locked, drift)
  <2>1. Quiet => Matching(pos, locked, drift)
    BY <1>7, MatchesNow
  <2> QED
    BY <2>1, <1>3, <1>4, <1>7, <1>8, <1>9, <1>10, DecisionSteady
<1> QED
  BY <1>6, <1>7, <1>11, OneMovesOn DEF Decide

\* A call that has nothing more to do, or whose database gave up.
LEMMA GivesUpSteady ==
  ASSUME IInv, SInv, NEW p \in Procs, act[p].pc # "idle", act[p].pc # "save" \/ ~Quiet,
         Goes(p, Continue(act[p])), UNCHANGED <<deployment, account, pos, drift>>
  PROVE  SInv'
<1>1. /\ deployment.serial => Fetched(act[p], pos)
      /\ Quiet => act[p].op \notin {"add", "reduce", "funding"}
  BY ActSteady DEF Locks
<1>2. Steady(Continue(act[p]), pos, locked, drift)
  BY <1>1, ContinueSteady
<1> QED
  BY <1>2, OneMovesOn

\* Unlocking and paying frees what the row to be written no longer holds.
LEMMA SettleSteady ==
  ASSUME IInv, SInv, NEW p \in Procs, Settle(p)
  PROVE  SInv'
<1> DEFINE a == Doing(act[p], "save", act[p].plan)
           plan == act[p].plan
<1>1. /\ a.pc = "save" /\ a.op = act[p].op /\ a.todo = act[p].todo /\ a.then = act[p].then
      /\ a.plan = plan
  BY DEF Doing
<1>2. /\ act[p].pc = "settle" /\ UNCHANGED <<deployment, pos, drift>>
      /\ locked' = Unlocked(plan.unlock)
      /\ Goes(p, a) \/ ("db" \in deployment.faults /\ Goes(p, Continue(act[p])))
  BY DEF Settle, Refused
<1>3. /\ deployment.serial => Fetched(act[p], pos) /\ Planned(act[p], pos)
      /\ Calm => Single(act[p], pos)
      /\ Quiet => Locks(act[p], pos, locked, drift)
  BY <1>2, ActSteady
<1>4. Calm => \A i, j \in OpenIn(pos') : i = j
  BY <1>2 DEF SInv
<1>5. /\ Sound(plan.row) /\ locked \in Int /\ drift \in Nat /\ plan.off \in Nat
      /\ plan.unlock \in Int /\ (NoCharges => plan.unlock >= 0)
  BY ActSound DEF IInv
<1> HIDE DEF a, plan
<1>6. ASSUME Quiet
      PROVE  Agrees(locked', Kept(plan.row), drift' + plan.off) /\ OpenIn(pos) \subseteq {plan.id}
  <2>1. plan.id \in OpenIn(pos) /\ Agrees(locked, Kept(plan.row) + plan.unlock, drift + plan.off)
    BY <1>2, <1>3, <1>6 DEF Locks, plan
  <2>2. NoCharges
    BY <1>6 DEF Quiet, NoCharges
  <2>3. Kept(plan.row) \in Nat
    BY <1>5, <2>2 DEF Sound, Row, Kept
  <2>4. OpenIn(pos) \subseteq {plan.id}
    BY <1>6, <2>1, QuietCalm DEF SInv
  <2>5. /\ drift' = drift
        /\ \/ locked' = locked /\ ~(locked >= plan.unlock)
           \/ locked' = locked - plan.unlock
    BY <1>2 DEF Unlocked
  <2>6. Agrees(locked', Kept(plan.row), drift' + plan.off)
    BY <1>5, <2>1, <2>2, <2>3, <2>5 DEF Agrees
  <2> QED
    BY <2>4, <2>6
<1>7. Steady(a, pos', locked', drift')
  BY <1>1, <1>2, <1>3, <1>6 DEF Steady, Fetched, Planned, Single, Locks, Acting, plan
<1>8. CASE Goes(p, a)
  BY <1>1, <1>2, <1>4, <1>7, <1>8, OneMoves, OthersRest DEF IInv
<1>9. CASE "db" \in deployment.faults /\ Goes(p, Continue(act[p]))
  <2>1. ~Quiet
    BY <1>9, QuietCalm
  <2>2. PICK c : c = Continue(act[p])
    OBVIOUS
  <2>3. Steady(c, pos', locked', drift')
    BY <1>2, <1>3, <2>1, <2>2, ContinueSteady
  <2> QED
    BY <1>2, <1>4, <1>9, <2>1, <2>2, <2>3, OneMoves, OthersRest DEF IInv
<1> QED
  BY <1>2, <1>8, <1>9

\* A payment that fails.  A liquidation, which goes on, does not fail in quiet.
LEMMA SettleFailsSteady ==
  ASSUME IInv, SInv, NEW p \in Procs, SettleFails(p)
  PROVE  SInv'
<1>1. /\ act[p].pc = "settle" /\ UNCHANGED <<deployment, account, pos, drift>>
      /\ ~Funded(act[p].plan.unlock, act[p].plan.delta) \/ "db" \in deployment.faults
  BY DEF SettleFails, SettleImpossible
<1>2. CASE Goes(p, Continue(act[p]))
  BY <1>1, <1>2, GivesUpSteady
<1>3. CASE act[p].op = "liquidations" /\ Goes(p, Doing(act[p], "save", act[p].plan))
  <2> DEFINE a == Doing(act[p], "save", act[p].plan)
             plan == act[p].plan
  <2>1. /\ a.pc = "save" /\ a.op = act[p].op /\ a.todo = act[p].todo /\ a.then = act[p].then
        /\ a.plan = plan /\ Goes(p, a)
    BY <1>3 DEF Doing
  <2>2. /\ deployment.serial => Fetched(act[p], pos) /\ Planned(act[p], pos)
        /\ Calm => Single(act[p], pos)
        /\ Quiet => Locks(act[p], pos, locked, drift)
    BY <1>1, ActSteady
  <2>3. /\ locked \in Int /\ balance \in Int /\ drift \in Nat /\ locked >= 0
        /\ plan.unlock \in Int /\ plan.off \in Nat
    BY ActSound DEF IInv, Solvent
  <2> HIDE DEF a
  <2>4. ASSUME Quiet
        PROVE  Agrees(locked, Kept(plan.row), drift + plan.off) /\ OpenIn(pos) \subseteq {plan.id}
    <3>1. locked <= balance
      BY <2>4 DEF Quiet, IInv, Solvent
    <3>2. /\ plan.id \in OpenIn(pos) /\ plan.row.status # "open" /\ plan.delta = -plan.unlock
          /\ Agrees(locked, Kept(plan.row) + plan.unlock, drift + plan.off)
      BY <1>1, <1>3, <2>2, <2>4 DEF Locks
    <3>3. ~Funded(plan.unlock, plan.delta)
      BY <1>1, <2>4, QuietCalm
    <3>4. OpenIn(pos) \subseteq {plan.id}
      BY <2>4, <3>2, QuietCalm DEF SInv
    <3> HIDE DEF plan
    <3>5. Kept(plan.row) = 0
      BY <3>2 DEF Kept
    <3>6. drift + plan.off # 0
      <4> SUFFICES ASSUME drift + plan.off = 0 PROVE FALSE
        OBVIOUS
      <4>1. locked = plan.unlock
        BY <2>3, <3>2, <3>5 DEF Agrees
      <4> QED
        BY <2>3, <3>1, <3>2, <3>3, <4>1 DEF Funded, Unlocked
    <3> QED
      BY <2>3, <3>4, <3>5, <3>6 DEF Agrees
  <2>5. Steady(a, pos, locked, drift)
    BY <1>1, <2>1, <2>2, <2>4 DEF Steady, Fetched, Planned, Single, Locks, Acting
  <2> QED
    BY <1>1, <2>1, <2>5, OneMovesOn
<1> QED
  BY <1>2, <1>3 DEF SettleFails, Refused

\* Locking takes what the row to be written will hold more.
LEMMA ReserveSteady ==
  ASSUME IInv, SInv, NEW p \in Procs, Reserve(p)
  PROVE  SInv'
<1>1. /\ act[p].pc = "reserve" /\ locked' = locked + act[p].plan.cost /\ UNCHANGED <<deployment, pos, drift>>
      /\ \/ Goes(p, Doing(act[p], "save", act[p].plan))
         \/ "db" \in deployment.faults /\ Goes(p, Continue(act[p]))
  BY DEF Reserve
<1>2. /\ deployment.serial => Fetched(act[p], pos) /\ Planned(act[p], pos)
      /\ Calm => Single(act[p], pos)
      /\ Quiet => Locks(act[p], pos, locked, drift)
  BY <1>1, ActSteady
<1>3. Calm => \A i, j \in OpenIn(pos') : i = j
  BY <1>1 DEF SInv
<1>4. CASE Goes(p, Doing(act[p], "save", act[p].plan))
  <2> DEFINE a == Doing(act[p], "save", act[p].plan)
             plan == act[p].plan
  <2>1. /\ a.pc = "save" /\ a.op = act[p].op /\ a.todo = act[p].todo /\ a.then = act[p].then
        /\ a.plan = plan /\ Goes(p, a)
    BY <1>4 DEF Doing
  <2> HIDE DEF a
  <2>2. ASSUME Quiet
        PROVE  Agrees(locked', Kept(plan.row), drift' + plan.off) /\ OpenIn(pos) \subseteq {plan.id}
    <3>1. Single(act[p], pos) /\ Locks(act[p], pos, locked, drift)
      BY <1>1, <1>2, <2>2, QuietCalm
    <3>2. plan.row.status = "open" /\ OpenIn(pos) \subseteq {plan.id}
      BY <1>1, <3>1 DEF Locks, Single, Acting
    <3>3. Agrees(locked + plan.cost, plan.row.margin, drift + plan.off)
      BY <1>1, <3>1 DEF Locks
    <3> QED
      BY <1>1, <3>2, <3>3 DEF Kept
  <2>3. Steady(a, pos', locked', drift')
    BY <1>1, <1>2, <2>1, <2>2 DEF Steady, Fetched, Planned, Single, Locks, Acting
  <2> QED
    BY <1>1, <1>3, <2>1, <2>3, OneMoves, OthersRest DEF IInv
<1>5. CASE "db" \in deployment.faults /\ Goes(p, Continue(act[p]))
  <2>1. ~Quiet
    BY <1>5, QuietCalm
  <2>2. PICK a : a = Continue(act[p])
    OBVIOUS
  <2>3. Steady(a, pos', locked', drift')
    BY <1>1, <1>2, <2>1, <2>2, ContinueSteady
  <2> QED
    BY <1>1, <1>3, <1>5, <2>1, <2>2, <2>3, OneMoves, OthersRest DEF IInv
<1> QED
  BY <1>1, <1>4, <1>5

\* What Save leaves of the rows, where it writes one that exists or a new one.
LEMMA SavedRows ==
  ASSUME IInv, SInv, deployment.serial, NEW p \in Procs, Save(p)
  PROVE  LET id == act[p].plan.id
             row == act[p].plan.row
             n == IF id = 0 THEN Len(pos) + 1 ELSE id
         IN  /\ DOMAIN pos' = DOMAIN pos \cup {n} /\ n # 0
             /\ \A i \in DOMAIN pos : i # id => pos'[i] = pos[i]
             /\ pos'[n].status = row.status /\ pos'[n].margin = row.margin
             /\ 0 \notin DOMAIN pos /\ (id = 0 => n \notin DOMAIN pos)
<1> DEFINE id == act[p].plan.id
           row == act[p].plan.row
           n == IF id = 0 THEN Len(pos) + 1 ELSE id
<1>1. pos \in Seq(Row) /\ row \in Row /\ id \in Nat /\ act[p].pc = "save"
  BY ActSound DEF IInv, Sound, Save
<1>2. Planned(act[p], pos)
  BY <1>1, ActSteady
<1>3. \/ id = 0 /\ pos' = Append(pos, row)
      \/ id > 0 /\ pos' = [pos EXCEPT ![id] = Upsert(pos[id], row)]
  BY DEF Save
<1>4. 0 \notin DOMAIN pos /\ Len(pos) + 1 \notin DOMAIN pos /\ Len(pos) \in Nat
  BY <1>1
<1>5. CASE id = 0
  <2>1. pos' = Append(pos, row) /\ n = Len(pos) + 1
    BY <1>3, <1>5
  <2> HIDE DEF row, n
  <2>2. DOMAIN pos' = DOMAIN pos \cup {Len(pos) + 1} /\ pos'[Len(pos) + 1] = row
        /\ \A i \in DOMAIN pos : pos'[i] = pos[i]
    BY <1>1, <2>1
  <2> QED
    BY <1>4, <1>5, <2>1, <2>2 DEF row, n
<1>6. CASE id # 0
  <2>1. id \in DOMAIN pos
    BY <1>1, <1>2, <1>6 DEF Planned, Acting
  <2>2. PICK u : u = Upsert(pos[id], row)
    OBVIOUS
  <2>3. u.status = row.status /\ u.margin = row.margin
    BY <2>2 DEF Upsert, Changed
  <2>4. pos' = [pos EXCEPT ![id] = u]
    BY <1>3, <1>6, <2>2
  <2>5. DOMAIN pos' = DOMAIN pos /\ pos'[id] = u /\ \A i \in DOMAIN pos : i # id => pos'[i] = pos[i]
    BY <2>1, <2>4
  <2> QED
    BY <1>4, <1>6, <2>1, <2>3, <2>5
<1> QED
  BY <1>5, <1>6

\* Writing the row.
LEMMA SaveSteady ==
  ASSUME IInv, SInv, NEW p \in Procs, Save(p)
  PROVE  SInv'
<1> DEFINE id == act[p].plan.id
           row == act[p].plan.row
           then == act[p].then
           n == IF id = 0 THEN Len(pos) + 1 ELSE id
<1>1. act[p].pc = "save" /\ deployment' = deployment /\ locked' = locked
  BY DEF Save, account
<1>2. PICK a : /\ Goes(p, a)
               /\ \/ then = NoRow /\ a = Continue(act[p])
                  \/ /\ then # NoRow
                     /\ a = Reserving(Begun(act[p].op, act[p].n, act[p].todo, NoRow), 0,
                                      then, then.margin, then.qty, 0)
  BY DEF Save
<1>3. CASE ~deployment.serial
  <2>1. ~Calm /\ ~Quiet
    BY <1>3, QuietCalm
  <2>2. Steady(a, pos', locked', drift')
    BY <1>3, <2>1 DEF Steady
  <2> QED
    BY <1>1, <1>2, <1>3, <2>1, <2>2, OneMoves DEF IInv
<1>4. CASE deployment.serial
  <2>1. /\ DOMAIN pos' = DOMAIN pos \cup {n} /\ n # 0
        /\ \A i \in DOMAIN pos : i # id => pos'[i] = pos[i]
        /\ pos'[n].status = row.status /\ pos'[n].margin = row.margin
        /\ 0 \notin DOMAIN pos /\ (id = 0 => n \notin DOMAIN pos)
        /\ (id # 0 => n = id)
    BY <1>4, SavedRows
  <2>2. /\ Fetched(act[p], pos) /\ Planned(act[p], pos)
        /\ Calm => Single(act[p], pos)
        /\ Quiet => Locks(act[p], pos, locked, drift)
    BY <1>1, <1>4, ActSteady
  <2>3. /\ row.margin \in Int /\ drift \in Nat /\ act[p].plan.off \in Nat /\ locked \in Int
        /\ drift' = drift + act[p].plan.off
    BY <1>1, ActSound DEF Sound, Row, IInv, Save
  <2> HIDE DEF n
  <2>4. Fetched(act[p], pos')
    <3>1. \A x \in act[p].todo : x.id \in DOMAIN pos /\ x.id # id
      BY <1>1, <2>1, <2>2 DEF Fetched, Planned, Acting
    <3> QED
      BY <2>1, <2>2, <3>1 DEF Fetched
  <2>5. OpenIn(pos) \subseteq {id} => OpenIn(pos') = IF row.status = "open" THEN {n} ELSE {}
    BY <2>1 DEF OpenIn
  <2>6. row.status # "open" => OpenIn(pos') \subseteq OpenIn(pos)
    BY <2>1 DEF OpenIn
  <2>7. Calm => \A i, j \in OpenIn(pos') : i = j
    <3>1. Calm /\ row.status = "open" => OpenIn(pos) \subseteq {id}
      BY <1>1, <2>2 DEF Single, Acting
    <3>2. Calm => \A i, j \in OpenIn(pos) : i = j
      BY DEF SInv
    <3> QED
      BY <2>5, <2>6, <3>1, <3>2
  <2>8. Quiet => Matching(pos', locked', drift')
    <3> SUFFICES ASSUME Quiet PROVE Matching(pos', locked', drift')
      OBVIOUS
    <3>1. OpenIn(pos) \subseteq {id} /\ Agrees(locked, Kept(row), drift + act[p].plan.off)
      BY <1>1, <2>2 DEF Locks
    <3>2. Agrees(locked', Kept(row), drift')
      BY <1>1, <2>3, <3>1
    <3> QED
      BY <2>1, <2>5, <3>1, <3>2 DEF Matching, Kept
  <2>9. Steady(a, pos', locked', drift')
    <3>1. CASE then = NoRow
      BY <1>2, <2>2, <2>4, <3>1, ContinueSteady DEF Locks
    <3>2. CASE then # NoRow
      <4>1. /\ a.pc = "reserve" /\ a.op = act[p].op /\ a.todo = act[p].todo /\ a.then = NoRow
            /\ a.plan.id = 0 /\ a.plan.row = then /\ a.plan.cost = then.margin /\ a.plan.off = 0
        BY <1>2, <3>2 DEF Reserving, Doing, Begun
      <4>2. Fetched(a, pos') /\ Planned(a, pos')
        BY <2>4, <4>1 DEF Fetched, Planned
      <4>3. Calm => OpenIn(pos') = {}
        <5> SUFFICES ASSUME Calm PROVE OpenIn(pos') = {}
          OBVIOUS
        <5>1. row.status # "open" /\ OpenIn(pos) \subseteq {id}
          BY <1>1, <2>2, <3>2 DEF Single, Acting
        <5> QED
          BY <2>5, <5>1
      <4>4. Quiet => then.status = "open" /\ act[p].op \notin {"add", "reduce", "funding"}
        BY <1>1, <2>2, <3>2 DEF Locks, Acting
      <4>5. then.margin \in Int
        BY ActSound DEF SoundAct, Fresh
      <4> HIDE DEF then
      <4>6. Calm => Single(a, pos')
        BY <4>1, <4>3 DEF Single
      <4>7. Quiet => Agrees(locked' + then.margin, then.margin, drift' + 0)
        <5>1. Quiet => Agrees(locked', 0, drift')
          BY <2>8, <4>3, QuietCalm DEF Matching
        <5> QED
          BY <1>1, <2>3, <4>5, <5>1 DEF Agrees
      <4>8. Quiet => Locks(a, pos', locked', drift')
        BY <4>1, <4>4, <4>7 DEF Locks, Acting
      <4> QED
        BY <4>2, <4>6, <4>8 DEF Steady
    <3> QED
      BY <3>1, <3>2
  <2> QED
    BY <1>1, <1>2, <2>7, <2>8, <2>9, OneMoves, OthersRest DEF IInv
<1> QED
  BY <1>3, <1>4

\* A row that cannot be written.
LEMMA SaveFailsSteady ==
  ASSUME IInv, SInv, NEW p \in Procs, SaveFails(p)
  PROVE  SInv'
BY GivesUpSteady, QuietCalm DEF SaveFails

\* A goroutine ending, which does not happen in a calm.
LEMMA CrashSteady ==
  ASSUME IInv, SInv, NEW p \in Procs, Crash(p)
  PROVE  SInv'
<1>1. ~Calm /\ ~Quiet
  BY QuietCalm DEF Crash
<1>2. PICK a : a = Rest("none")
  OBVIOUS
<1>3. a.pc = "idle"
  BY <1>2 DEF Rest
<1>4. Steady(a, pos, locked, drift)
  BY <1>1, <1>3 DEF Steady
<1> QED
  BY <1>1, <1>2, <1>4, OneMovesOn DEF Crash

\* Nobody is in the middle of anything at first.
LEMMA InitSInv == Init => SInv
<1> SUFFICES ASSUME Init PROVE SInv
  OBVIOUS
<1>1. \A p \in Procs : act[p].pc = "idle" /\ act[p].op = "none"
  BY DEF Init, Rest
<1>2. pos = << >> /\ locked = 0 /\ drift = 0
  BY DEF Init
<1>3. OpenIn(pos) = {}
  BY <1>2 DEF OpenIn
<1>4. \A p \in Procs : Steady(act[p], pos, locked, drift)
  BY <1>1 DEF Steady, Single, Locks, Acting
<1> QED
  BY <1>1, <1>2, <1>3, <1>4 DEF SInv, Matching, Agrees

\* Every step keeps it.
LEMMA NextSInv == IInv /\ SInv /\ [Next]_vars => SInv'
<1> SUFFICES ASSUME IInv, SInv, [Next]_vars PROVE SInv'
  OBVIOUS
<1>1. ASSUME NEW p \in Handlers, NEW r \in deployment.opens,
             OpenPosition(p, r) \/ CreateOrder(p, r)
      PROVE  SInv'
  BY <1>1, OpenSteady DEF Procs, OpenPosition, CreateOrder
<1>2. ASSUME NEW p \in Handlers, NEW r \in deployment.requests, Call(p, r) PROVE SInv'
  BY <1>2, CallSteady DEF Procs
<1>3. ASSUME NEW p \in Tickers, TickerScan(p) PROVE SInv'
  BY <1>3, ScanSteady DEF TickerScan, Procs
<1>4. ASSUME NEW p \in Funders, FundingScan(p) PROVE SInv'
  BY <1>4, ScanSteady DEF FundingScan, Procs, Quiet
<1>5. ASSUME NEW p \in Procs, ReserveFails(p) PROVE SInv'
  BY <1>5, GivesUpSteady DEF ReserveFails
<1>6. ASSUME NEW p \in Procs, Step(p) PROVE SInv'
  BY <1>5, <1>6, DecideSteady, SettleSteady, SettleFailsSteady, ReserveSteady, SaveSteady, SaveFailsSteady DEF Step
<1>7. CASE UNCHANGED vars
  BY <1>7 DEF vars, account, SInv, Steady, Fetched, Planned, Single, Locks, Matching, OpenIn, Quiet, Calm
<1> QED
  BY <1>1, <1>2, <1>3, <1>4, <1>6, <1>7, CrashSteady DEF Next

(***************************************************************************)
(* As long as calls do not overlap or fail there is one open position at   *)
(* most; its margin is locked but for what has been rounded, and if        *)
(* nothing has, no more is locked (OpenPosition, mergeSameSidePosition,    *)
(* closePosition and CheckLiquidations, futures_handler.go).               *)
(***************************************************************************)
THEOREM FuturesAccounted == Spec => []PositionsAccounted
<1>1. IInv /\ SInv => PositionsAccounted
  <2> SUFFICES ASSUME IInv, SInv PROVE PositionsAccounted
    OBVIOUS
  <2>1. OpenIds = OpenIn(pos)
    BY DEF OpenIds, OpenIn
  <2>2. Calm => OpenIds = {} \/ \E i \in OpenIds : OpenIds = {i}
    BY <2>1 DEF SInv
  <2>3. OneOpenPosition
    <3>1. Cardinality({}) = 0 /\ \A i : Cardinality({i}) = 1
      BY FS_EmptySet, FS_Singleton
    <3> QED
      BY <2>2, <3>1 DEF OneOpenPosition
  <2>4. LocksMatch
    <3> SUFFICES ASSUME Quiet, AllIdle
                 PROVE  LET margins == MapThenSumSet(LAMBDA i : Margins[i], OpenIds)
                        IN locked >= margins - drift /\ (drift = 0 => locked = margins)
      BY DEF LocksMatch, Quiet
    <3>1. Matching(pos, locked, drift)
      BY DEF SInv, AllIdle
    <3>2. \A m : m = SumOver(Margins, OpenIds) /\ Agrees(locked, m, drift) =>
            LET margins == MapThenSumSet(LAMBDA i : Margins[i], OpenIds)
            IN locked >= margins - drift /\ (drift = 0 => locked = margins)
      BY DEF SumOver, Agrees
    <3>3. CASE OpenIds = {}
      <4>1. SumOver(Margins, OpenIds) = 0 /\ Agrees(locked, 0, drift)
        BY <2>1, <3>1, <3>3, SumEmpty DEF Matching
      <4> QED
        BY <4>1, <3>2
    <3>4. CASE \E i \in OpenIds : OpenIds = {i}
      <4>1. PICK i \in OpenIds : OpenIds = {i}
        BY <3>4
      <4>2. Margins[i] = pos[i].margin /\ Agrees(locked, pos[i].margin, drift)
        BY <2>1, <3>1 DEF Margins, Matching
      <4>3. SumOver(Margins, OpenIds) = Margins[i]
        <5>1. Margins[i] \in Int
          <6>1. pos[i] \in Row
            BY <2>1 DEF IInv, OpenIn
          <6> QED
            BY <4>2, <6>1 DEF Row
        <5>2. SumOver(Margins, {} \cup {i}) = SumOver(Margins, {}) + Margins[i]
          BY <5>1, SumAdd, FS_EmptySet DEF IntOn
        <5>3. SumOver(Margins, {}) = 0
          BY SumEmpty
        <5>4. SumOver(Margins, {} \cup {i}) = Margins[i]
          BY <5>1, <5>2, <5>3
        <5>5. {} \cup {i} = OpenIds
          BY <4>1
        <5> QED
          BY <5>4, <5>5
      <4> QED
        BY <4>2, <4>3, <3>2
    <3> QED
      BY <2>2, <3>3, <3>4, QuietCalm
  <2> QED
    BY <2>3, <2>4 DEF PositionsAccounted
<1> QED
  BY <1>1, InitIInv, NextIInv, InitSInv, NextSInv, PTL DEF Spec

\* A position that was closed or liquidated stays so, as long as calls do not
\* overlap, also when they fail (SavePosition writes rows back whole, pg_futures.go).
THEOREM FuturesEndForGood == Spec => EndsForGood
<1>1. ASSUME IInv, SInv, [Next]_vars
      PROVE  [deployment.serial =>
                \A i \in DOMAIN pos : pos[i].status # "open" => pos'[i].status = pos[i].status]_vars
  <2> SUFFICES ASSUME deployment.serial, NEW i \in DOMAIN pos, pos[i].status # "open"
               PROVE  pos'[i].status = pos[i].status
    OBVIOUS
  <2>1. CASE \E p \in Procs : Save(p)
    <3>1. PICK p \in Procs : Save(p)
      BY <2>1
    <3>2. act[p].pc = "save"
      BY <3>1 DEF Save
    <3>3. Planned(act[p], pos)
      BY <1>1, <3>2, ActSteady
    <3>4. /\ i # act[p].plan.id => pos'[i] = pos[i]
          /\ act[p].plan.id # 0 => pos'[act[p].plan.id].status = act[p].plan.row.status
          /\ 0 \notin DOMAIN pos
      BY <1>1, <3>1, SavedRows
    <3> QED
      BY <1>1, <3>2, <3>3, <3>4 DEF Planned, Acting
  <2>2. CASE pos' = pos
    BY <2>2
  <2>3. (\E p \in Procs : Save(p)) \/ pos' = pos
    BY <1>1 DEF Next, OpenPosition, CreateOrder, Open, Call, TickerScan, FundingScan, Scan, Step,
      Decide, Settle, SettleFails, SettleImpossible, Reserve, ReserveFails, SaveFails, Crash, vars
  <2> QED
    BY <2>1, <2>2, <2>3
<1> QED
  BY <1>1, InitIInv, NextIInv, InitSInv, NextSInv, PTL DEF Spec, EndsForGood
=============================================================================
