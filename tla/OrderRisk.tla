------------------------------ MODULE OrderRisk ------------------------------
(***************************************************************************)
(* The checks an order passes before it reaches the engine                 *)
(* (internal/risk/risk.go, called by ExchangeEngine.SubmitOrder), for one  *)
(* pair and one user.  A check reads the pair's configuration and the      *)
(* user's limits through pointers which trades (the reference price, set   *)
(* by the bridge) and administrators (admin_handler.go) write meanwhile,   *)
(* field by field; only the breaker and the counters have locks of their   *)
(* own.  A check that reads the reference price several times may see      *)
(* several of them.                                                        *)
(*                                                                         *)
(* Prices and quantities are integers, percentages are out of 100.  The    *)
(* counter of open orders is left out: no program calls RecordOpen.        *)
(***************************************************************************)
EXTENDS Integers, Sequences, FiniteSets

CONSTANTS
  RiskSetups,       \* orders, trade prices, what administrators set, and bounds
  DefaultRisk,      \* defaultPairRisk
  Submitters,       \* orders being checked in parallel
  Minute, Hour, Day, NearDivisor   \* windows; nearIntegral's 1e9

\* What administrators write, as admin_handler.go parses it.
PairNumbers == {"minNotional", "maxNotional", "minQty", "maxQty", "tick", "lot", "band", "breaker", "ref"}
PairSwitches == {"trading", "marketOrders"}
UserNumbers == {"perMinute", "perHour", "perDay", "maxPosition"}
FieldEdits ==
  [of : {"pair"}, field : PairNumbers, to : Int] \cup [of : {"pair"}, field : PairSwitches, to : BOOLEAN]
    \cup [of : {"user"}, field : UserNumbers, to : Int]

ASSUME RiskAssumption ==
  /\ Minute \in Nat \ {0} /\ Hour \in Nat /\ Day \in Nat /\ Hour >= Minute /\ Day >= Hour
  /\ NearDivisor \in Nat \ {0} /\ PairNumbers \cup PairSwitches = DOMAIN DefaultRisk
  /\ \A s \in RiskSetups :
       /\ s.checks \in Nat /\ s.updates \in Nat /\ s.maxTime \in Nat /\ s.faults \in Nat
       /\ s.trades \subseteq Nat \ {0} /\ s.edits \subseteq Seq(FieldEdits)

VARIABLES
  riskSetup,
  riskClock,
  pairConfig,     \* the PairConfig all share by its pointer
  userLimit,      \* the UserLimit, "none" before it is set
  tripped,        \* Engine.tripped of the pair
  orderCounts,    \* Engine.orderCounts of the user: a time, and which of the orders of that time
  check,          \* where each check is, and the reference prices since its last step
  adminEdit,      \* the fields an administrator's request has still to write
  passed,         \* history: orders let through, with the limits they were checked against
  defied,         \* and those among them that a tripped breaker should have stopped
  checks, updates, riskFaults

riskVars == <<riskSetup, riskClock, pairConfig, userLimit, tripped, orderCounts, check, adminEdit,
              passed, defied, checks, updates, riskFaults>>
riskConfig == <<riskSetup, pairConfig, userLimit, adminEdit, updates>>

NoCheck == [step |-> "none"]
NotCounted == [time |-> 0, nth |-> 0]
NoLimit == [set |-> FALSE, perMinute |-> 0, perHour |-> 0, perDay |-> 0, maxPosition |-> 0]

-----------------------------------------------------------------------------
(* The rules *)

\* Integral up to a relative tolerance: an exact multiple, or so large a number
\* of lots that the remainder is within the tolerance.
NearIntegral(q, unit) ==
  LET r == q % unit
      d == IF 2 * r > unit THEN unit - r ELSE r
  IN  d * NearDivisor <= q

Above(x, max) == max > 0 /\ x > max
Below(x, min) == min > 0 /\ x < min

QuantityFits(o, cfg) ==
  cfg.lot > 0 => o.qty > 0 /\ NearIntegral(o.qty, cfg.lot) /\ ~Above(o.qty, cfg.maxQty) /\ ~Below(o.qty, cfg.minQty)
PriceFits(o, cfg) == cfg.tick > 0 /\ o.price > 0 => NearIntegral(o.price, cfg.tick)

\* A market order's notional is its quantity.
Notional(o) == IF o.price > 0 THEN o.price * o.qty ELSE o.qty
NotionalFits(o, cfg) ==
  Notional(o) > 0 /\ ~Below(Notional(o), cfg.minNotional) /\ ~Above(Notional(o), cfg.maxNotional)

\* The checks read the reference two or three times, in this order.
Reads(c, n) == {f \in [1..n -> 1..Len(check[c].refs)] : \A i \in 1..n - 1 : f[i] <= f[i + 1]}
Ref(c, f, i) == check[c].refs[f[i]]
Abs(x) == IF x < 0 THEN -x ELSE x

Deviates(c, o, cfg, f) == 100 * Abs(o.price - Ref(c, f, 1)) > cfg.breaker * Ref(c, f, 2)
InBand(c, o, cfg, f) ==
  /\ 100 * o.price >= 100 * Ref(c, f, 2) - cfg.band * Ref(c, f, 1)
  /\ 100 * o.price <= 100 * Ref(c, f, 3) + cfg.band * Ref(c, f, 1)

\* The times of the last day that still count; counting is done under a lock.
Since(times, window) == {t \in times : t.time > riskClock - window}
\* MUTANT for RulesRemember: what is older than an hour is forgotten.
Mutant_PruneByHour(times) == Since(times, Hour)
Pruned(times) == Since(times, Day)

WithinRates(times, lim) ==
  /\ ~(lim.perDay > 0 /\ Cardinality(times) >= lim.perDay)
  /\ ~(lim.perHour > 0 /\ Cardinality(Since(times, Hour)) >= lim.perHour)
  /\ ~(lim.perMinute > 0 /\ Cardinality(Since(times, Minute)) >= lim.perMinute)
Counted(times) == [time |-> riskClock, nth |-> Cardinality({t \in times : t.time = riskClock})]

-----------------------------------------------------------------------------
(* Engine.Check, one step per check that touches what others write *)

Refused(c)  == check' = [check EXCEPT ![c] = NoCheck]
NextCheck(c, step) == check' = [check EXCEPT ![c].step = step, ![c].refs = <<pairConfig.ref>>]
At(c, step) == check[c].step = step

\* For the history: the breaker is tripped, and on, when the check begins.
Check(c) ==
  /\ At(c, "none") /\ checks < riskSetup.checks /\ checks' = checks + 1
  /\ \E o \in riskSetup.orders :
       IF pairConfig.trading /\ (o.price = 0 => pairConfig.marketOrders)
       THEN check' = [check EXCEPT ![c] = [step |-> "breaker", order |-> o, refs |-> <<pairConfig.ref>>,
              shut |-> tripped /\ pairConfig.breaker > 0, limit |-> NoLimit, counted |-> NotCounted]]
       ELSE check' = check
  /\ UNCHANGED <<riskConfig, riskClock, tripped, orderCounts, passed, defied, riskFaults>>

Breaker(c) ==
  LET o == check[c].order
      cfg == pairConfig
  IN  IF cfg.breaker > 0 /\ tripped THEN Refused(c) /\ UNCHANGED tripped
      ELSE \E f \in Reads(c, 2) :
        LET trips == cfg.breaker > 0 /\ cfg.ref > 0 /\ o.price > 0 /\ Deviates(c, o, cfg, f) IN
        /\ tripped' = (tripped \/ trips)
        /\ IF trips THEN Refused(c) ELSE NextCheck(c, "values")

CheckCircuitBreaker(c) ==
  /\ At(c, "breaker") /\ Breaker(c)
  /\ UNCHANGED <<riskConfig, riskClock, orderCounts, passed, defied, checks, riskFaults>>

CheckValues(c) ==
  LET o == check[c].order
  IN  /\ At(c, "values")
      /\ IF QuantityFits(o, pairConfig) /\ PriceFits(o, pairConfig) /\ NotionalFits(o, pairConfig)
         THEN NextCheck(c, "band") ELSE Refused(c)
      /\ UNCHANGED <<riskConfig, riskClock, tripped, orderCounts, passed, defied, checks, riskFaults>>

CheckPriceBand(c) ==
  LET o == check[c].order
      skipped == pairConfig.band <= 0 \/ pairConfig.ref <= 0 \/ o.price = 0
  IN  /\ At(c, "band")
      /\ \E f \in Reads(c, 3) :
           IF skipped \/ InBand(c, o, pairConfig, f) THEN NextCheck(c, "rate") ELSE Refused(c)
      /\ UNCHANGED <<riskConfig, riskClock, tripped, orderCounts, passed, defied, checks, riskFaults>>

\* An order without limits in force is not counted; one that is counted stays
\* counted, whatever comes after.
CheckUserRateLimits(c) ==
  LET times == Pruned(orderCounts)
  IN  /\ At(c, "rate")
      /\ IF ~userLimit.set THEN NextCheck(c, "position") /\ UNCHANGED orderCounts
         ELSE IF WithinRates(times, userLimit)
         THEN /\ orderCounts' = times \cup {Counted(times)}
              /\ check' = [check EXCEPT ![c].step = "position", ![c].limit = userLimit, ![c].counted = Counted(times)]
         ELSE Refused(c) /\ UNCHANGED orderCounts
      /\ UNCHANGED <<riskConfig, riskClock, tripped, passed, defied, checks, riskFaults>>

\* A bound on the order's own quantity; past it the order goes to its engine.
CheckPositionLimit(c) ==
  LET o == check[c].order
  IN  /\ At(c, "position") /\ Refused(c)
      /\ IF userLimit.set /\ Above(o.qty, userLimit.maxPosition) THEN UNCHANGED <<passed, defied>>
         ELSE /\ passed' = passed \cup (IF check[c].limit.set
                   THEN {[counted |-> check[c].counted, limit |-> check[c].limit]} ELSE {})
              /\ defied' = (defied \/ check[c].shut)
      /\ UNCHANGED <<riskConfig, riskClock, tripped, orderCounts, checks, riskFaults>>

-----------------------------------------------------------------------------
(* Who writes the configuration *)

\* A trade: consumeTrades of the bridge.
UpdateReferencePrice ==
  /\ updates < riskSetup.updates /\ updates' = updates + 1
  /\ \E p \in riskSetup.trades :
       /\ pairConfig' = [pairConfig EXCEPT !.ref = p]
       /\ check' = [c \in Submitters |->
            IF check[c] = NoCheck THEN NoCheck ELSE [check[c] EXCEPT !.refs = Append(@, p)]]
  /\ UNCHANGED <<riskSetup, userLimit, adminEdit, riskClock, tripped, orderCounts, passed, defied, checks, riskFaults>>

\* UpdatePairRisk, PairControl, UpdateUserRisk: fields of the shared record, one
\* after the other; those a request does not name stay.
BeginUpdate ==
  /\ adminEdit = <<>> /\ updates < riskSetup.updates /\ updates' = updates + 1
  /\ \E edit \in riskSetup.edits : adminEdit' = edit
  /\ UNCHANGED <<riskSetup, pairConfig, userLimit, riskClock, tripped, orderCounts, check, passed, defied, checks, riskFaults>>

\* Switching the breaker off lets in whom it had stopped.
WriteField ==
  /\ adminEdit # <<>> /\ adminEdit' = Tail(adminEdit)
  /\ LET e == Head(adminEdit) IN
     IF e.of = "pair"
     THEN /\ pairConfig' = [pairConfig EXCEPT ![e.field] = e.to] /\ UNCHANGED userLimit
          /\ check' = [c \in Submitters |->
               IF check[c] = NoCheck THEN NoCheck
               ELSE [check[c] EXCEPT !.shut = @ /\ (e.field = "breaker" => e.to > 0),
                                     !.refs = IF e.field = "ref" THEN Append(@, e.to) ELSE @]]
     ELSE /\ userLimit' = [userLimit EXCEPT !.set = TRUE, ![e.field] = e.to]
          /\ UNCHANGED <<pairConfig, check>>
  /\ UNCHANGED <<riskSetup, riskClock, tripped, orderCounts, passed, defied, checks, updates, riskFaults>>

RiskTick ==
  /\ riskClock < riskSetup.maxTime /\ riskClock' = riskClock + 1
  /\ UNCHANGED <<riskConfig, tripped, orderCounts, check, passed, defied, checks, riskFaults>>

\* The engine is a part of the gateway and keeps nothing.
RiskRestart ==
  /\ riskFaults < riskSetup.faults /\ riskFaults' = riskFaults + 1
  /\ pairConfig' = DefaultRisk /\ userLimit' = NoLimit /\ tripped' = FALSE
  /\ orderCounts' = {} /\ check' = [c \in Submitters |-> NoCheck] /\ adminEdit' = <<>>
  /\ passed' = {}
  /\ UNCHANGED <<riskSetup, riskClock, defied, checks, updates>>

RiskInit ==
  /\ riskSetup \in RiskSetups
  /\ riskClock = 0 /\ pairConfig = DefaultRisk /\ userLimit = NoLimit /\ tripped = FALSE
  /\ orderCounts = {} /\ check = [c \in Submitters |-> NoCheck] /\ adminEdit = <<>>
  /\ passed = {} /\ defied = FALSE
  /\ checks = 0 /\ updates = 0 /\ riskFaults = 0

RiskNext ==
  \/ \E c \in Submitters :
       \/ Check(c) \/ CheckCircuitBreaker(c) \/ CheckValues(c) \/ CheckPriceBand(c)
       \/ CheckUserRateLimits(c) \/ CheckPositionLimit(c)
  \/ UpdateReferencePrice \/ BeginUpdate \/ WriteField
  \/ RiskTick \/ RiskRestart

RiskSpec == RiskInit /\ [][RiskNext]_riskVars

-----------------------------------------------------------------------------
(* Properties *)

\* "Once tripped, the breaker latches open: every subsequent order for the pair
\* (including market orders) is rejected": no order whose check begins after
\* the breaker has tripped is let through, whatever trades and administrators
\* write while it is checked, unless the breaker is switched off.
BreakerHolds == ~defied

\* Orders let through never exceed the limits per minute, hour and day that the
\* last of them was checked against, although checks overlap, refused orders
\* count too and limits are written field by field.
Within(e, window) == {d \in passed : d.counted.time > e.counted.time - window /\ d.counted.time <= e.counted.time}
OrderRateHolds ==
  \A e \in passed :
    LET Fits(n, window) == n > 0 => Cardinality(Within(e, window)) <= n
    IN  (\A d \in passed : d.counted.time = e.counted.time => d.limit = e.limit) =>
          Fits(e.limit.perMinute, Minute) /\ Fits(e.limit.perHour, Hour) /\ Fits(e.limit.perDay, Day)

\* The two rules of the engine that remember earlier orders hold together.
RulesRemember == BreakerHolds /\ OrderRateHolds
==============================================================================
