------------------------------ MODULE MCGateway ------------------------------
(***************************************************************************)
(* Instances of what a gateway does around its requests: sockets, limits,  *)
(* sessions, accounts, the audit log, risk checks and market data.  They   *)
(* share no state the models keep, so that a behaviour is about one of     *)
(* them: part says which, and the setups of the others stay at one value.  *)
(***************************************************************************)
EXTENDS WebsocketHub, RateLimits, Sessions, Accounts, AuditLog, OrderRisk, MarketData, TLC

VARIABLE part

\* One limiter in memory, over its capacity and asked by two at once; one in
\* Redis, asked by two at once or by one whose key dies, or gone.
Limit(site, cache, gs, cs, ks, cap) ==
  [site |-> site, cache |-> cache, gateways |-> gs, callers |-> cs, keys |-> ks, capacity |-> cap]
Limiters ==
  {Limit("http", "memory", {"gw1"}, {}, {"k1"}, 2), Limit("ws", "memory", {"gw1"}, {1, 2}, {"k1", "k2"}, 1),
   Limit("lockout", "redis", {"gw1", "gw2"}, {1, 2}, {"k1"}, 1), Limit("ws", "redis", {"gw1"}, {1, 2}, {"k1"}, 1),
   Limit("http", "redis", {"gw1"}, {1}, {"k1"}, 1)}

\* Two domains that are no power of four, so that the walk has to cycle.
Digits == <<[size |-> 3, half |-> 1, shift |-> 10], [size |-> 5, half |-> 2, shift |-> 20]>>
Round(a, b) == [x \in 0..3 |-> (a * x + b) % 4]
Rounds == {<<Round(a, 1), Round(b, c), Round(3, 2)>> : a \in 0..1, b \in 1..2, c \in 0..1}

\* A breaker set and cleared by trades; the limits of a user, moved; orders at
\* the edge of every field of a pair.
DefaultPair ==
  [trading |-> TRUE, marketOrders |-> TRUE, minNotional |-> 5, maxNotional |-> 100, minQty |-> 1, maxQty |-> 8,
   tick |-> 2, lot |-> 2, band |-> 50, breaker |-> 50, ref |-> 0]
Order(p, q) == [price |-> p, qty |-> q]
OfPair(f, v) == [of |-> "pair", field |-> f, to |-> v]
OfUser(f, v) == [of |-> "user", field |-> f, to |-> v]
Risk(os, ts, es, n, m, t, k) ==
  [orders |-> os, trades |-> ts, edits |-> es, checks |-> n, updates |-> m, maxTime |-> t, faults |-> k]
RiskCases ==
  {Risk({Order(10, 2), Order(20, 2)}, {10, 20}, {<<OfPair("breaker", 0)>>}, 2, 2, 0, 1),
   Risk({Order(20, 2)}, {10}, {<<OfPair("breaker", 0)>>, <<OfPair("ref", 10)>>}, 3, 2, 0, 0),
   Risk({Order(10, 2)}, {}, {<<OfUser("perMinute", 1), OfUser("perHour", 2), OfUser("perDay", 2), OfUser("maxPosition", 3)>>}, 3, 1, 2, 0),
   Risk({Order(9, 2), Order(10, 3), Order(0, 2), Order(0, 6), Order(10, 4), Order(10, 12)}, {8},
        {<<OfUser("maxPosition", 2), OfUser("perMinute", 1)>>, <<OfPair("trading", FALSE), OfPair("band", 10)>>}, 1, 2, 0, 0)}

\* Trades across buckets; one that is not saved, and a restart that executes them
\* again; the consumer of another process; the simulator beside the bridge.
Market(t, u, m, f, r, o) ==
  [trades |-> t, simulated |-> u, maxTime |-> m, saveFaults |-> f, restarts |-> r, outside |-> o]
MarketCases == {Market(3, 0, 2, 0, 0, FALSE), Market(2, 0, 2, 1, 1, FALSE), Market(3, 0, 1, 0, 1, FALSE),
                Market(1, 0, 1, 1, 1, TRUE), Market(1, 1, 1, 0, 0, FALSE)}
Lengths1 == <<1, 2>>

-----------------------------------------------------------------------------
vars == <<part, hubVars, limVars, sessionVars, accountVars, auditVars, riskVars, marketVars>>

Init ==
  /\ part \in {"hub", "limits", "sessions", "accounts", "audit", "risk", "market"}
  /\ HubInit /\ (part = "hub" \/ maxConn = CHOOSE n \in MaxConns : TRUE)
  /\ SessionInit
  /\ LimitInit /\ (part = "limits" \/ limSetup = CHOOSE s \in LimitSetups : TRUE)
  /\ AccountInit /\ (part = "accounts" \/ (uidSeq = 0 /\ rounds = CHOOSE f \in RoundFunctions : TRUE))
  /\ AuditInit /\ (part = "audit" \/ hasStore)
  /\ RiskInit /\ (part = "risk" \/ riskSetup = CHOOSE s \in RiskSetups : TRUE)
  /\ MarketInit /\ (part = "market" \/ marketSetup = CHOOSE s \in MarketSetups : TRUE)

OthersOfHub == <<part, limVars, sessionVars, accountVars, auditVars, riskVars, marketVars>>

Next ==
  \/ part = "hub" /\ HubNext /\ UNCHANGED OthersOfHub
  \/ part = "limits" /\ LimitNext /\ UNCHANGED <<part, hubVars, sessionVars, accountVars, auditVars, riskVars, marketVars>>
  \/ part = "sessions" /\ SessionNext /\ UNCHANGED <<part, hubVars, limVars, accountVars, auditVars, riskVars, marketVars>>
  \/ part = "accounts" /\ AccountNext /\ UNCHANGED <<part, hubVars, limVars, sessionVars, auditVars, riskVars, marketVars>>
  \/ part = "audit" /\ AuditNext /\ UNCHANGED <<part, hubVars, limVars, sessionVars, accountVars, riskVars, marketVars>>
  \/ part = "risk" /\ RiskNext /\ UNCHANGED <<part, hubVars, limVars, sessionVars, accountVars, auditVars, marketVars>>
  \/ part = "market" /\ MarketNext /\ UNCHANGED <<part, hubVars, limVars, sessionVars, accountVars, auditVars, riskVars>>

\* HubFairness, for the hub is the only part that has to end something.
Fairness == \A c \in Conns :
  /\ WF_vars(part = "hub" /\ ConnStep(c) /\ UNCHANGED OthersOfHub)
  /\ WF_vars(part = "hub" /\ WriterStep(c) /\ UNCHANGED OthersOfHub)
  /\ WF_vars(part = "hub" /\ RunStep(c) /\ UNCHANGED OthersOfHub)

Spec == Init /\ [][Next]_vars /\ Fairness
==============================================================================
