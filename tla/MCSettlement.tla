---------------------------- MODULE MCSettlement ----------------------------
\* Instances of Settlement: small casts of users and what their orders are.
EXTENDS Settlement, TLC

Order(u, s, k, p, q) == [user |-> u, side |-> s, kind |-> k, price |-> p, qty |-> q]

\* A buyer who pays less than his limit, against two makers of one seller.
Limits ==
  1 :> Order("ann", "sell", "limit", 1, 1) @@ 2 :> Order("ann", "sell", "limit", 2, 1) @@
  3 :> Order("bob", "buy", "limit", 2, 2)

\* Orders that do not rest, of both sides.
Immediates ==
  1 :> Order("ann", "sell", "limit", 1, 2) @@ 2 :> Order("bob", "buy", "market", 0, 1) @@
  3 :> Order("ann", "sell", "ioc", 1, 1) @@ 4 :> Order("bob", "buy", "limit", 1, 2)

\* Orders whose funds are reserved, whatever becomes of them.
Sells ==
  1 :> Order("ann", "sell", "limit", 1, 2) @@ 2 :> Order("bob", "buy", "limit", 2, 1) @@
  3 :> Order("ann", "sell", "ioc", 1, 2) @@ 4 :> Order("bob", "buy", "limit", 1, 2)

OneTrade ==
  1 :> Order("ann", "sell", "limit", 1, 1) @@ 2 :> Order("bob", "buy", "limit", 1, 1)

Deployment(orders, shared, cancellers, faults, capacity) ==
  [orders |-> orders, shared |-> shared, cancellers |-> cancellers, faults |-> faults,
   capacity |-> capacity]

\* One process with refusals and cancels; two nobody disturbs, of orders whose
\* funds are reserved and of others; a shared store under a crash, and under
\* database failures, cancels and a crash; one that fails itself; orders that do
\* not rest, with cancels; and a channel that has room for one fill only.
AllDeployments ==
  {Deployment(Limits, FALSE, {"ann", "bob"}, {"refuse"}, 10), Deployment(Sells, FALSE, {}, {}, 10),
   Deployment(Immediates, FALSE, {}, {}, 10),
   Deployment(Limits, TRUE, {}, {"crash"}, 10),
   Deployment(OneTrade, TRUE, {"ann", "bob"}, {"db", "crash"}, 10),
   Deployment(OneTrade, TRUE, {}, {"l2", "crash"}, 10),
   Deployment(Immediates, FALSE, {"ann"}, {}, 10), Deployment(Limits, FALSE, {"bob"}, {}, 1)}
Restarting == {Deployment(OneTrade, FALSE, {}, {"crash"}, 10)}

Tight == [u \in {"ann", "bob"} |-> [a \in {"base", "quote"} |-> IF a = "base" THEN 3 ELSE 50]]
=============================================================================
