-------------------------- MODULE MCMatchingEngine --------------------------
(***************************************************************************)
(* Model-checking instances of MatchingEngine: one flow of orders for each *)
(* part of the engine, so that each can go as deep as its cases need.      *)
(***************************************************************************)
EXTENDS MatchingEngine, TLC

CONSTANTS alice, bob

Base(u, s, ty, p, q) ==
  [user |-> u, side |-> s, type |-> ty, price |-> p, stop |-> 0, qty |-> q,
   visible |-> 0, tif |-> "gtc", stp |-> "disabled"]

Flow(menu, max) == [menu |-> menu, max |-> max]

Limits(users, qtys) ==
  {Base(u, s, "limit", p, q) : u \in users, s \in Sides, p \in 1..2, q \in qtys}
Iceberg(s, q, v) == [Base(alice, s, "iceberg", 1, q) EXCEPT !.visible = v]
StopOrder(s, ty, p, st) == [Base(alice, s, ty, p, 1) EXCEPT !.stop = st]

\* Takers of each kind, and orders that are refused, over a book of limits.
Takers ==
  Limits({alice}, 1..2)
  \cup {Base(alice, "buy", "market", 0, 2), Base(alice, "sell", "ioc", 2, 2),
        Base(alice, "buy", "ioc", 0, 1), Base(alice, "buy", "postOnly", 1, 1),
        Base(alice, "sell", "postOnly", 0, 1), Base(alice, "buy", "limit", 1, 0),
        [Base(alice, "sell", "limit", 1, 2) EXCEPT !.tif = "other"],
        Iceberg("buy", 2, 1), Iceberg("sell", 1, 0)}

\* Limits at two prices, the sells of two sizes.
Book == {sp \in Limits({alice}, 1..2) : sp.side = "buy" => sp.qty = 2}

\* Stops of both kinds among limits that move the last price.
Stops ==
  {Base(alice, "sell", "limit", p, 2) : p \in 1..2}
  \cup {Base(alice, "buy", "limit", p, 1) : p \in 1..2}
  \cup {StopOrder("buy", "stopLoss", 0, 2), StopOrder("sell", "stopLimit", 2, 2),
        StopOrder("sell", "stopLoss", 0, 1), StopOrder("buy", "stopLimit", 1, 0)}

\* Two users who may meet themselves, under each mode that settles the matter.
SelfTrades ==
  {[Base(u, s, "limit", 1, q) EXCEPT !.stp = m] :
     u \in Users, s \in Sides, q \in 1..2, m \in {"disabled", "cancelMaker"}}
  \cup {[Base(alice, "buy", ty, 1, 2) EXCEPT !.stp = m] :
         ty \in {"market", "limit"}, m \in {"cancelTaker", "cancelBoth"}}

\* A fill-or-kill order that its owner's own order stops half way.
OwnInTheWay ==
  {Base(u, "sell", "limit", 1, 1) : u \in Users}
  \cup {[Base(alice, "buy", "fok", 1, 2) EXCEPT !.stp = "cancelTaker"]}

\* Fill-or-kill orders against limits they can take in full, in part or not.
FillOrKills ==
  {Base(alice, "sell", "limit", p, q) : p \in 1..2, q \in 1..2}
  \cup {Base(alice, s, "fok", p, q) : s \in Sides, p \in 1..2, q \in 2..3}

AllFlows ==
  {Flow(Takers, 3), Flow(Book, 4), Flow(Stops, 4), Flow(SelfTrades, 3), Flow(FillOrKills, 3),
   Flow(OwnInTheWay, 4)}

\* An iceberg whose slices may find nobody.
IcebergFlow ==
  {Flow({Base(alice, "sell", "limit", 1, q) : q \in 1..2} \cup {Iceberg("buy", 2, 1)}, 2)}
=============================================================================
