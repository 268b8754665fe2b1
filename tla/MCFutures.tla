----------------------------- MODULE MCFutures -----------------------------
(***************************************************************************)
(* Model-checking instances of Futures.  A mark price is 4 or 6, or none.  *)
(***************************************************************************)
EXTENDS Futures, TLC

OpenAt(s, m, q, l) ==
  [side |-> s, mode |-> m, qty |-> q, leverage |-> l, price |-> 0, tp |-> 0, sl |-> 0, keep |-> TRUE]
Ask(op, n) == [op |-> op, n |-> n]

Long  == OpenAt("long", "isolated", 2, 2)
Cross == OpenAt("long", "cross", 1, 2)
Short == OpenAt("short", "isolated", 1, 2)
\* Lost whatever the price is, and with a stop-loss that is met at any price.
LostShort == [OpenAt("short", "isolated", 2, 2) EXCEPT !.price = 2]
Stopped   == [Short EXCEPT !.sl = 4, !.tp = 1, !.keep = FALSE]

Base == [opens |-> {Long, Short}, requests |-> {Ask("close", 1)}, prices |-> {4, 6},
         deposit |-> 9, calls |-> 3, fundings |-> {}, faults |-> {}, serial |-> TRUE,
         rounding |-> 0]

\* Calls that do not overlap; overlapping ones; margins that change; funding that
\* is charged; failures and crashes; margins that are rounded; positions whose
\* stop-loss is met, while an account that is nearly empty adds to their margins.
AllDeployments ==
  {[Base EXCEPT !.opens = {Long, Cross, Stopped},
                !.requests = {Ask("close", 1), Ask("partial", 1)},
                !.prices = {0, 4, 6}, !.calls = 4],
   [Base EXCEPT !.serial = FALSE],
   [Base EXCEPT !.opens = {LostShort}, !.deposit = 5, !.requests = {Ask("add", 1), Ask("reduce", 2), Ask("liquidate", 1)}, !.serial = FALSE],
   [Base EXCEPT !.opens = {Cross}, !.fundings = {-3, 1}],
   [Base EXCEPT !.opens = {Long}, !.faults = {"db", "crash"}, !.serial = FALSE],
   [Base EXCEPT !.opens = {Long, Short}, !.requests = {Ask("close", 1), Ask("partial", 1)},
                !.calls = 4, !.rounding = 1],
   [Base EXCEPT !.opens = {Stopped}, !.requests = {Ask("add", 1), Ask("close", 1)},
                !.deposit = 4, !.serial = FALSE]}

Partial == {[Base EXCEPT !.opens = {Long}, !.requests = {Ask("partial", 1)}, !.calls = 4]}
=============================================================================
