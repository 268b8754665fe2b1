---------------------------- MODULE MCWithdrawal ----------------------------
(***************************************************************************)
(* Model-checking instances of Withdrawal.  Any two of the three           *)
(* withdrawals fit the daily limit only if one of them is w1.              *)
(***************************************************************************)
EXTENDS Withdrawal, TLC
CONSTANTS w1, w2, w3

Amounts == w1 :> 1 @@ w2 :> 2 @@ w3 :> 2

Calm == [asked |-> {w1, w2}, cold |-> {}, workers |-> {"k1"}, prices |-> {1},
         faulty |-> {}, faults |-> 0, crashes |-> 0]

\* The user asks for more than the limit while a call of the gateway fails; two
\* calls of the gateway fail; everything may fail, crash or move, and one
\* withdrawal is the cold signer's.
AllDeployments ==
  {[Calm EXCEPT !.asked = {w1, w2, w3}, !.faulty = {"gateway"}, !.faults = 1],
   [Calm EXCEPT !.cold = {w1}, !.faulty = {"gateway"}, !.faults = 2],
   [Calm EXCEPT !.cold = {w1}, !.prices = {1, 2}, !.faulty = {"gateway", "worker"},
                !.faults = 2, !.crashes = 1]}

TwoWorkers == {[Calm EXCEPT !.workers = {"k1", "k2"}]}
=============================================================================
