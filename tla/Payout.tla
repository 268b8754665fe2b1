------------------------------- MODULE Payout -------------------------------
(***************************************************************************)
(* What a withdrawal promises: its amount is set aside from what the user  *)
(* can spend, and then it is either given back, or paid out on the chain   *)
(* once and taken off the books once.  Withdrawal implements this module.  *)
(***************************************************************************)
EXTENDS Integers

CONSTANTS
  Withdrawals,  \* the withdrawals of one user in one asset
  AmountOf,     \* what each is worth
  Funds         \* what the user owns at the start

VARIABLES
  stage,      \* how far each withdrawal has come
  spendable   \* what the user can spend

Stages == {"none", "held", "returned", "sent", "settled"}

Init == stage = [w \in Withdrawals |-> "none"] /\ spendable = Funds

Move(w, from, to) == stage[w] = from /\ stage' = [stage EXCEPT ![w] = to]

Hold(w) ==
  /\ AmountOf[w] <= spendable
  /\ Move(w, "none", "held")
  /\ spendable' = spendable - AmountOf[w]

Return(w) == Move(w, "held", "returned") /\ spendable' = spendable + AmountOf[w]
Send(w)   == Move(w, "held", "sent") /\ UNCHANGED spendable
Settle(w) == Move(w, "sent", "settled") /\ UNCHANGED spendable

Next == \E w \in Withdrawals : Hold(w) \/ Return(w) \/ Send(w) \/ Settle(w)

Spec == Init /\ [][Next]_<<stage, spendable>>
=============================================================================
