----------------------------- MODULE Withdrawal -----------------------------
(***************************************************************************)
(* The withdrawals of one user in one asset                                *)
(* (internal/wallet/withdrawal.go over internal/store/pg_wallet.go): the   *)
(* gateway's requests and admin reviews, and the wallet-service workers    *)
(* that send approved withdrawals to the chain and finalise confirmed      *)
(* ones (cmd/wallet-service/main.go).  Requests, admins and workers        *)
(* interleave; one step is one statement or transaction of the database,   *)
(* or one call of the chain or of the cold signer.                         *)
(*                                                                         *)
(* A database call that fails has no effect.  Everything a handler knows   *)
(* besides the database is lost when its process crashes.                  *)
(***************************************************************************)
EXTENDS Integers, FiniteSets, FiniteSetsExt

CONSTANTS
  Withdrawals,      \* the withdrawals the user may ask for
  Nobody,           \* none of them
  AmountOf,         \* what each is worth
  Funds,            \* the user's balance at the start
  Limit,            \* the daily limit, in USDT
  ReviewThreshold,  \* amounts from here on are "reviewing"
  Admins,           \* review handlers
  Deployments,      \* what a behaviour may meet with
  MaxSends          \* bound: times one withdrawal is sent

ASSUME WithdrawalAssumption ==
  /\ Nobody \notin Withdrawals
  /\ AmountOf \in [Withdrawals -> Nat \ {0}] /\ Funds \in Nat /\ Limit \in Nat
  /\ ReviewThreshold \in Nat /\ MaxSends \in Nat
ASSUME DeploymentAssumption ==
  \A d \in Deployments :
    /\ d.asked \subseteq Withdrawals          \* what the user asks for
    /\ d.cold \subseteq Withdrawals           \* what the policy sends to the cold signer
    /\ IsFiniteSet(d.workers)                \* the replicas of the wallet service
    /\ d.prices \subseteq Nat \ {0}           \* the prices of the asset in USDT
    /\ d.faulty \subseteq {"gateway", "worker"} \* whose database calls may fail
    /\ d.faults \in Nat                       \* bound: failing calls
    /\ d.crashes \in Nat                      \* bound: crashes

VARIABLES
  deployment,       \* the one of Deployments a behaviour is about
  balance, locked,  \* the wallet's row
  used,             \* the daily usage meter
  status,           \* the status of each withdrawal's row, "none" without one
  req,              \* where RequestWithdrawal is with each
  eq,               \* its USDT equivalent when it was reserved
  adm,              \* what each review handler is doing
  wk,               \* what each worker is doing
  price,            \* the market price
  sent, mined,      \* the chain: transactions sent, and whether confirmed
  faults, crashes

walletVars == <<balance, locked>>
chainVars  == <<sent, mined>>
vars == <<deployment, walletVars, used, status, req, eq, adm, wk, price, chainVars, faults, crashes>>

Cold       == deployment.cold
Workers    == deployment.workers
Prices     == deployment.prices
Faulty     == deployment.faulty
MaxFaults  == deployment.faults
MaxCrashes == deployment.crashes

AllWorkers == UNION {d.workers : d \in Deployments}

Idle   == [at |-> "idle", w |-> Nobody, prev |-> "none"]

Reviewable == {"pending", "reviewing"}
Statuses == Reviewable \cup {"none", "approved", "broadcast", "completed", "rejected", "cold_signing"}

Init ==
  /\ deployment \in Deployments
  /\ balance = Funds /\ locked = 0 /\ used = 0
  /\ status = [w \in Withdrawals |-> "none"]
  /\ req = [w \in Withdrawals |-> "new"] /\ eq = [w \in Withdrawals |-> 0]
  /\ adm = [a \in Admins |-> Idle] /\ wk = [k \in AllWorkers |-> Idle]
  /\ price \in Prices
  /\ sent = [w \in Withdrawals |-> 0] /\ mined = [w \in Withdrawals |-> FALSE]
  /\ faults = 0 /\ crashes = 0

\* A database call of that process fails.
Fails(who) == who \in Faulty /\ faults < MaxFaults /\ faults' = faults + 1
Works      == UNCHANGED faults

\* The unlock of Settle matches no row when less is locked.
Unlocked(n) == IF locked >= n THEN locked - n ELSE locked
\* ReleaseDailyUsage never drives the meter below zero.
Credited(n) == IF used >= n THEN used - n ELSE 0
-----------------------------------------------------------------------------
(***************************************************************************)
(* RequestWithdrawal.                                                      *)
(***************************************************************************)
\* ReserveWithDailyLimit: the reservation and the meter in one transaction.
Reserve(w) ==
  /\ req[w] = "new" /\ w \in deployment.asked
  /\ AmountOf[w] <= balance - locked
  /\ used + AmountOf[w] * price <= Limit
  /\ locked' = locked + AmountOf[w]
  /\ used' = used + AmountOf[w] * price
  /\ eq' = [eq EXCEPT ![w] = AmountOf[w] * price]
  /\ req' = [req EXCEPT ![w] = "record"]
  /\ UNCHANGED <<balance, status, adm, wk, price, chainVars, faults, crashes>>

Record(w) ==
  /\ req[w] = "record"
  /\ \/ /\ Works
        /\ status' = [status EXCEPT ![w] = IF AmountOf[w] >= ReviewThreshold
                                           THEN "reviewing" ELSE "pending"]
        /\ req' = [req EXCEPT ![w] = "accepted"]
     \/ /\ Fails("gateway")
        /\ req' = [req EXCEPT ![w] = "undo"]
        /\ UNCHANGED status
  /\ UNCHANGED <<walletVars, used, eq, adm, wk, price, chainVars, crashes>>

\* The error of the unlock is discarded.
UndoReserve(w) ==
  /\ req[w] = "undo"
  /\ \/ Works /\ locked' = Unlocked(AmountOf[w])
     \/ Fails("gateway") /\ UNCHANGED locked
  /\ req' = [req EXCEPT ![w] = "credit"]
  /\ UNCHANGED <<balance, used, status, eq, adm, wk, price, chainVars, crashes>>

UndoUsage(w) ==
  /\ req[w] = "credit"
  /\ \/ Works /\ used' = Credited(eq[w])
     \/ Fails("gateway") /\ UNCHANGED used
  /\ req' = [req EXCEPT ![w] = "refused"]
  /\ UNCHANGED <<walletVars, status, eq, adm, wk, price, chainVars, crashes>>

Request(w) == Record(w) \/ UndoReserve(w) \/ UndoUsage(w)
-----------------------------------------------------------------------------
(***************************************************************************)
(* ApproveWithdrawal and RejectWithdrawal.                                 *)
(***************************************************************************)
ApproveRead(a, w) ==
  /\ adm[a] = Idle /\ status[w] \in Reviewable
  /\ adm' = [adm EXCEPT ![a] = [at |-> "approve", w |-> w, prev |-> status[w]]]
  /\ UNCHANGED <<walletVars, used, status, req, eq, wk, price, chainVars, faults, crashes>>

\* Mutant: the row's status is not looked at again.
Mutant_ApproveBlindly(a) ==
  /\ adm[a].at = "approve"
  /\ Works /\ status' = [status EXCEPT ![adm[a].w] = "approved"]
  /\ adm' = [adm EXCEPT ![a] = Idle]
  /\ UNCHANGED <<walletVars, used, req, eq, wk, price, chainVars, crashes>>

\* UpdateTxStatusFrom: the flip applies only to a row still under review.
ApproveFlip(a) ==
  /\ adm[a].at = "approve"
  /\ LET w == adm[a].w
     IN  \/ /\ Works
            /\ status' = IF status[w] \in Reviewable THEN [status EXCEPT ![w] = "approved"]
                         ELSE status
         \/ Fails("gateway") /\ UNCHANGED status
  /\ adm' = [adm EXCEPT ![a] = Idle]
  /\ UNCHANGED <<walletVars, used, req, eq, wk, price, chainVars, crashes>>

Rejectable == Reviewable \cup {"cold_signing"}

RejectRead(a, w) ==
  /\ adm[a] = Idle /\ status[w] \in Rejectable
  /\ adm' = [adm EXCEPT ![a] = [at |-> "reject", w |-> w, prev |-> status[w]]]
  /\ UNCHANGED <<walletVars, used, status, req, eq, wk, price, chainVars, faults, crashes>>

RejectFlip(a) ==
  /\ adm[a].at = "reject"
  /\ LET w == adm[a].w
     IN  \/ /\ Works /\ status[w] \in Rejectable
            /\ status' = [status EXCEPT ![w] = "rejected"]
            /\ adm' = [adm EXCEPT ![a].at = "unlock"]
         \/ /\ \/ Works /\ status[w] \notin Rejectable
               \/ Fails("gateway")
            /\ adm' = [adm EXCEPT ![a] = Idle]
            /\ UNCHANGED status
  /\ UNCHANGED <<walletVars, used, req, eq, wk, price, chainVars, crashes>>

RejectUnlock(a) ==
  /\ adm[a].at = "unlock"
  /\ \/ /\ Works /\ locked' = Unlocked(AmountOf[adm[a].w])
        /\ adm' = [adm EXCEPT ![a].at = "credit"]
     \/ /\ Fails("gateway") /\ UNCHANGED locked
        /\ adm' = [adm EXCEPT ![a].at = "rollback"]
  /\ UNCHANGED <<balance, used, status, req, eq, wk, price, chainVars, crashes>>

\* Mutant: a failed release is only reported.
Mutant_NoRollback(a) ==
  /\ adm[a].at = "rollback"
  /\ adm' = [adm EXCEPT ![a] = Idle]
  /\ UNCHANGED <<walletVars, used, status, req, eq, wk, price, chainVars, faults, crashes>>

RejectRollback(a) ==
  /\ adm[a].at = "rollback"
  /\ \/ Works /\ status' = [status EXCEPT ![adm[a].w] = adm[a].prev]
     \/ Fails("gateway") /\ UNCHANGED status
  /\ adm' = [adm EXCEPT ![a] = Idle]
  /\ UNCHANGED <<walletVars, used, req, eq, wk, price, chainVars, crashes>>

\* releaseDailyUsageBestEffort: what is credited is derived from the price now.
RejectCredit(a) ==
  /\ adm[a].at = "credit"
  /\ \/ Works /\ used' = Credited(AmountOf[adm[a].w] * price)
     \/ Fails("gateway") /\ UNCHANGED used
  /\ adm' = [adm EXCEPT ![a] = Idle]
  /\ UNCHANGED <<walletVars, status, req, eq, wk, price, chainVars, crashes>>

Decide(a) == \E w \in Withdrawals : ApproveRead(a, w) \/ RejectRead(a, w)
Review(a) ==
  ApproveFlip(a) \/ RejectFlip(a) \/ RejectUnlock(a) \/ RejectRollback(a) \/ RejectCredit(a)
-----------------------------------------------------------------------------
(***************************************************************************)
(* The worker of a wallet-service replica: BroadcastWithdrawal, with       *)
(* queueColdWithdrawal, and ConfirmWithdrawal.                             *)
(***************************************************************************)
At(k, at) == wk' = [wk EXCEPT ![k].at = at]
Done(k)   == wk' = [wk EXCEPT ![k] = Idle]

BroadcastRead(k, w) ==
  /\ wk[k] = Idle /\ status[w] = "approved"
  /\ wk' = [wk EXCEPT ![k] = [at |-> IF w \in Cold THEN "queue" ELSE "send", w |-> w,
                              prev |-> status[w]]]
  /\ UNCHANGED <<walletVars, used, status, req, eq, adm, price, chainVars, faults, crashes>>

SendTransaction(k) ==
  /\ wk[k].at = "send" /\ sent[wk[k].w] < MaxSends
  /\ \/ Works /\ sent' = [sent EXCEPT ![wk[k].w] = @ + 1] /\ At(k, "save_sent")
     \/ Fails("worker") /\ Done(k) /\ UNCHANGED sent
  /\ UNCHANGED <<walletVars, used, status, req, eq, adm, price, mined, crashes>>

\* SaveTx writes the status whatever the row says by now.
SaveStatus(k, s) ==
  /\ \/ Works /\ status' = [status EXCEPT ![wk[k].w] = s]
     \/ Fails("worker") /\ UNCHANGED status
  /\ Done(k)
  /\ UNCHANGED <<walletVars, used, req, eq, adm, price, chainVars, crashes>>

SaveBroadcast(k) == wk[k].at = "save_sent" /\ SaveStatus(k, "broadcast")

\* The signer gets the description; the reference it returns is not a column
\* of the row, so that no later poll can ask for it.
QueueCold(k) ==
  /\ wk[k].at = "queue"
  /\ \/ Works /\ At(k, "save_cold")
     \/ Fails("worker") /\ Done(k)
  /\ UNCHANGED <<walletVars, used, status, req, eq, adm, price, chainVars, crashes>>

SaveCold(k) == wk[k].at = "save_cold" /\ SaveStatus(k, "cold_signing")

ConfirmRead(k, w) ==
  /\ wk[k] = Idle /\ status[w] = "broadcast"
  /\ wk' = [wk EXCEPT ![k] = [at |-> "confirm", w |-> w, prev |-> status[w]]]
  /\ UNCHANGED <<walletVars, used, status, req, eq, adm, price, chainVars, faults, crashes>>

GetConfirmations(k) ==
  /\ wk[k].at = "confirm"
  /\ \/ Works /\ mined[wk[k].w] /\ At(k, "debit")
     \/ Works /\ ~mined[wk[k].w] /\ Done(k)
     \/ Fails("worker") /\ Done(k)
  /\ UNCHANGED <<walletVars, used, status, req, eq, adm, price, chainVars, crashes>>

\* Settle unlocks and debits in one transaction, which a debit that finds too
\* little rolls back.
FinaliseDebit(k) ==
  /\ wk[k].at = "debit"
  /\ LET n == AmountOf[wk[k].w]
     IN  \/ /\ Works /\ balance - Unlocked(n) >= n
            /\ balance' = balance - n /\ locked' = Unlocked(n)
            /\ At(k, "save_completed")
         \/ /\ \/ Works /\ balance - Unlocked(n) < n
               \/ Fails("worker")
            /\ Done(k) /\ UNCHANGED walletVars
  /\ UNCHANGED <<used, status, req, eq, adm, price, chainVars, crashes>>

\* Mutant: completed withdrawals keep their status.
Mutant_NeverCompleted(k) == wk[k].at = "save_completed" /\ SaveStatus(k, "broadcast")

SaveCompleted(k) == wk[k].at = "save_completed" /\ SaveStatus(k, "completed")

Poll(k, w) == BroadcastRead(k, w) \/ ConfirmRead(k, w)
Work(k) ==
  \/ SendTransaction(k) \/ SaveBroadcast(k) \/ QueueCold(k) \/ SaveCold(k)
  \/ GetConfirmations(k) \/ FinaliseDebit(k) \/ SaveCompleted(k)
-----------------------------------------------------------------------------
(***************************************************************************)
(* The chain, the market, and crashes.                                     *)
(***************************************************************************)
Mine(w) ==
  /\ sent[w] > 0 /\ ~mined[w]
  /\ mined' = [mined EXCEPT ![w] = TRUE]
  /\ UNCHANGED <<walletVars, used, status, req, eq, adm, wk, price, sent, faults, crashes>>

PriceMoves ==
  /\ price' \in Prices \ {price}
  /\ UNCHANGED <<walletVars, used, status, req, eq, adm, wk, chainVars, faults, crashes>>

\* A handler or a worker in the middle of its work is lost with its process.
Crash ==
  /\ crashes < MaxCrashes /\ crashes' = crashes + 1
  /\ \/ \E a \in Admins : adm[a] # Idle /\ adm' = [adm EXCEPT ![a] = Idle] /\ UNCHANGED <<wk, req>>
     \/ \E k \in Workers : wk[k] # Idle /\ wk' = [wk EXCEPT ![k] = Idle] /\ UNCHANGED <<adm, req>>
     \/ \E w \in Withdrawals : /\ req[w] \in {"record", "undo", "credit"}
                               /\ req' = [req EXCEPT ![w] = "lost"]
                               /\ UNCHANGED <<adm, wk>>
  /\ UNCHANGED <<walletVars, used, status, eq, price, chainVars, faults>>

Next ==
  /\ \/ \E w \in Withdrawals : Reserve(w) \/ Request(w) \/ Mine(w)
     \/ \E a \in Admins : Decide(a) \/ Review(a)
     \/ \E k \in Workers : Work(k) \/ \E w \in Withdrawals : Poll(k, w)
     \/ PriceMoves \/ Crash
  /\ UNCHANGED deployment

\* A handler that started runs on; a worker's tick goes through every listed
\* withdrawal; the chain confirms in the end.  Nobody has to ask or to review.
Steady == UNCHANGED deployment
Fairness ==
  /\ \A w \in Withdrawals : WF_vars(Request(w) /\ Steady) /\ WF_vars(Mine(w) /\ Steady)
  /\ \A a \in Admins : WF_vars(Review(a) /\ Steady)
  /\ \A k \in AllWorkers :
       /\ WF_vars(k \in Workers /\ Work(k) /\ Steady)
       /\ \A w \in Withdrawals : SF_vars(k \in Workers /\ Poll(k, w) /\ Steady)

Spec     == Init /\ [][Next]_vars
FairSpec == Spec /\ Fairness
-----------------------------------------------------------------------------
(***************************************************************************)
(* Properties.                                                             *)
(***************************************************************************)
\* Somebody is between rejecting w and giving its funds back.
Returning(w) == \E a \in Admins : adm[a].w = w /\ adm[a].at \in {"unlock", "rollback"}
\* w has been debited and is about to be marked as completed.
Finalising(w) == \E k \in Workers : wk[k].w = w /\ wk[k].at = "save_completed"

\* w's amount is set aside.
Holds(w) ==
  \/ req[w] \in {"record", "undo"}
  \/ status[w] \in Rejectable \cup {"approved", "broadcast"} /\ ~Finalising(w)
  \/ status[w] = "rejected" /\ Returning(w)
\* w's amount has left the wallet.
Debited(w) == status[w] = "completed" \/ Finalising(w)

AmountsOf(S) == MapThenSumSet(LAMBDA w : AmountOf[w], S)

(***************************************************************************)
(* One worker whose calls do not fail, and no crash.  Without it a         *)
(* withdrawal is sent or debited again when its new status is not saved,   *)
(* sent by two workers that read it at once, or left with its lock.        *)
(***************************************************************************)
OneWorker == Cardinality(Workers) = 1 /\ "worker" \notin Faulty /\ MaxCrashes = 0

\* A handler undoes what a failing call left half done with another call: when
\* that one fails as well, the lock stays.
Undisturbed == OneWorker /\ MaxFaults <= 1

(***************************************************************************)
(* What the wallet locks, and what it has paid out, is what the statuses   *)
(* of the withdrawals and the handlers in progress account for: no lock is *)
(* taken back twice, or taken from another withdrawal, and none is         *)
(* forgotten unless a call and the call that undoes it both fail           *)
(* (UpdateTxStatusFrom before the unlock, the rollback when the unlock     *)
(* fails, Settle).                                                         *)
(***************************************************************************)
FundsAccounted ==
  OneWorker =>
    /\ locked >= AmountsOf({w \in Withdrawals : Holds(w)})
    /\ Undisturbed => locked = AmountsOf({w \in Withdrawals : Holds(w)})
    /\ balance = Funds - AmountsOf({w \in Withdrawals : Debited(w)})

\* No withdrawal is sent to the chain twice (BroadcastWithdrawal).
SentOnce == \A w \in Withdrawals : sent[w] <= 1

(***************************************************************************)
(* A withdrawal that was sent is never given back to the user, and none is *)
(* debited that was not sent - whatever fails, crashes or moves            *)
(* (RejectWithdrawal, ConfirmWithdrawal).                                  *)
(***************************************************************************)
PaidOrReturned ==
  \A w \in Withdrawals :
    /\ sent[w] > 0 => Holds(w) \/ Debited(w)
    /\ Debited(w) => sent[w] > 0

(***************************************************************************)
(* What is reserved or paid, at the prices of the requests, stays within   *)
(* the daily limit, whatever requests and rejections run at once           *)
(* (ReserveWithDailyLimit, ReleaseDailyUsage).  The credit of a rejection  *)
(* is derived from the price of its moment: at a moving price the meter    *)
(* may forget usage.                                                       *)
(***************************************************************************)
WithinDailyLimit ==
  OneWorker /\ Prices = {price} =>
    MapThenSumSet(LAMBDA w : eq[w], {w \in Withdrawals : Holds(w) \/ Debited(w)}) <= Limit

\* The withdrawal as the user sees it.
Stage(w) ==
  IF Debited(w) THEN "settled" ELSE IF sent[w] > 0 THEN "sent"
  ELSE IF Holds(w) THEN "held" ELSE IF req[w] = "new" THEN "none" ELSE "returned"

(***************************************************************************)
(* Undisturbed, requests, reviews and the worker implement Payout: what is *)
(* set aside is given back once, or paid once and debited once.  (Other    *)
(* behaviours are mapped to one that does nothing.)                        *)
(***************************************************************************)
Abstract ==
  INSTANCE Payout WITH
    stage <- [w \in Withdrawals |-> IF Undisturbed THEN Stage(w) ELSE "none"],
    spendable <- IF Undisturbed THEN balance - locked ELSE Funds
ImplementsPayout == Abstract!Spec

\* An approved withdrawal is sent, confirmed and debited in the end
\* (runOnChainWorker), unless it goes to the cold signer, whose reference the
\* database store does not keep.
ApprovedCompletes ==
  \A w \in Withdrawals :
    (status[w] = "approved" /\ OneWorker /\ w \notin Cold) ~> status[w] = "completed"

\* Locks, balance, chain and daily meter tell the same story of every withdrawal.
WithdrawalsAccounted == FundsAccounted /\ PaidOrReturned /\ WithinDailyLimit
=============================================================================
