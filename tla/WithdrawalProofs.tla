-------------------------- MODULE WithdrawalProofs --------------------------
(***************************************************************************)
(* What the withdrawals keep up, for every set of withdrawals, reviewers   *)
(* and deployments, and that they implement Payout.                        *)
(*                                                                         *)
(* Ordered says how far the row, the chain and the handlers can be apart,  *)
(* whatever fails or crashes: a withdrawal is past review before a worker  *)
(* touches it, and nobody who is past review comes back.  Serial is what   *)
(* one worker adds: it finds the row as it read it, and at most one        *)
(* reviewer is giving a withdrawal back.  Booked is the arithmetic that    *)
(* rests on them.                                                          *)
(***************************************************************************)
EXTENDS Withdrawal, SumTheorems

Released == {"approved", "broadcast", "completed"}
GivesBack == {"unlock", "rollback", "credit"}

ReviewStates == [at : {"approve", "reject"} \cup GivesBack, w : Withdrawals, prev : Rejectable]
WorkStates == [at : {"queue", "send", "save_sent", "save_cold", "confirm", "debit", "save_completed"},
          w : Withdrawals, prev : {"approved", "broadcast"}]

TypeOK ==
  /\ deployment \in Deployments
  /\ balance \in Int /\ locked \in Int /\ used \in Nat
  /\ status \in [Withdrawals -> Statuses]
  /\ req \in [Withdrawals -> {"new", "record", "accepted", "undo", "credit", "refused", "lost"}]
  /\ eq \in [Withdrawals -> Nat]
  /\ adm \in [Admins -> ReviewStates \cup {Idle}]
  /\ wk \in [AllWorkers -> WorkStates \cup {Idle}]
  /\ price \in deployment.prices /\ price \in Nat \ {0}
  /\ sent \in [Withdrawals -> Nat] /\ mined \in [Withdrawals -> BOOLEAN]
  /\ faults \in Nat /\ crashes \in Nat

Busy(a) == adm[a] # Idle
Back(a) == adm[a].at \in GivesBack

OrderedRow(w) ==
  /\ status[w] # "none" <=> req[w] = "accepted"
  /\ w \in Cold => status[w] \notin {"broadcast", "completed"} /\ sent[w] = 0
  /\ w \notin Cold => status[w] # "cold_signing"
  /\ sent[w] > 0 => status[w] \in Released
  /\ status[w] \in {"broadcast", "completed"} => sent[w] > 0
  /\ mined[w] => sent[w] > 0

OrderedReview(a) ==
  Busy(a) =>
    /\ status[adm[a].w] # "none"
    /\ adm[a].w \notin Cold => adm[a].prev # "cold_signing"
    /\ adm[a].w \notin Cold /\ Back(a) => status[adm[a].w] = "rejected"

OrderedReviews(a, b) ==
  a # b /\ Back(a) /\ Back(b) /\ adm[a].w = adm[b].w => adm[a].w \in Cold

OrderedWork(k) ==
  wk[k] # Idle =>
    /\ k \in Workers
    /\ status[wk[k].w] # "none"
    /\ wk[k].at \in {"queue", "save_cold"} => wk[k].w \in Cold
    /\ wk[k].at \notin {"queue", "save_cold"} =>
         wk[k].w \notin Cold /\ status[wk[k].w] \in Released
    /\ wk[k].at = "save_sent" => sent[wk[k].w] > 0
    /\ wk[k].at \in {"debit", "save_completed"} => mined[wk[k].w]

Ordered ==
  /\ \A w \in Withdrawals : OrderedRow(w)
  /\ \A a \in Admins : OrderedReview(a)
  /\ \A a, b \in Admins : OrderedReviews(a, b)
  /\ \A k \in AllWorkers : OrderedWork(k)

SerialWork(k) ==
  wk[k] # Idle =>
    /\ wk[k].at \in {"queue", "send", "save_sent", "save_cold"} => status[wk[k].w] = "approved"
    /\ wk[k].at = "send" => sent[wk[k].w] = 0
    /\ wk[k].at \in {"confirm", "debit", "save_completed"} => status[wk[k].w] = "broadcast"

SerialRow(w) ==
  status[w] = "approved" /\ sent[w] > 0 => \E k \in AllWorkers : wk[k].w = w /\ wk[k].at = "save_sent"

Serial ==
  OneWorker =>
    /\ crashes = 0
    /\ \A k \in AllWorkers : SerialWork(k)
    /\ \A w \in Withdrawals : SerialRow(w)
    /\ \A a \in Admins : Back(a) => status[adm[a].w] = "rejected"
    /\ \A a, b \in Admins : a # b /\ Back(a) /\ Back(b) => adm[a].w # adm[b].w
    /\ \A w \in Withdrawals : req[w] # "lost"

Asked == {w \in Withdrawals : req[w] # "new"}
Held  == {w \in Withdrawals : Holds(w)}
Gone  == {w \in Withdrawals : Debited(w)}
\* What the meter has not been credited with yet.
Crediting(w) == req[w] = "credit" \/ \E a \in Admins : adm[a].w = w /\ adm[a].at = "credit"
Metered == {w \in Withdrawals : Holds(w) \/ Debited(w) \/ Crediting(w)}

Booked ==
  OneWorker =>
    /\ IsFiniteSet(Asked)
    /\ \A w \in Withdrawals : req[w] = "undo" => faults >= 1
    /\ \A a \in Admins : adm[a].at = "rollback" => faults >= 1
    /\ locked >= SumOver(AmountOf, Held)
    /\ Undisturbed => locked = SumOver(AmountOf, Held)
    /\ balance = Funds - SumOver(AmountOf, Gone)
    /\ balance >= locked
    /\ Prices = {price} =>
         /\ \A w \in Asked : eq[w] = AmountOf[w] * price
         /\ used >= SumOver(eq, Metered) /\ used <= Limit
-----------------------------------------------------------------------------
(***************************************************************************)
(* Types.                                                                  *)
(***************************************************************************)
USE DEF walletVars, chainVars, Works, Fails

\* The types hold at the start.
LEMMA TypeInit == Init => TypeOK
BY WithdrawalAssumption, DeploymentAssumption DEF Init, TypeOK, Prices, Statuses, Reviewable

\* RequestWithdrawal, its undoing and the chain keep the types.
LEMMA TypeRequest ==
  ASSUME TypeOK, NEW w \in Withdrawals, Reserve(w) \/ Request(w) \/ Mine(w), UNCHANGED deployment
  PROVE  TypeOK'
<1> USE WithdrawalAssumption, DeploymentAssumption DEF TypeOK, Unlocked, Credited, Statuses, Reviewable
<1>1. CASE Reserve(w)
  BY <1>1 DEF Reserve
<1>2. CASE Record(w)
  BY <1>2 DEF Record
<1>3. CASE UndoReserve(w)
  BY <1>3 DEF UndoReserve
<1>4. CASE UndoUsage(w)
  BY <1>4 DEF UndoUsage
<1>5. CASE Mine(w)
  BY <1>5 DEF Mine
<1> QED
  BY <1>1, <1>2, <1>3, <1>4, <1>5 DEF Request

\* ApproveWithdrawal and RejectWithdrawal keep the types.
LEMMA TypeReview ==
  ASSUME TypeOK, NEW a \in Admins, Decide(a) \/ Review(a), UNCHANGED deployment
  PROVE  TypeOK'
<1> USE WithdrawalAssumption DEF TypeOK, Unlocked, Credited, Statuses, Reviewable, Rejectable,
        GivesBack, ReviewStates, Idle
<1>1. ASSUME NEW w \in Withdrawals, ApproveRead(a, w)
      PROVE  TypeOK'
  BY <1>1 DEF ApproveRead
<1>2. ASSUME NEW w \in Withdrawals, RejectRead(a, w)
      PROVE  TypeOK'
  BY <1>2 DEF RejectRead
<1>3. CASE ApproveFlip(a)
  BY <1>3 DEF ApproveFlip
<1>4. CASE RejectFlip(a)
  BY <1>4 DEF RejectFlip
<1>5. CASE RejectUnlock(a)
  BY <1>5 DEF RejectUnlock
<1>6. CASE RejectRollback(a)
  BY <1>6 DEF RejectRollback
<1>7. CASE RejectCredit(a)
  BY <1>7 DEF RejectCredit
<1> QED
  BY <1>1, <1>2, <1>3, <1>4, <1>5, <1>6, <1>7 DEF Decide, Review

\* BroadcastWithdrawal and ConfirmWithdrawal keep the types.
LEMMA TypeWork ==
  ASSUME TypeOK, NEW k \in Workers, Work(k) \/ \E w \in Withdrawals : Poll(k, w),
         UNCHANGED deployment
  PROVE  TypeOK'
<1>1. k \in AllWorkers
  BY DEF AllWorkers, Workers, TypeOK
<1> USE <1>1, WithdrawalAssumption DEF TypeOK, Unlocked, Statuses, Reviewable, WorkStates, Idle, At, Done,
        SaveStatus
<1>2. ASSUME NEW w \in Withdrawals, BroadcastRead(k, w)
      PROVE  TypeOK'
  BY <1>2 DEF BroadcastRead
<1>3. ASSUME NEW w \in Withdrawals, ConfirmRead(k, w)
      PROVE  TypeOK'
  BY <1>3 DEF ConfirmRead
<1>4. CASE SendTransaction(k)
  BY <1>4 DEF SendTransaction
<1>5. CASE SaveBroadcast(k)
  BY <1>5 DEF SaveBroadcast
<1>6. CASE QueueCold(k)
  BY <1>6 DEF QueueCold
<1>7. CASE SaveCold(k)
  BY <1>7 DEF SaveCold
<1>8. CASE GetConfirmations(k)
  BY <1>8 DEF GetConfirmations
<1>9. CASE FinaliseDebit(k)
  BY <1>9 DEF FinaliseDebit
<1>10. CASE SaveCompleted(k)
  BY <1>10 DEF SaveCompleted
<1> QED
  BY <1>2, <1>3, <1>4, <1>5, <1>6, <1>7, <1>8, <1>9, <1>10 DEF Work, Poll

\* Prices that move and crashes keep the types.
LEMMA TypeRest ==
  ASSUME TypeOK, PriceMoves \/ Crash, UNCHANGED deployment
  PROVE  TypeOK'
<1>1. CASE PriceMoves
  BY <1>1, DeploymentAssumption DEF PriceMoves, TypeOK, Prices
<1>2. CASE Crash
  BY <1>2 DEF Crash, TypeOK
<1> QED
  BY <1>1, <1>2

\* Every step keeps the types.
LEMMA TypeNext == TypeOK /\ [Next]_vars => TypeOK'
<1> SUFFICES ASSUME TypeOK, [Next]_vars PROVE TypeOK'
  OBVIOUS
<1>1. CASE UNCHANGED vars
  BY <1>1 DEF vars, TypeOK
<1>2. CASE Next
  BY <1>2, TypeRequest, TypeReview, TypeWork, TypeRest DEF Next
<1> QED
  BY <1>1, <1>2
-----------------------------------------------------------------------------
(***************************************************************************)
(* The order of review, chain and status, whatever fails or crashes.       *)
(***************************************************************************)
LEMMA OrderedInit == Init => Ordered
BY WithdrawalAssumption
DEF Init, Ordered, OrderedRow, OrderedReview, OrderedReviews, OrderedWork, Busy, Back, Idle, GivesBack

\* A request has a row once it is accepted, and nobody has reviewed or sent it before.
LEMMA OrderedRequest ==
  ASSUME TypeOK, Ordered, NEW w \in Withdrawals, Reserve(w) \/ Request(w) \/ Mine(w),
         UNCHANGED deployment
  PROVE  Ordered'
<1> USE WithdrawalAssumption
    DEF TypeOK, Ordered, OrderedRow, OrderedReview, OrderedReviews, OrderedWork, Busy, Back, Idle,
        GivesBack, Released, ReviewStates, WorkStates, Cold, Workers
<1>1. CASE Reserve(w)
  BY <1>1 DEF Reserve
<1>2. CASE Record(w)
  BY <1>2 DEF Record
<1>3. CASE UndoReserve(w)
  BY <1>3 DEF UndoReserve
<1>4. CASE UndoUsage(w)
  BY <1>4 DEF UndoUsage
<1>5. CASE Mine(w)
  BY <1>5 DEF Mine
<1> QED
  BY <1>1, <1>2, <1>3, <1>4, <1>5 DEF Request

\* A review changes a row that is still open, and one that gives back found it so.
LEMMA OrderedStepReview ==
  ASSUME TypeOK, Ordered, NEW a \in Admins, Decide(a) \/ Review(a), UNCHANGED deployment
  PROVE  Ordered'
<1> USE WithdrawalAssumption
    DEF TypeOK, Ordered, OrderedRow, OrderedReview, OrderedReviews, OrderedWork, Busy, Back, Idle,
        GivesBack, Released, ReviewStates, WorkStates, Cold, Workers, Rejectable, Reviewable
<1>1. ASSUME NEW w \in Withdrawals, ApproveRead(a, w)
      PROVE  Ordered'
  BY <1>1 DEF ApproveRead
<1>2. ASSUME NEW w \in Withdrawals, RejectRead(a, w)
      PROVE  Ordered'
  BY <1>2 DEF RejectRead
<1>3. CASE ApproveFlip(a)
  BY <1>3 DEF ApproveFlip
<1>4. CASE RejectFlip(a)
  BY <1>4 DEF RejectFlip
<1>5. CASE RejectUnlock(a)
  BY <1>5 DEF RejectUnlock
<1>6. CASE RejectRollback(a)
  BY <1>6 DEF RejectRollback
<1>7. CASE RejectCredit(a)
  BY <1>7 DEF RejectCredit
<1> QED
  BY <1>1, <1>2, <1>3, <1>4, <1>5, <1>6, <1>7 DEF Decide, Review

\* A worker sends what was released, and debits what was sent.
LEMMA OrderedStepWork ==
  ASSUME TypeOK, Ordered, NEW k \in Workers, Work(k) \/ \E w \in Withdrawals : Poll(k, w),
         UNCHANGED deployment
  PROVE  Ordered'
<1>1. k \in AllWorkers
  BY DEF AllWorkers, Workers, TypeOK
<1> USE <1>1, WithdrawalAssumption
    DEF TypeOK, Ordered, OrderedRow, OrderedReview, OrderedReviews, OrderedWork, Busy, Back, Idle,
        GivesBack, Released, ReviewStates, WorkStates, Cold, Workers, At, Done, SaveStatus
<1>2. ASSUME NEW w \in Withdrawals, BroadcastRead(k, w)
      PROVE  Ordered'
  BY <1>2 DEF BroadcastRead
<1>3. ASSUME NEW w \in Withdrawals, ConfirmRead(k, w)
      PROVE  Ordered'
  BY <1>3 DEF ConfirmRead
<1>4. CASE SendTransaction(k)
  BY <1>4 DEF SendTransaction
<1>5. CASE SaveBroadcast(k)
  BY <1>5 DEF SaveBroadcast
<1>6. CASE QueueCold(k)
  BY <1>6 DEF QueueCold
<1>7. CASE SaveCold(k)
  BY <1>7 DEF SaveCold
<1>8. CASE GetConfirmations(k)
  BY <1>8 DEF GetConfirmations
<1>9. CASE FinaliseDebit(k)
  BY <1>9 DEF FinaliseDebit
<1>10. CASE SaveCompleted(k)
  BY <1>10 DEF SaveCompleted
<1> QED
  BY <1>2, <1>3, <1>4, <1>5, <1>6, <1>7, <1>8, <1>9, <1>10 DEF Work, Poll

\* A crash forgets reviews and work between two statements, no row.
LEMMA OrderedRest ==
  ASSUME TypeOK, Ordered, PriceMoves \/ Crash, UNCHANGED deployment
  PROVE  Ordered'
<1> USE WithdrawalAssumption
    DEF TypeOK, Ordered, OrderedRow, OrderedReview, OrderedReviews, OrderedWork, Busy, Back, Idle,
        GivesBack, Released, Cold, Workers
<1>1. CASE PriceMoves
  BY <1>1 DEF PriceMoves
<1>2. CASE Crash
  BY <1>2 DEF Crash
<1> QED
  BY <1>1, <1>2

\* Every step keeps the order of review, chain and status.
LEMMA OrderedNext == TypeOK /\ Ordered /\ [Next]_vars => Ordered'
<1> SUFFICES ASSUME TypeOK, Ordered, [Next]_vars PROVE Ordered'
  OBVIOUS
<1>1. CASE UNCHANGED vars
  BY <1>1 DEF vars, Ordered, OrderedRow, OrderedReview, OrderedReviews, OrderedWork, Busy, Back,
              Cold, Workers
<1>2. CASE Next
  BY <1>2, OrderedRequest, OrderedStepReview, OrderedStepWork, OrderedRest DEF Next
<1> QED
  BY <1>1, <1>2

\* Every variable keeps its type.
THEOREM WithdrawalTyped == Spec => []TypeOK
BY TypeInit, TypeNext, PTL DEF Spec

(***************************************************************************)
(* A withdrawal that was sent is not given back, and none is debited that  *)
(* was not sent, whatever fails, crashes or moves and however many workers *)
(* there are (RejectWithdrawal, BroadcastWithdrawal, ConfirmWithdrawal).   *)
(***************************************************************************)
THEOREM WithdrawalPaidOrReturned == Spec => []PaidOrReturned
<1>1. TypeOK /\ Ordered => PaidOrReturned
  <2> SUFFICES ASSUME TypeOK, Ordered, NEW w \in Withdrawals
               PROVE  /\ sent[w] > 0 => Holds(w) \/ Debited(w)
                      /\ Debited(w) => sent[w] > 0
    BY DEF PaidOrReturned
  <2>1. OrderedRow(w) /\ \A k \in Workers : OrderedWork(k)
    BY DEF Ordered, AllWorkers, Workers, TypeOK
  <2>2. Debited(w) => sent[w] > 0
    BY <2>1, WithdrawalAssumption DEF Debited, Finalising, OrderedRow, OrderedWork, Idle
  <2>3. sent[w] > 0 => Holds(w) \/ Debited(w)
    BY <2>1 DEF Holds, Debited, OrderedRow, Released
  <2> QED
    BY <2>2, <2>3
<1> QED
  BY <1>1, TypeInit, TypeNext, OrderedInit, OrderedNext, PTL DEF Spec
-----------------------------------------------------------------------------
(***************************************************************************)
(* What one worker adds.                                                   *)
(***************************************************************************)
LEMMA OnlyWorker ==
  ASSUME TypeOK, OneWorker
  PROVE  \A k, l \in Workers : k = l
<1>1. IsFiniteSet(Workers) /\ Cardinality(Workers) = 1
  BY DeploymentAssumption DEF TypeOK, Workers, OneWorker
<1> QED
  BY <1>1, FS_Singleton

\* The worker is idle at the start.
LEMMA SerialInit == Init => Serial
BY WithdrawalAssumption DEF Init, Serial, SerialWork, SerialRow, Back, Idle, GivesBack

\* A request leaves what the one worker is at.
LEMMA SerialRequest ==
  ASSUME TypeOK, Ordered, Serial, NEW w \in Withdrawals, Reserve(w) \/ Request(w) \/ Mine(w),
         UNCHANGED deployment
  PROVE  Serial'
<1> USE WithdrawalAssumption
    DEF TypeOK, Ordered, OrderedRow, OrderedReview, OrderedReviews, OrderedWork, Busy, Back, Idle,
        GivesBack, Released, ReviewStates, WorkStates, Cold, Workers, Serial, SerialWork, SerialRow, OneWorker,
        Faulty, MaxCrashes
<1>1. CASE Reserve(w)
  BY <1>1 DEF Reserve
<1>2. CASE Record(w)
  BY <1>2 DEF Record
<1>3. CASE UndoReserve(w)
  BY <1>3 DEF UndoReserve
<1>4. CASE UndoUsage(w)
  BY <1>4 DEF UndoUsage
<1>5. CASE Mine(w)
  BY <1>5 DEF Mine
<1> QED
  BY <1>1, <1>2, <1>3, <1>4, <1>5 DEF Request

\* A review leaves what the one worker is at.
LEMMA SerialReview ==
  ASSUME TypeOK, Ordered, Serial, NEW a \in Admins, Decide(a) \/ Review(a), UNCHANGED deployment
  PROVE  Serial'
<1> USE WithdrawalAssumption
    DEF TypeOK, Ordered, OrderedRow, OrderedReview, OrderedReviews, OrderedWork, Busy, Back, Idle,
        GivesBack, Released, ReviewStates, WorkStates, Cold, Workers, Rejectable, Reviewable,
        Serial, SerialWork, SerialRow, OneWorker, Faulty, MaxCrashes
<1>1. ASSUME NEW w \in Withdrawals, ApproveRead(a, w)
      PROVE  Serial'
  BY <1>1 DEF ApproveRead
<1>2. ASSUME NEW w \in Withdrawals, RejectRead(a, w)
      PROVE  Serial'
  BY <1>2 DEF RejectRead
<1>3. CASE ApproveFlip(a)
  BY <1>3 DEF ApproveFlip
<1>4. CASE RejectFlip(a)
  BY <1>4 DEF RejectFlip
<1>5. CASE RejectUnlock(a)
  BY <1>5 DEF RejectUnlock
<1>6. CASE RejectRollback(a)
  BY <1>6 DEF RejectRollback
<1>7. CASE RejectCredit(a)
  BY <1>7 DEF RejectCredit
<1> QED
  BY <1>1, <1>2, <1>3, <1>4, <1>5, <1>6, <1>7 DEF Decide, Review

\* The one worker finds each row as it left it.
LEMMA SerialStepWork ==
  ASSUME TypeOK, Ordered, Serial, NEW k \in Workers, Work(k) \/ \E w \in Withdrawals : Poll(k, w),
         UNCHANGED deployment
  PROVE  Serial'
<1>1. k \in AllWorkers
  BY DEF AllWorkers, Workers, TypeOK
<1> SUFFICES ASSUME OneWorker PROVE Serial'
  BY DEF Serial, OneWorker, Workers, Faulty, MaxCrashes
<1>0. /\ "worker" \notin Faulty
      /\ \A l \in AllWorkers : wk[l] # Idle => l = k
  BY OnlyWorker DEF OneWorker, Ordered, OrderedWork
<1> USE <1>0, <1>1, WithdrawalAssumption
    DEF TypeOK, Ordered, OrderedRow, OrderedReview, OrderedReviews, OrderedWork, Busy, Back, Idle,
        GivesBack, Released, ReviewStates, WorkStates, Cold, Workers, At, Done, SaveStatus,
        Serial, SerialWork, SerialRow, Faulty
<1>2. ASSUME NEW w \in Withdrawals, BroadcastRead(k, w)
      PROVE  Serial'
  BY <1>2 DEF BroadcastRead
<1>3. ASSUME NEW w \in Withdrawals, ConfirmRead(k, w)
      PROVE  Serial'
  BY <1>3 DEF ConfirmRead
<1>4. CASE SendTransaction(k)
  BY <1>4 DEF SendTransaction
<1>5. CASE SaveBroadcast(k)
  BY <1>5 DEF SaveBroadcast
<1>6. CASE QueueCold(k)
  BY <1>6 DEF QueueCold
<1>7. CASE SaveCold(k)
  BY <1>7 DEF SaveCold
<1>8. CASE GetConfirmations(k)
  BY <1>8 DEF GetConfirmations
<1>9. CASE FinaliseDebit(k)
  BY <1>9 DEF FinaliseDebit
<1>10. CASE SaveCompleted(k)
  BY <1>10 DEF SaveCompleted
<1> QED
  BY <1>2, <1>3, <1>4, <1>5, <1>6, <1>7, <1>8, <1>9, <1>10 DEF Work, Poll

\* A worker that died has done part of its work, which a crash accounts for.
LEMMA SerialRest ==
  ASSUME TypeOK, Ordered, Serial, PriceMoves \/ Crash, UNCHANGED deployment
  PROVE  Serial'
<1> USE DEF TypeOK, Serial, SerialWork, SerialRow, Back, OneWorker, Workers, Faulty, MaxCrashes
<1>1. CASE PriceMoves
  BY <1>1 DEF PriceMoves
<1>2. CASE Crash
  BY <1>2 DEF Crash
<1> QED
  BY <1>1, <1>2

\* Every step keeps what one worker adds.
LEMMA SerialNext == TypeOK /\ Ordered /\ Serial /\ [Next]_vars => Serial'
<1> SUFFICES ASSUME TypeOK, Ordered, Serial, [Next]_vars PROVE Serial'
  OBVIOUS
<1>1. CASE UNCHANGED vars
  BY <1>1 DEF vars, Serial, SerialWork, SerialRow, Back, OneWorker, Workers, Faulty, MaxCrashes
<1>2. CASE Next
  BY <1>2, SerialRequest, SerialReview, SerialStepWork, SerialRest DEF Next
<1> QED
  BY <1>1, <1>2
-----------------------------------------------------------------------------
(***************************************************************************)
(* The arithmetic.  Each step adds one withdrawal to the sets that are     *)
(* summed over, takes one away, or leaves them as they are.                *)
(***************************************************************************)
LEMMA SumsSplit ==
  ASSUME TypeOK, Ordered, Booked, OneWorker
  PROVE  /\ Held \subseteq Asked /\ Gone \subseteq Asked /\ Metered \subseteq Asked
         /\ IsFiniteSet(Held) /\ IsFiniteSet(Gone) /\ IsFiniteSet(Metered)
         /\ SumOver(AmountOf, Held) \in Nat /\ SumOver(AmountOf, Gone) \in Nat
         /\ SumOver(eq, Metered) \in Nat
         /\ \A x \in Held :
              /\ SumOver(AmountOf, Held) = SumOver(AmountOf, Held \ {x}) + AmountOf[x]
              /\ SumOver(AmountOf, Held \ {x}) \in Nat
         /\ \A x \in Metered :
              /\ SumOver(eq, Metered) = SumOver(eq, Metered \ {x}) + eq[x]
              /\ SumOver(eq, Metered \ {x}) \in Nat
         /\ \A x \in Withdrawals \ Held :
              SumOver(AmountOf, Held \cup {x}) = SumOver(AmountOf, Held) + AmountOf[x]
         /\ \A x \in Withdrawals \ Gone :
              SumOver(AmountOf, Gone \cup {x}) = SumOver(AmountOf, Gone) + AmountOf[x]
<1>1. Held \subseteq Asked /\ Gone \subseteq Asked /\ Metered \subseteq Asked
  BY WithdrawalAssumption
  DEF Held, Gone, Metered, Asked, Holds, Debited, Crediting, Finalising, Returning, TypeOK, Ordered,
      OrderedRow, OrderedReview, OrderedWork, Rejectable, Reviewable, Busy, Idle, AllWorkers, Workers
<1>2. IsFiniteSet(Held) /\ IsFiniteSet(Gone) /\ IsFiniteSet(Metered)
  BY <1>1, FS_Subset DEF Booked
<1>3. Held \subseteq Withdrawals /\ Gone \subseteq Withdrawals /\ Metered \subseteq Withdrawals
  BY DEF Held, Gone, Metered
<1>4. /\ \A x \in Withdrawals : AmountOf[x] \in Nat /\ AmountOf[x] \in Int
      /\ \A x \in Withdrawals : eq[x] \in Nat /\ eq[x] \in Int
  BY WithdrawalAssumption DEF TypeOK
<1>5. SumOver(AmountOf, Held) \in Nat /\ SumOver(AmountOf, Gone) \in Nat /\ SumOver(eq, Metered) \in Nat
  BY <1>2, <1>3, <1>4, SumNat
<1>6. ASSUME NEW x \in Held
      PROVE  /\ SumOver(AmountOf, Held) = SumOver(AmountOf, Held \ {x}) + AmountOf[x]
             /\ SumOver(AmountOf, Held \ {x}) \in Nat
  <2>1. IsFiniteSet(Held \ {x})
    BY <1>2, FS_RemoveElement
  <2> QED
    BY <2>1, <1>2, <1>3, <1>4, SumRemove, SumNat DEF IntOn
<1>7. ASSUME NEW x \in Metered
      PROVE  /\ SumOver(eq, Metered) = SumOver(eq, Metered \ {x}) + eq[x]
             /\ SumOver(eq, Metered \ {x}) \in Nat
  <2>1. IsFiniteSet(Metered \ {x})
    BY <1>2, FS_RemoveElement
  <2> QED
    BY <2>1, <1>2, <1>3, <1>4, SumRemove, SumNat DEF IntOn
<1>8. ASSUME NEW x \in Withdrawals, NEW S \in SUBSET Withdrawals, IsFiniteSet(S), x \notin S
      PROVE  SumOver(AmountOf, S \cup {x}) = SumOver(AmountOf, S) + AmountOf[x]
  BY <1>4, <1>8, SumAdd DEF IntOn
<1> QED
  BY <1>1, <1>2, <1>3, <1>5, <1>6, <1>7, <1>8

\* Nothing that is counted changes.
SameBooks ==
  /\ Held' = Held /\ Gone' = Gone /\ Metered' = Metered /\ Asked' = Asked
  /\ UNCHANGED <<deployment, balance, locked, used, eq, price>>
  /\ faults' >= faults
  /\ \A w \in Withdrawals : req'[w] = "undo" => req[w] = "undo" \/ faults' >= 1
  /\ \A a \in Admins : adm'[a].at = "rollback" => adm[a].at = "rollback" \/ faults' >= 1

\* A step that holds, debits and meters the same withdrawals keeps the books.
LEMMA BookedSame ==
  ASSUME TypeOK, TypeOK', Booked, SameBooks
  PROVE  Booked'
<1> SUFFICES ASSUME OneWorker PROVE Booked'
  BY DEF SameBooks, Booked, OneWorker, Workers, Faulty, MaxCrashes
<1>1. Prices' = Prices /\ MaxFaults' = MaxFaults
  BY DEF SameBooks, Prices, MaxFaults
<1>2. \A w \in Withdrawals : req'[w] = "undo" => faults' >= 1
  BY DEF SameBooks, Booked, TypeOK
<1>3. \A a \in Admins : adm'[a].at = "rollback" => faults' >= 1
  BY DEF SameBooks, Booked, TypeOK
<1>4. Undisturbed' = Undisturbed
  BY DEF Undisturbed, OneWorker, SameBooks, Workers, Faulty, MaxCrashes, MaxFaults
<1>5. \A w \in Asked' : Prices = {price} => eq'[w] = AmountOf[w] * price'
  BY DEF SameBooks, Booked
<1>6. /\ SumOver(AmountOf, Held') = SumOver(AmountOf, Held)
      /\ SumOver(AmountOf, Gone') = SumOver(AmountOf, Gone)
      /\ SumOver(eq', Metered') = SumOver(eq, Metered)
  BY DEF SameBooks
<1> QED
  BY <1>1, <1>2, <1>3, <1>4, <1>5, <1>6 DEF Booked, SameBooks

\* Nothing is held, gone or metered at the start.
LEMMA BookedInit == Init => Booked
<1> SUFFICES ASSUME Init PROVE Booked
  OBVIOUS
<1>1. Asked = {} /\ Held = {} /\ Gone = {} /\ Metered = {}
  BY WithdrawalAssumption
  DEF Init, Asked, Held, Gone, Metered, Holds, Debited, Crediting, Finalising, Returning, Idle,
      Rejectable, Reviewable, Workers, AllWorkers
<1>2. SumOver(AmountOf, {}) = 0 /\ SumOver(eq, {}) = 0
  BY SumEmpty
<1>3. /\ \A w \in Withdrawals : req[w] # "undo"
      /\ \A a \in Admins : adm[a].at # "rollback"
  BY DEF Init, Idle
<1> QED
  BY <1>1, <1>2, <1>3, FS_EmptySet, WithdrawalAssumption DEF Booked, Init

\* ReserveWithdrawal locks the amount and meters it, in one transaction.
LEMMA BookedReserve ==
  ASSUME TypeOK, TypeOK', Ordered, Booked, NEW w \in Withdrawals, Reserve(w), UNCHANGED deployment
  PROVE  Booked'
<1> SUFFICES ASSUME OneWorker PROVE Booked'
  BY DEF Booked, OneWorker, Workers, Faulty, MaxCrashes
<1> USE WithdrawalAssumption
<1>1. /\ w \notin Asked /\ w \notin Held /\ w \notin Metered
      /\ Asked' = Asked \cup {w} /\ Held' = Held \cup {w} /\ Gone' = Gone
      /\ Metered' = Metered \cup {w}
  BY DEF Reserve, TypeOK, Ordered, OrderedRow, OrderedReview, OrderedWork, Busy, Idle, Asked, Held, Gone,
         Metered, Holds, Debited, Crediting, Finalising, Returning, Rejectable, Reviewable, Workers,
         AllWorkers
<1>2. IsFiniteSet(Asked')
  BY <1>1, FS_AddElement DEF Booked
<1>3. SumOver(AmountOf, Held') = SumOver(AmountOf, Held) + AmountOf[w]
  BY <1>1, SumsSplit
<1>4. SumOver(eq', Metered') = SumOver(eq, Metered) + AmountOf[w] * price
  <2>1. /\ \A x \in Metered : eq'[x] = eq[x] /\ eq'[x] \in Int
        /\ eq'[w] = AmountOf[w] * price /\ eq'[w] \in Int
    BY <1>1, SumsSplit DEF Reserve, TypeOK, Asked
  <2>2. SumOver(eq', Metered \cup {w}) = SumOver(eq', Metered) + eq'[w]
    BY <1>1, <2>1, SumsSplit, SumAdd DEF IntOn
  <2>3. SumOver(eq', Metered) = SumOver(eq, Metered)
    BY <2>1, SumsSplit, SumEqual
  <2> QED
    BY <1>1, <2>1, <2>2, <2>3
<1>5. \A x \in Asked' : Prices' = {price'} => eq'[x] = AmountOf[x] * price'
  BY <1>1 DEF Reserve, TypeOK, Booked, Asked, Prices
<1>6. /\ \A x \in Withdrawals : req'[x] = "undo" => faults' >= 1
      /\ \A a \in Admins : adm'[a].at = "rollback" => faults' >= 1
  BY DEF Reserve, TypeOK, Booked
<1>7. /\ locked' = locked + AmountOf[w] /\ balance' = balance /\ locked' <= balance
      /\ used' = used + AmountOf[w] * price /\ used' <= Limit
      /\ Undisturbed' = Undisturbed /\ price' = price /\ Prices' = Prices
      /\ AmountOf[w] \in Nat /\ AmountOf[w] * price \in Nat
  <2>1. AmountOf[w] \in Nat /\ AmountOf[w] * price \in Nat
    BY DEF TypeOK
  <2>2. locked' = locked + AmountOf[w] /\ balance' = balance /\ locked' <= balance
    BY <2>1 DEF Reserve, TypeOK
  <2> QED
    BY <2>1, <2>2
    DEF Reserve, Undisturbed, OneWorker, Workers, Faulty, MaxCrashes, MaxFaults, Prices
<1> DEFINE e == AmountOf[w] * price
<1>8. /\ SumOver(AmountOf, Held) \in Nat /\ SumOver(AmountOf, Gone) \in Nat
      /\ SumOver(eq, Metered) \in Nat
  BY SumsSplit
<1>9. Prices = {price} => used >= SumOver(eq, Metered) /\ used <= Limit
  BY DEF Booked
<1>10. Prices' = {price'} => used' >= SumOver(eq', Metered') /\ used' <= Limit
  <2> SUFFICES ASSUME Prices = {price} PROVE used' >= SumOver(eq', Metered') /\ used' <= Limit
    BY <1>7
  <2> HIDE DEF e
  <2> QED
    BY <1>4, <1>7, <1>8, <1>9 DEF e, TypeOK
<1> QED
  BY <1>1, <1>2, <1>3, <1>5, <1>6, <1>7, <1>8, <1>10 DEF Booked, TypeOK

\* The rest of a request: recorded, or undone in two statements that may fail.
LEMMA BookedRequest ==
  ASSUME TypeOK, TypeOK', Ordered, Booked, NEW w \in Withdrawals, Request(w) \/ Mine(w),
         UNCHANGED deployment
  PROVE  Booked'
<1> SUFFICES ASSUME OneWorker PROVE Booked'
  BY DEF Booked, OneWorker, Workers, Faulty, MaxCrashes
<1> USE WithdrawalAssumption
<1>1. CASE Record(w)
  <2>1. SameBooks
    BY <1>1
    DEF Record, SameBooks, TypeOK, Ordered, OrderedRow, OrderedReview, OrderedWork, Busy, Idle, Asked,
        Held, Gone, Metered, Holds, Debited, Crediting, Finalising, Returning, Rejectable, Reviewable,
        Workers, AllWorkers
  <2> QED
    BY <2>1, BookedSame
<1>2. CASE Mine(w)
  <2>1. SameBooks
    BY <1>2
    DEF Mine, SameBooks, TypeOK, Asked, Held, Gone, Metered, Holds, Debited, Crediting, Finalising,
        Returning, Workers
  <2> QED
    BY <2>1, BookedSame
<1>3. CASE UndoReserve(w)
  <2>1. /\ w \in Held /\ Held' = Held \ {w} /\ Gone' = Gone /\ Metered' = Metered /\ Asked' = Asked
        /\ UNCHANGED <<balance, used, eq, price>>
    BY <1>3
    DEF UndoReserve, TypeOK, Ordered, OrderedRow, OrderedReview, OrderedWork, Busy, Idle, Asked,
        Held, Gone, Metered, Holds, Debited, Crediting, Finalising, Returning, Rejectable, Reviewable,
        Workers, AllWorkers
  <2>2. /\ SumOver(AmountOf, Held) = SumOver(AmountOf, Held') + AmountOf[w]
        /\ SumOver(AmountOf, Held') \in Nat /\ AmountOf[w] \in Nat
    BY <2>1, SumsSplit
  <2>3. /\ \A x \in Withdrawals : req'[x] = "undo" => faults' >= 1
        /\ \A a \in Admins : adm'[a].at = "rollback" => faults' >= 1
        /\ faults >= 1 /\ Prices' = Prices
    BY <1>3 DEF UndoReserve, TypeOK, Booked, Prices
  <2>4. Undisturbed' = Undisturbed /\ (Undisturbed => Works)
    BY <1>3, <2>3, DeploymentAssumption
    DEF UndoReserve, TypeOK, Undisturbed, OneWorker, Workers, Faulty, MaxCrashes, MaxFaults
  <2>5. /\ Works => locked' = locked - AmountOf[w]
        /\ locked' = locked \/ locked' = locked - AmountOf[w]
    BY <1>3, <2>2 DEF UndoReserve, Unlocked, Booked, TypeOK
  <2>6. locked' >= SumOver(AmountOf, Held') /\ (Undisturbed' => locked' = SumOver(AmountOf, Held'))
    BY <2>2, <2>4, <2>5 DEF Booked, TypeOK
  <2>7. balance' >= locked'
    BY <2>1, <2>2, <2>5 DEF Booked, TypeOK
  <2> QED
    BY <2>1, <2>3, <2>6, <2>7 DEF Booked
<1>4. CASE UndoUsage(w)
  <2>1. /\ w \in Metered /\ Held' = Held /\ Gone' = Gone /\ Metered' = Metered \ {w} /\ Asked' = Asked
        /\ UNCHANGED <<balance, locked, eq, price>>
    BY <1>4
    DEF UndoUsage, TypeOK, Ordered, OrderedRow, OrderedReview, OrderedWork, Busy, Idle, Asked,
        Held, Gone, Metered, Holds, Debited, Crediting, Finalising, Returning, Rejectable, Reviewable,
        Workers, AllWorkers
  <2>2. /\ SumOver(eq, Metered) = SumOver(eq, Metered') + eq[w]
        /\ SumOver(eq, Metered') \in Nat /\ eq[w] \in Nat
    BY <2>1, SumsSplit DEF TypeOK
  <2>3. /\ \A x \in Withdrawals : req'[x] = "undo" => faults' >= 1
        /\ \A a \in Admins : adm'[a].at = "rollback" => faults' >= 1
        /\ Undisturbed' = Undisturbed /\ Prices' = Prices
    BY <1>4
    DEF UndoUsage, TypeOK, Booked, Prices, Undisturbed, OneWorker, Workers, Faulty, MaxCrashes, MaxFaults
  <2>4. Prices = {price} => used' >= SumOver(eq, Metered') /\ used' <= Limit
    BY <1>4, <2>2 DEF UndoUsage, Credited, Booked, TypeOK
  <2> QED
    BY <2>1, <2>3, <2>4 DEF Booked
<1> QED
  BY <1>1, <1>2, <1>3, <1>4 DEF Request

\* A reviewer's step on w leaves the other withdrawals alone.
LEMMA ReviewFrame ==
  ASSUME TypeOK, NEW a \in Admins, NEW w \in Withdrawals, adm[a].w = w, adm'[a].w \in {w, Nobody},
         \A b \in Admins : b # a => adm'[b] = adm[b],
         \A v \in Withdrawals : v # w => status'[v] = status[v],
         UNCHANGED <<deployment, req, wk>>
  PROVE  /\ \A v \in Withdrawals : Finalising(v)' = Finalising(v)
         /\ \A v \in Withdrawals \ {w} :
              Holds(v)' = Holds(v) /\ Debited(v)' = Debited(v) /\ Crediting(v)' = Crediting(v)
<1>1. \A v \in Withdrawals : Finalising(v)' = Finalising(v)
  BY DEF Finalising, Workers
<1>2. \A v \in Withdrawals \ {w} : Returning(v)' = Returning(v) /\ Crediting(v)' = Crediting(v)
  BY WithdrawalAssumption DEF Returning, Crediting
<1> QED
  BY <1>1, <1>2 DEF Holds, Debited

\* A review keeps the books: what is rejected is unlocked and given back once.
LEMMA BookedReview ==
  ASSUME TypeOK, TypeOK', Ordered, Serial, Booked, NEW a \in Admins, Decide(a) \/ Review(a),
         UNCHANGED deployment
  PROVE  Booked'
<1> SUFFICES ASSUME OneWorker PROVE Booked'
  BY DEF Booked, OneWorker, Workers, Faulty, MaxCrashes
<1> USE WithdrawalAssumption DEF Back, GivesBack
<1>1. ASSUME NEW w \in Withdrawals, ApproveRead(a, w) \/ RejectRead(a, w)
      PROVE  Booked'
  <2>1. SameBooks
    BY <1>1
    DEF ApproveRead, RejectRead, SameBooks, TypeOK, Asked, Held, Gone, Metered, Holds, Debited, Crediting,
        Finalising, Returning, Workers, Idle
  <2> QED
    BY <2>1, BookedSame
<1>2. CASE ApproveFlip(a)
  <2>1. SameBooks
    BY <1>2
    DEF ApproveFlip, SameBooks, TypeOK, Asked, Held, Gone, Metered, Holds, Debited, Crediting,
        Finalising, Returning, Workers, Idle, Reviewable, Rejectable, ReviewStates
  <2> QED
    BY <2>1, BookedSame
<1>0. PICK w : w = adm[a].w
  OBVIOUS
<1> USE <1>0
<1>3. CASE RejectFlip(a)
  <2>1. CASE UNCHANGED <<status, adm>> \/ (adm' = [adm EXCEPT ![a] = Idle] /\ UNCHANGED status)
    <3>1. SameBooks
      BY <1>3, <2>1
      DEF RejectFlip, SameBooks, TypeOK, Asked, Held, Gone, Metered, Holds, Debited, Crediting, Finalising,
          Returning, Workers, Idle, ReviewStates
    <3> QED
      BY <3>1, BookedSame
  <2>2. CASE /\ status[w] \in Rejectable /\ status' = [status EXCEPT ![w] = "rejected"]
             /\ adm' = [adm EXCEPT ![a].at = "unlock"]
    <3>1. /\ w \in Withdrawals /\ adm[a].at = "reject" /\ adm'[a].w = w /\ adm'[a].at = "unlock"
          /\ \A b \in Admins : b # a => adm'[b] = adm[b]
      BY <1>3, <2>2 DEF RejectFlip, TypeOK, ReviewStates, Idle
    <3>2. UNCHANGED <<deployment, req, wk, eq, balance, locked, used, price>> /\ faults' >= faults
      BY <1>3, <2>2 DEF RejectFlip, TypeOK
    <3>3. \A v \in Withdrawals : Finalising(v)' = Finalising(v) /\ Crediting(v)' = Crediting(v)
      BY <3>1, <3>2 DEF Finalising, Crediting, Workers
    <3>4. ~Finalising(w)
      <4>1. \A k \in Workers : OrderedWork(k)
        BY DEF Ordered, AllWorkers, Workers, TypeOK
      <4> QED
        BY <2>2, <4>1 DEF Finalising, OrderedWork, Released, Idle, Rejectable, Reviewable
    <3>5. Holds(w) /\ Holds(w)' /\ ~Debited(w) /\ ~Debited(w)'
      BY <2>2, <3>1, <3>3, <3>4 DEF Holds, Debited, Returning, TypeOK, Rejectable, Reviewable
    <3>6. \A v \in Withdrawals \ {w} : Holds(v)' = Holds(v) /\ Debited(v)' = Debited(v)
      <4> SUFFICES ASSUME NEW v \in Withdrawals, v # w
                   PROVE  Holds(v)' = Holds(v) /\ Debited(v)' = Debited(v)
        OBVIOUS
      <4>1. status'[v] = status[v] /\ Finalising(v)' = Finalising(v)
        BY <2>2, <3>3 DEF TypeOK
      <4>2. Returning(v)' = Returning(v)
        BY <3>1 DEF Returning
      <4> QED
        BY <4>1, <4>2, <3>2 DEF Holds, Debited
    <3>7. SameBooks
      BY <3>1, <3>2, <3>3, <3>5, <3>6 DEF SameBooks, Held, Gone, Metered, Asked
    <3> QED
      BY <3>7, BookedSame
  <2> QED
    BY <1>3, <2>1, <2>2 DEF RejectFlip
<1>4. ASSUME adm[a].at \in GivesBack
      PROVE  /\ w \in Withdrawals /\ status[w] = "rejected" /\ req[w] = "accepted"
             /\ \A b \in Admins : b # a /\ adm[b].w = w => ~Back(b)
             /\ ~Finalising(w) /\ ~Debited(w)
  <2>1. w \in Withdrawals /\ status[w] = "rejected" /\ req[w] = "accepted"
    BY <1>4 DEF Serial, TypeOK, ReviewStates, Idle, Ordered, OrderedRow
  <2>2. \A k \in Workers : OrderedWork(k)
    BY DEF Ordered, AllWorkers, Workers, TypeOK
  <2>3. ~Finalising(w)
    BY <2>1, <2>2 DEF Finalising, OrderedWork, Released, Idle
  <2> QED
    BY <1>4, <2>1, <2>3 DEF Serial, Debited
<1>5. CASE RejectUnlock(a)
  <2>1. /\ adm[a].at = "unlock" /\ adm'[a].w = w /\ adm'[a].at \in {"credit", "rollback"}
        /\ \A b \in Admins : b # a => adm'[b] = adm[b]
        /\ UNCHANGED <<deployment, req, wk, status, eq, balance, used, price>>
    BY <1>5 DEF RejectUnlock, TypeOK, ReviewStates, Idle
  <2>2. /\ w \in Withdrawals /\ status[w] = "rejected" /\ ~Finalising(w) /\ ~Debited(w)
        /\ \A v \in Withdrawals : Finalising(v)' = Finalising(v)
        /\ \A v \in Withdrawals \ {w} :
             Holds(v)' = Holds(v) /\ Debited(v)' = Debited(v) /\ Crediting(v)' = Crediting(v)
    BY <1>4, <2>1, ReviewFrame
  <2>3. Holds(w) /\ ~Debited(w)'
    BY <2>1, <2>2 DEF Holds, Returning, Debited
  <2>4. CASE Works /\ locked' = Unlocked(AmountOf[w]) /\ adm'[a].at = "credit"
    <3>1. ~Holds(w)' /\ Crediting(w)'
      BY <1>4, <2>1, <2>2, <2>4 DEF Holds, Returning, Crediting, Rejectable, Reviewable
    <3>2. /\ w \in Held /\ Held' = Held \ {w} /\ Gone' = Gone /\ Metered' = Metered /\ Asked' = Asked
      BY <2>1, <2>2, <2>3, <3>1 DEF Held, Gone, Metered, Asked
    <3>3. /\ SumOver(AmountOf, Held) = SumOver(AmountOf, Held') + AmountOf[w]
          /\ SumOver(AmountOf, Held') \in Nat /\ AmountOf[w] \in Nat
      BY <2>2, <3>2, SumsSplit
    <3>4. locked' = locked - AmountOf[w]
      BY <2>4, <3>3 DEF Unlocked, Booked, TypeOK
    <3>5. /\ \A x \in Withdrawals : req'[x] = "undo" => faults' >= 1
          /\ \A b \in Admins : adm'[b].at = "rollback" => faults' >= 1
          /\ Prices' = Prices /\ Undisturbed' = Undisturbed
      BY <2>1, <2>4
      DEF Booked, Prices, Undisturbed, OneWorker, Workers, Faulty, MaxCrashes, MaxFaults
    <3> QED
      BY <2>1, <3>2, <3>3, <3>4, <3>5 DEF Booked, TypeOK
  <2>5. CASE Fails("gateway") /\ UNCHANGED locked /\ adm'[a].at = "rollback"
    <3>1. Holds(w)' /\ Crediting(w)' = Crediting(w)
      BY <2>1, <2>2, <2>5 DEF Holds, Returning, Crediting
    <3>2. SameBooks
      BY <2>1, <2>2, <2>3, <2>5, <3>1 DEF SameBooks, Held, Gone, Metered, Asked, TypeOK
    <3> QED
      BY <3>2, BookedSame
  <2> QED
    BY <1>5, <2>1, <2>4, <2>5 DEF RejectUnlock, TypeOK, ReviewStates, Idle
<1>6. CASE RejectRollback(a)
  <2>1. /\ adm[a].at = "rollback" /\ adm'[a] = Idle
        /\ \A b \in Admins : b # a => adm'[b] = adm[b]
        /\ UNCHANGED <<deployment, req, wk, eq, balance, locked, used, price>>
        /\ adm[a].prev \in Rejectable
        /\ \A v \in Withdrawals : v # w => status'[v] = status[v]
    BY <1>6 DEF RejectRollback, TypeOK, ReviewStates, Idle
  <2>2. /\ w \in Withdrawals /\ status[w] = "rejected" /\ ~Finalising(w) /\ ~Debited(w)
        /\ \A v \in Withdrawals : Finalising(v)' = Finalising(v)
        /\ \A v \in Withdrawals \ {w} :
             Holds(v)' = Holds(v) /\ Debited(v)' = Debited(v) /\ Crediting(v)' = Crediting(v)
    BY <1>4, <2>1, ReviewFrame DEF Idle
  <2>3. Holds(w) /\ ~Crediting(w) /\ ~Crediting(w)'
    BY <1>4, <2>1, <2>2 DEF Holds, Returning, Crediting, Idle
  <2>4. CASE Works /\ status' = [status EXCEPT ![w] = adm[a].prev]
    <3>1. Holds(w)' /\ ~Debited(w)'
      BY <2>1, <2>2, <2>4 DEF Holds, Debited, TypeOK, Rejectable, Reviewable
    <3>2. SameBooks
      BY <2>1, <2>2, <2>3, <2>4, <3>1 DEF SameBooks, Held, Gone, Metered, Asked, TypeOK, Idle
    <3> QED
      BY <3>2, BookedSame
  <2>5. CASE Fails("gateway") /\ UNCHANGED status
    <3>1. ~Holds(w)' /\ ~Debited(w)'
      BY <1>4, <2>1, <2>2, <2>5 DEF Holds, Debited, Returning, Idle, Rejectable, Reviewable
    <3>2. /\ w \in Held /\ Held' = Held \ {w} /\ Gone' = Gone /\ Asked' = Asked
          /\ w \in Metered /\ Metered' = Metered \ {w}
      BY <2>1, <2>2, <2>3, <3>1 DEF Held, Gone, Metered, Asked
    <3>3. /\ SumOver(AmountOf, Held) = SumOver(AmountOf, Held') + AmountOf[w]
          /\ SumOver(AmountOf, Held') \in Nat /\ AmountOf[w] \in Nat
          /\ SumOver(eq, Metered) = SumOver(eq, Metered') + eq[w]
          /\ SumOver(eq, Metered') \in Nat /\ eq[w] \in Nat
      BY <2>2, <3>2, SumsSplit DEF TypeOK
    <3>4. /\ \A x \in Withdrawals : req'[x] = "undo" => faults' >= 1
          /\ \A b \in Admins : adm'[b].at = "rollback" => faults' >= 1
          /\ Prices' = Prices
      BY <2>1, <2>5 DEF Booked, Prices, TypeOK, Idle
    <3>5. ~Undisturbed'
      <4>1. faults >= 1 /\ faults < MaxFaults /\ MaxFaults \in Nat
        BY <2>1, <2>5, DeploymentAssumption DEF Booked, TypeOK, MaxFaults
      <4> QED
        BY <2>1, <4>1 DEF Undisturbed, MaxFaults, TypeOK
    <3> QED
      BY <2>1, <3>2, <3>3, <3>4, <3>5 DEF Booked, TypeOK
  <2> QED
    BY <1>6, <2>4, <2>5 DEF RejectRollback
<1>7. CASE RejectCredit(a)
  <2>1. /\ adm[a].at = "credit" /\ adm'[a] = Idle
        /\ \A b \in Admins : b # a => adm'[b] = adm[b]
        /\ UNCHANGED <<deployment, req, wk, status, eq, balance, locked, price>>
        /\ used' \in {used, Credited(AmountOf[w] * price)}
    BY <1>7 DEF RejectCredit, TypeOK, ReviewStates, Idle
  <2>2. /\ w \in Withdrawals /\ status[w] = "rejected" /\ ~Finalising(w) /\ ~Debited(w)
        /\ req[w] = "accepted"
        /\ \A v \in Withdrawals : Finalising(v)' = Finalising(v)
        /\ \A v \in Withdrawals \ {w} :
             Holds(v)' = Holds(v) /\ Debited(v)' = Debited(v) /\ Crediting(v)' = Crediting(v)
    BY <1>4, <2>1, ReviewFrame DEF Idle
  <2>3. /\ ~Holds(w) /\ Crediting(w) /\ ~Holds(w)' /\ ~Debited(w)' /\ ~Crediting(w)'
    BY <1>4, <2>1, <2>2
    DEF Holds, Returning, Debited, Crediting, Idle, Rejectable, Reviewable
  <2>4. /\ Held' = Held /\ Gone' = Gone /\ Asked' = Asked
        /\ w \in Metered /\ Metered' = Metered \ {w}
    BY <2>1, <2>2, <2>3 DEF Held, Gone, Metered, Asked
  <2>5. /\ SumOver(eq, Metered) = SumOver(eq, Metered') + eq[w]
        /\ SumOver(eq, Metered') \in Nat /\ eq[w] \in Nat
    BY <2>2, <2>4, SumsSplit DEF TypeOK
  <2>6. /\ \A x \in Withdrawals : req'[x] = "undo" => faults' >= 1
        /\ \A b \in Admins : adm'[b].at = "rollback" => faults' >= 1
        /\ Undisturbed' = Undisturbed /\ Prices' = Prices
    BY <1>7, <2>1
    DEF RejectCredit, TypeOK, Booked, Prices, Undisturbed, OneWorker, Workers, Faulty, MaxCrashes,
        MaxFaults, Idle
  <2>7. Prices = {price} => used' >= SumOver(eq, Metered') /\ used' <= Limit
    <3> SUFFICES ASSUME Prices = {price}
                 PROVE  used' >= SumOver(eq, Metered') /\ used' <= Limit
      OBVIOUS
    <3>1. eq[w] = AmountOf[w] * price
      BY <2>2 DEF Booked, Asked
    <3> QED
      BY <2>1, <2>5, <3>1 DEF Credited, Booked, TypeOK
  <2> QED
    BY <2>1, <2>4, <2>6, <2>7 DEF Booked
<1> QED
  BY <1>1, <1>2, <1>3, <1>5, <1>6, <1>7 DEF Decide, Review

\* A step of the only worker on w leaves the other withdrawals alone.
LEMMA WorkFrame ==
  ASSUME TypeOK, NEW k \in Workers, NEW w \in Withdrawals, wk[k].w \in {w, Nobody},
         wk'[k].w \in {w, Nobody}, \A l \in Workers : l = k,
         \A v \in Withdrawals : v # w => status'[v] = status[v],
         UNCHANGED <<deployment, req, adm>>
  PROVE  \A v \in Withdrawals \ {w} :
           Holds(v)' = Holds(v) /\ Debited(v)' = Debited(v) /\ Crediting(v)' = Crediting(v)
<1>1. \A v \in Withdrawals \ {w} : ~Finalising(v) /\ ~Finalising(v)'
  BY WithdrawalAssumption DEF Finalising, Workers
<1>2. \A v \in Withdrawals : Returning(v)' = Returning(v) /\ Crediting(v)' = Crediting(v)
  BY DEF Returning, Crediting
<1> QED
  BY <1>1, <1>2 DEF Holds, Debited

\* A worker keeps the books: what was sent is taken from lock and balance once.
LEMMA BookedWork ==
  ASSUME TypeOK, TypeOK', Ordered, Serial, Booked, NEW k \in Workers,
         Work(k) \/ \E w \in Withdrawals : Poll(k, w), UNCHANGED deployment
  PROVE  Booked'
<1> SUFFICES ASSUME OneWorker PROVE Booked'
  BY DEF Booked, OneWorker, Workers, Faulty, MaxCrashes
<1>1. k \in AllWorkers /\ OrderedWork(k) /\ SerialWork(k) /\ \A l \in Workers : l = k
  BY OnlyWorker DEF AllWorkers, Workers, TypeOK, Ordered, Serial
<1>2. "worker" \notin Faulty
  BY DEF OneWorker
<1> USE WithdrawalAssumption
<1>3. ASSUME NEW w \in Withdrawals, wk[k].w \in {w, Nobody}, wk'[k].w \in {w, Nobody},
             \A v \in Withdrawals : v # w => status'[v] = status[v],
             Holds(w)' = Holds(w), Debited(w)' = Debited(w),
             UNCHANGED <<req, adm, balance, locked, used, eq, price, faults>>
      PROVE  Booked'
  <2>1. \A v \in Withdrawals \ {w} :
          Holds(v)' = Holds(v) /\ Debited(v)' = Debited(v) /\ Crediting(v)' = Crediting(v)
    BY <1>1, <1>3, WorkFrame
  <2>2. Crediting(w)' = Crediting(w)
    BY <1>3 DEF Crediting
  <2>3. SameBooks
    BY <1>3, <2>1, <2>2 DEF SameBooks, Held, Gone, Metered, Asked, TypeOK
  <2> QED
    BY <2>3, BookedSame
<1>4. ASSUME NEW w \in Withdrawals, BroadcastRead(k, w) \/ ConfirmRead(k, w)
      PROVE  Booked'
  <2>1. /\ wk[k].w = Nobody /\ wk'[k].w = w /\ wk[k].at = "idle" /\ wk'[k].at # "save_completed"
        /\ UNCHANGED <<status, req, adm, balance, locked, used, eq, price, faults>>
    BY <1>1, <1>4 DEF BroadcastRead, ConfirmRead, TypeOK, Idle
  <2>2. Holds(w)' = Holds(w) /\ Debited(w)' = Debited(w)
    BY <1>1, <2>1 DEF Holds, Debited, Finalising, Returning, Workers
  <2> QED
    BY <1>3, <2>1, <2>2
<1>5. PICK w : w = wk[k].w
  OBVIOUS
<1>6. ASSUME wk[k].at # "idle"
      PROVE  w \in Withdrawals /\ wk[k] # Idle
  BY <1>1, <1>5, <1>6 DEF TypeOK, WorkStates, Idle
<1>7. CASE SendTransaction(k) \/ QueueCold(k) \/ GetConfirmations(k)
  <2>1. /\ wk[k].at \in {"send", "queue", "confirm"}
        /\ wk'[k].w \in {w, Nobody} /\ wk'[k].at # "save_completed"
        /\ UNCHANGED <<status, req, adm, balance, locked, used, eq, price, faults>>
    BY <1>1, <1>2, <1>5, <1>6, <1>7
    DEF SendTransaction, QueueCold, GetConfirmations, At, Done, TypeOK, WorkStates, Idle
  <2>2. Holds(w)' = Holds(w) /\ Debited(w)' = Debited(w)
    BY <1>1, <2>1 DEF Holds, Debited, Finalising, Returning, Workers
  <2> QED
    BY <1>3, <1>5, <1>6, <2>1, <2>2
<1>8. CASE SaveBroadcast(k) \/ SaveCold(k) \/ SaveCompleted(k)
  <2>1. /\ wk[k].at \in {"save_sent", "save_cold", "save_completed"} /\ wk'[k] = Idle
        /\ wk[k].at \in {"save_sent", "save_cold"} => status'[w] \in {"broadcast", "cold_signing"}
        /\ wk[k].at = "save_completed" => status'[w] = "completed"
        /\ \A v \in Withdrawals : v # w => status'[v] = status[v]
        /\ UNCHANGED <<req, adm, balance, locked, used, eq, price, faults>>
    BY <1>1, <1>2, <1>5, <1>6, <1>8
    DEF SaveBroadcast, SaveCold, SaveCompleted, SaveStatus, Done, TypeOK, WorkStates, Idle
  <2>2. req[w] = "accepted"
    BY <1>1, <1>5, <1>6, <2>1 DEF Ordered, OrderedRow, OrderedWork
  <2>3. Holds(w)' = Holds(w) /\ Debited(w)' = Debited(w)
    BY <1>1, <1>5, <1>6, <2>1, <2>2
    DEF Holds, Debited, Finalising, Returning, Workers, SerialWork, Idle, Rejectable, Reviewable
  <2> QED
    BY <1>3, <1>5, <1>6, <2>1, <2>3 DEF Idle
<1>9. CASE FinaliseDebit(k)
  <2>1. /\ wk[k].at = "debit" /\ w \in Withdrawals /\ status[w] = "broadcast" /\ status' = status
        /\ req[w] = "accepted"
        /\ UNCHANGED <<req, adm, used, eq, price, faults>>
    BY <1>1, <1>2, <1>5, <1>6, <1>9
    DEF FinaliseDebit, SerialWork, Idle, Ordered, OrderedRow
  <2>2. Holds(w) /\ ~Debited(w)
    BY <1>1, <2>1 DEF Holds, Debited, Finalising
  <2>3. CASE wk' = [wk EXCEPT ![k] = Idle] /\ UNCHANGED walletVars
    <3>1. Holds(w)' = Holds(w) /\ Debited(w)' = Debited(w)
      BY <1>1, <2>1, <2>3 DEF Holds, Debited, Finalising, Returning, Workers, Idle, TypeOK
    <3>2. wk[k].w \in {w, Nobody} /\ wk'[k].w \in {w, Nobody}
      BY <1>1, <1>5, <2>3 DEF TypeOK, Idle
    <3> QED
      BY <1>3, <2>1, <2>3, <3>1, <3>2
  <2>4. CASE /\ At(k, "save_completed") /\ locked' = Unlocked(AmountOf[w])
             /\ balance' = balance - AmountOf[w]
    <3>1. wk'[k].w = w /\ wk'[k].at = "save_completed"
      BY <1>1, <1>5, <1>6, <2>1, <2>4 DEF At, TypeOK, WorkStates, Idle
    <3>2. ~Holds(w)' /\ Debited(w)'
      BY <1>1, <2>1, <3>1 DEF Holds, Debited, Finalising, Workers, Rejectable, Reviewable
    <3>3. \A v \in Withdrawals \ {w} :
            Holds(v)' = Holds(v) /\ Debited(v)' = Debited(v) /\ Crediting(v)' = Crediting(v)
      BY <1>1, <1>5, <2>1, <3>1, WorkFrame
    <3>4. /\ w \in Held /\ Held' = Held \ {w} /\ w \in Withdrawals \ Gone /\ Gone' = Gone \cup {w}
          /\ Metered' = Metered /\ Asked' = Asked
      BY <2>1, <2>2, <3>2, <3>3 DEF Held, Gone, Metered, Asked
    <3>5. /\ SumOver(AmountOf, Held) = SumOver(AmountOf, Held') + AmountOf[w]
          /\ SumOver(AmountOf, Held') \in Nat /\ AmountOf[w] \in Nat
          /\ SumOver(AmountOf, Gone') = SumOver(AmountOf, Gone) + AmountOf[w]
          /\ SumOver(AmountOf, Gone) \in Nat
      BY <3>4, <2>1, SumsSplit
    <3>6. locked' = locked - AmountOf[w]
      BY <2>4, <3>5 DEF Unlocked, Booked, TypeOK
    <3>7. /\ balance' = Funds - SumOver(AmountOf, Gone') /\ balance' >= locked'
          /\ locked' >= SumOver(AmountOf, Held')
          /\ Undisturbed => locked' = SumOver(AmountOf, Held')
      BY <2>4, <3>5, <3>6 DEF Booked, TypeOK
    <3>8. /\ \A x \in Withdrawals : req'[x] = "undo" => faults' >= 1
          /\ \A b \in Admins : adm'[b].at = "rollback" => faults' >= 1
          /\ Undisturbed' = Undisturbed /\ Prices' = Prices
      BY <2>1 DEF Booked, Prices, Undisturbed, OneWorker, Workers, Faulty, MaxCrashes, MaxFaults
    <3> QED
      BY <2>1, <3>4, <3>7, <3>8 DEF Booked
  <2> QED
    BY <1>2, <1>5, <1>9, <2>3, <2>4 DEF FinaliseDebit, Done
<1> QED
  BY <1>4, <1>7, <1>8, <1>9 DEF Work, Poll

\* Every step keeps the books.
LEMMA BookedNext ==
  ASSUME TypeOK, TypeOK', Ordered, Serial, Booked, [Next]_vars
  PROVE  Booked'
<1>1. CASE UNCHANGED vars
  <2>1. SameBooks
    BY <1>1
    DEF vars, SameBooks, Asked, Held, Gone, Metered, Holds, Debited, Crediting, Finalising, Returning,
        Workers, TypeOK
  <2> QED
    BY <2>1, BookedSame
<1>2. ASSUME NEW w \in Withdrawals, Reserve(w) \/ Request(w) \/ Mine(w), UNCHANGED deployment
      PROVE  Booked'
  BY <1>2, BookedReserve, BookedRequest
<1>3. ASSUME NEW a \in Admins, Decide(a) \/ Review(a), UNCHANGED deployment
      PROVE  Booked'
  BY <1>3, BookedReview
<1>4. ASSUME NEW k \in Workers, Work(k) \/ \E w \in Withdrawals : Poll(k, w), UNCHANGED deployment
      PROVE  Booked'
  BY <1>4, BookedWork
<1>5. CASE PriceMoves /\ UNCHANGED deployment
  <2>1. /\ Held' = Held /\ Gone' = Gone /\ Metered' = Metered /\ Asked' = Asked
        /\ UNCHANGED <<balance, locked, used, eq, req, adm, faults>>
    BY <1>5
    DEF PriceMoves, Asked, Held, Gone, Metered, Holds, Debited, Crediting, Finalising, Returning,
        Workers
  <2>2. Prices' # {price'}
    BY <1>5 DEF PriceMoves, TypeOK, Prices
  <2>3. Undisturbed' = Undisturbed /\ OneWorker' = OneWorker
    BY <1>5, <2>1 DEF Undisturbed, OneWorker, Workers, Faulty, MaxCrashes, MaxFaults
  <2> QED
    BY <2>1, <2>2, <2>3 DEF Booked
<1>6. CASE Crash /\ UNCHANGED deployment
  BY <1>6 DEF Crash, Booked, Serial, OneWorker, Workers, Faulty, MaxCrashes
<1> QED
  BY <1>1, <1>2, <1>3, <1>4, <1>5, <1>6 DEF Next

(***************************************************************************)
(* Locks, balance, chain and daily meter tell the same story of every      *)
(* withdrawal, in every deployment (RequestWithdrawal, RejectWithdrawal,   *)
(* ConfirmWithdrawal, ReserveWithDailyLimit, Settle).                      *)
(***************************************************************************)
THEOREM WithdrawalBooks == Spec => []WithdrawalsAccounted
<1>1. TypeOK /\ Ordered /\ Booked => FundsAccounted
  BY DEF Booked, FundsAccounted, AmountsOf, SumOver, Held, Gone
<1>2. TypeOK /\ Ordered /\ Booked => WithinDailyLimit
  <2> SUFFICES ASSUME TypeOK, Ordered, Booked, OneWorker, Prices = {price}
               PROVE  MapThenSumSet(LAMBDA w : eq[w],
                                    {w \in Withdrawals : Holds(w) \/ Debited(w)}) <= Limit
    BY DEF WithinDailyLimit
  <2> DEFINE S == {w \in Withdrawals : Holds(w) \/ Debited(w)}
  <2>1. S \subseteq Metered
    BY DEF Metered
  <2>2. \A x \in Metered : eq[x] \in Nat
    BY DEF Metered, TypeOK
  <2>3. MapThenSumSet(LAMBDA w : eq[w], S) = SumOver(eq, S)
    BY DEF SumOver
  <2> HIDE DEF S
  <2>4. SumOver(eq, S) <= SumOver(eq, Metered) /\ SumOver(eq, S) \in Nat
    BY <2>1, <2>2, SumsSplit, SumSubset
  <2>5. SumOver(eq, Metered) <= Limit
    BY SumsSplit, WithdrawalAssumption DEF Booked, TypeOK
  <2>6. SumOver(eq, S) <= Limit
    BY <2>4, <2>5, SumsSplit, WithdrawalAssumption
  <2> QED
    BY <2>3, <2>6 DEF S
<1>3. Spec => [](TypeOK /\ Ordered /\ Serial /\ Booked)
  BY TypeInit, TypeNext, OrderedInit, OrderedNext, SerialInit, SerialNext, BookedInit, BookedNext, PTL
  DEF Spec
<1> QED
  BY <1>1, <1>2, <1>3, WithdrawalPaidOrReturned, PTL DEF WithdrawalsAccounted
-----------------------------------------------------------------------------
(***************************************************************************)
(* Withdrawal implements Payout.                                           *)
(***************************************************************************)
StageBar == [w \in Withdrawals |-> IF Undisturbed THEN Stage(w) ELSE "none"]
SpendableBar == IF Undisturbed THEN balance - locked ELSE Funds

PayoutStep == [Abstract!Next]_<<StageBar, SpendableBar>>

\* A step that moves no withdrawal is a stutter of the payout.
LEMMA PayoutStays ==
  ASSUME UNCHANGED deployment,
         Undisturbed => (\A v \in Withdrawals : Stage(v)' = Stage(v)) /\ balance' - locked' = balance - locked
  PROVE  PayoutStep
<1>1. Undisturbed' = Undisturbed
  BY DEF Undisturbed, OneWorker, Workers, Faulty, MaxCrashes, MaxFaults
<1> QED
  BY <1>1 DEF PayoutStep, StageBar, SpendableBar

\* A step that moves one withdrawal is a move of the payout.
LEMMA PayoutMoves ==
  ASSUME UNCHANGED deployment, Undisturbed, NEW w \in Withdrawals, NEW from, NEW to,
         Stage(w) = from, Stage(w)' = to,
         \A v \in Withdrawals : v # w => Stage(v)' = Stage(v)
  PROVE  Abstract!Move(w, from, to) /\ SpendableBar = balance - locked /\ SpendableBar' = balance' - locked'
<1>1. Undisturbed'
  BY DEF Undisturbed, OneWorker, Workers, Faulty, MaxCrashes, MaxFaults
<1>2. StageBar[w] = from /\ StageBar' = [StageBar EXCEPT ![w] = to]
  BY <1>1 DEF StageBar
<1>3. SpendableBar = balance - locked /\ SpendableBar' = balance' - locked'
  BY <1>1 DEF SpendableBar
<1> QED
  BY <1>2, <1>3 DEF Abstract!Move, StageBar

\* The lock covers every withdrawal that is held.
LEMMA HeldIsLocked ==
  ASSUME TypeOK, Ordered, Booked, OneWorker, NEW w \in Held
  PROVE  AmountOf[w] \in Nat /\ AmountOf[w] <= locked
<1>1. AmountOf[w] \in Nat
  BY WithdrawalAssumption DEF Held
<1>2. /\ SumOver(AmountOf, Held) = SumOver(AmountOf, Held \ {w}) + AmountOf[w]
      /\ SumOver(AmountOf, Held \ {w}) \in Nat
  BY SumsSplit
<1> QED
  BY <1>1, <1>2 DEF Booked, TypeOK

\* A request holds the funds or gives them back.
LEMMA PayoutRequest ==
  ASSUME TypeOK, Ordered, Booked, NEW w \in Withdrawals, Reserve(w) \/ Request(w) \/ Mine(w),
         UNCHANGED deployment
  PROVE  PayoutStep
<1> SUFFICES ASSUME Undisturbed PROVE PayoutStep
  BY PayoutStays
<1> USE WithdrawalAssumption
<1>1. CASE Reserve(w)
  <2>1. Stage(w) = "none" /\ Stage(w)' = "held"
    <3>1. req[w] = "new" /\ status[w] = "none" /\ sent[w] = 0
      BY <1>1 DEF Reserve, TypeOK, Ordered, OrderedRow, Released
    <3>2. \A k \in Workers : OrderedWork(k)
      BY DEF Ordered, AllWorkers, Workers, TypeOK
    <3>3. ~Finalising(w)
      BY <3>1, <3>2 DEF Finalising, OrderedWork, Idle
    <3>4. ~Finalising(w)'
      BY <1>1, <3>3 DEF Reserve, Finalising, Workers
    <3>5. req'[w] = "record" /\ status'[w] = "none" /\ sent'[w] = 0
      BY <1>1, <3>1 DEF Reserve, TypeOK
    <3> QED
      BY <3>1, <3>3, <3>4, <3>5 DEF Stage, Holds, Debited, Rejectable, Reviewable
  <2>2. \A v \in Withdrawals : v # w => Stage(v)' = Stage(v)
    BY <1>1 DEF Reserve, TypeOK, Stage, Holds, Debited, Finalising, Returning, Workers
  <2>3. Abstract!Move(w, "none", "held") /\ SpendableBar = balance - locked /\ SpendableBar' = balance' - locked'
    BY <2>1, <2>2, PayoutMoves
  <2>4. AmountOf[w] <= SpendableBar /\ SpendableBar' = SpendableBar - AmountOf[w]
    BY <1>1, <2>3 DEF Reserve, TypeOK
  <2>5. Abstract!Hold(w)
    BY <2>3, <2>4 DEF Abstract!Hold, SpendableBar
  <2> QED
    BY <2>5 DEF PayoutStep, Abstract!Next
<1>2. CASE UndoReserve(w)
  <2>1. Stage(w) = "held" /\ Stage(w)' = "returned"
    BY <1>2
    DEF UndoReserve, TypeOK, Ordered, OrderedRow, OrderedReview, OrderedWork, Stage,
        Holds, Debited, Finalising, Returning, Rejectable, Reviewable, Workers, AllWorkers, Idle, Busy,
        Released
  <2>2. \A v \in Withdrawals : v # w => Stage(v)' = Stage(v)
    BY <1>2 DEF UndoReserve, TypeOK, Stage, Holds, Debited, Finalising, Returning, Workers
  <2>3. Abstract!Move(w, "held", "returned") /\ SpendableBar = balance - locked /\ SpendableBar' = balance' - locked'
    BY <2>1, <2>2, PayoutMoves
  <2>4. w \in Held
    BY <1>2 DEF UndoReserve, Held, Holds
  <2>5. AmountOf[w] \in Nat /\ AmountOf[w] <= locked
    BY <2>4, HeldIsLocked DEF Undisturbed
  <2>6. Works
    BY <1>2, DeploymentAssumption DEF UndoReserve, TypeOK, Undisturbed, OneWorker, MaxFaults, Booked
  <2>7. SpendableBar' = SpendableBar + AmountOf[w]
    BY <1>2, <2>3, <2>5, <2>6 DEF UndoReserve, TypeOK, Unlocked
  <2>8. Abstract!Return(w)
    BY <2>3, <2>7 DEF Abstract!Return, SpendableBar
  <2> QED
    BY <2>8 DEF PayoutStep, Abstract!Next
<1>3. CASE Record(w) \/ UndoUsage(w) \/ Mine(w)
  <2>1. \A v \in Withdrawals : Stage(v)' = Stage(v)
    BY <1>3
    DEF Record, UndoUsage, Mine, TypeOK, Ordered, OrderedRow, OrderedReview, OrderedWork, Stage,
        Holds, Debited, Finalising, Returning, Rejectable, Reviewable, Workers, AllWorkers, Idle, Busy,
        Released
  <2>2. UNCHANGED walletVars
    BY <1>3 DEF Record, UndoUsage, Mine
  <2> QED
    BY <2>1, <2>2, PayoutStays
<1> QED
  BY <1>1, <1>2, <1>3 DEF Request

\* A review releases a withdrawal or gives it back.
LEMMA PayoutReview ==
  ASSUME TypeOK, Ordered, Serial, Booked, NEW a \in Admins, Decide(a) \/ Review(a), UNCHANGED deployment
  PROVE  PayoutStep
<1> SUFFICES ASSUME Undisturbed PROVE PayoutStep
  BY PayoutStays
<1> USE WithdrawalAssumption DEF Back, GivesBack
<1>1. OneWorker
  BY DEF Undisturbed
<1>2. ASSUME NEW w \in Withdrawals, ApproveRead(a, w) \/ RejectRead(a, w)
      PROVE  PayoutStep
  <2>1. \A v \in Withdrawals : Stage(v)' = Stage(v)
    BY <1>2
    DEF ApproveRead, RejectRead, TypeOK, Stage, Holds, Debited, Finalising, Returning, Workers, Idle
  <2> QED
    BY <1>2, <2>1, PayoutStays DEF ApproveRead, RejectRead
<1>3. CASE ApproveFlip(a) \/ RejectCredit(a)
  <2>1. \A v \in Withdrawals : Stage(v)' = Stage(v)
    BY <1>3
    DEF ApproveFlip, RejectCredit, TypeOK, Stage, Holds, Debited, Finalising, Returning, Workers, Idle,
        Reviewable, Rejectable, ReviewStates
  <2> QED
    BY <1>3, <2>1, PayoutStays DEF ApproveFlip, RejectCredit
<1>4. PICK w : w = adm[a].w
  OBVIOUS
<1>5. ASSUME adm[a].at # "idle"
      PROVE  w \in Withdrawals /\ req[w] = "accepted"
  BY <1>4, <1>5 DEF TypeOK, ReviewStates, Idle, Ordered, OrderedReview, OrderedRow, Busy
<1>6. \A k \in Workers : OrderedWork(k)
  BY DEF Ordered, AllWorkers, Workers, TypeOK
<1>7. ASSUME adm[a].at \in GivesBack, w \in Withdrawals
      PROVE  /\ status[w] = "rejected" /\ ~Finalising(w) /\ sent[w] = 0
             /\ \A b \in Admins : b # a /\ adm[b].w = w => ~Back(b)
  BY <1>1, <1>4, <1>6, <1>7
  DEF Serial, Finalising, OrderedWork, Released, Idle, Ordered, OrderedRow, TypeOK
<1>8. CASE RejectFlip(a)
  <2>1. CASE UNCHANGED status /\ adm' = [adm EXCEPT ![a] = Idle]
    <3>1. \A v \in Withdrawals : Stage(v)' = Stage(v)
      BY <1>8, <2>1
      DEF RejectFlip, TypeOK, Stage, Holds, Debited, Finalising, Returning, Workers, Idle, ReviewStates
    <3> QED
      BY <1>8, <3>1, PayoutStays DEF RejectFlip
  <2>2. CASE /\ status[w] \in Rejectable /\ status' = [status EXCEPT ![w] = "rejected"]
             /\ adm' = [adm EXCEPT ![a].at = "unlock"]
    <3>1. /\ w \in Withdrawals /\ adm'[a].w = w /\ adm'[a].at = "unlock"
          /\ \A b \in Admins : b # a => adm'[b] = adm[b]
          /\ UNCHANGED <<deployment, req, wk, sent, balance, locked>>
      BY <1>4, <1>5, <1>8, <2>2 DEF RejectFlip, TypeOK, ReviewStates, Idle
    <3>2. /\ \A v \in Withdrawals : Finalising(v)' = Finalising(v)
          /\ \A v \in Withdrawals \ {w} : Holds(v)' = Holds(v) /\ Debited(v)' = Debited(v)
      BY <1>4, <2>2, <3>1, ReviewFrame DEF TypeOK
    <3>3. ~Finalising(w)
      BY <1>6, <2>2 DEF Finalising, OrderedWork, Released, Idle, Rejectable, Reviewable
    <3>4. Holds(w) /\ Holds(w)' /\ ~Debited(w) /\ ~Debited(w)'
      BY <2>2, <3>1, <3>2, <3>3 DEF Holds, Debited, Returning, TypeOK, Rejectable, Reviewable
    <3>5. \A v \in Withdrawals : Stage(v)' = Stage(v)
      BY <3>1, <3>2, <3>4 DEF Stage
    <3> QED
      BY <3>1, <3>5, PayoutStays
  <2> QED
    BY <1>4, <1>8, <2>1, <2>2 DEF RejectFlip
<1>9. CASE RejectRollback(a)
  <2>1. /\ w \in Withdrawals /\ adm[a].at = "rollback" /\ adm'[a] = Idle
        /\ \A b \in Admins : b # a => adm'[b] = adm[b]
        /\ UNCHANGED <<deployment, req, wk, sent, balance, locked>>
        /\ adm[a].prev \in Rejectable
    BY <1>4, <1>5, <1>9 DEF RejectRollback, TypeOK, ReviewStates, Idle
  <2>2. Works
    BY <1>9, <2>1, DeploymentAssumption DEF RejectRollback, Booked, Undisturbed, OneWorker, MaxFaults, TypeOK
  <2>3. status' = [status EXCEPT ![w] = adm[a].prev]
    BY <1>4, <1>9, <2>1, <2>2 DEF RejectRollback, TypeOK
  <2>4. /\ \A v \in Withdrawals : Finalising(v)' = Finalising(v)
        /\ \A v \in Withdrawals \ {w} : Holds(v)' = Holds(v) /\ Debited(v)' = Debited(v)
    BY <1>4, <2>1, <2>3, ReviewFrame DEF TypeOK, Idle
  <2>5. Holds(w) /\ Holds(w)' /\ ~Debited(w) /\ ~Debited(w)'
    BY <1>4, <1>7, <2>1, <2>3, <2>4 DEF Holds, Debited, Returning, TypeOK, Rejectable, Reviewable
  <2>6. \A v \in Withdrawals : Stage(v)' = Stage(v)
    BY <2>1, <2>4, <2>5 DEF Stage
  <2> QED
    BY <2>1, <2>6, PayoutStays
<1>10. CASE RejectUnlock(a)
  <2>1. /\ w \in Withdrawals /\ adm[a].at = "unlock" /\ adm'[a].w = w
        /\ \A b \in Admins : b # a => adm'[b] = adm[b]
        /\ UNCHANGED <<deployment, req, wk, sent, status, balance>>
    BY <1>4, <1>5, <1>10 DEF RejectUnlock, TypeOK, ReviewStates, Idle
  <2>2. /\ \A v \in Withdrawals : Finalising(v)' = Finalising(v)
        /\ \A v \in Withdrawals \ {w} : Holds(v)' = Holds(v) /\ Debited(v)' = Debited(v)
    BY <1>4, <2>1, ReviewFrame DEF TypeOK
  <2>3. Holds(w) /\ ~Debited(w) /\ ~Debited(w)'
    BY <1>4, <1>7, <2>1, <2>2 DEF Holds, Debited, Returning
  <2>4. CASE adm'[a].at = "rollback" /\ UNCHANGED locked
    <3>1. Holds(w)'
      BY <1>7, <2>1, <2>2, <2>4 DEF Holds, Returning
    <3>2. \A v \in Withdrawals : Stage(v)' = Stage(v)
      BY <2>1, <2>2, <2>3, <3>1 DEF Stage
    <3> QED
      BY <2>1, <2>4, <3>2, PayoutStays
  <2>5. CASE adm'[a].at = "credit" /\ locked' = Unlocked(AmountOf[w])
    <3>1. ~Holds(w)'
      BY <1>4, <1>5, <1>7, <2>1, <2>2, <2>5 DEF Holds, Returning, Rejectable, Reviewable
    <3>2. Stage(w) = "held" /\ Stage(w)' = "returned"
      BY <1>4, <1>5, <1>7, <2>1, <2>3, <3>1 DEF Stage
    <3>3. \A v \in Withdrawals : v # w => Stage(v)' = Stage(v)
      BY <2>1, <2>2 DEF Stage
    <3>4. Abstract!Move(w, "held", "returned") /\ SpendableBar = balance - locked /\ SpendableBar' = balance' - locked'
      BY <2>1, <3>2, <3>3, PayoutMoves
    <3>5. AmountOf[w] \in Nat /\ AmountOf[w] <= locked
      BY <1>1, <2>1, <2>3, HeldIsLocked DEF Held
    <3>6. SpendableBar' = SpendableBar + AmountOf[w]
      BY <2>1, <2>5, <3>4, <3>5 DEF Unlocked, TypeOK
    <3>7. Abstract!Return(w)
      BY <3>4, <3>6 DEF Abstract!Return, SpendableBar
    <3> QED
      BY <2>1, <3>7 DEF PayoutStep, Abstract!Next
  <2> QED
    BY <1>4, <1>10, <2>1, <2>4, <2>5 DEF RejectUnlock, TypeOK, ReviewStates, Idle
<1> QED
  BY <1>2, <1>3, <1>8, <1>9, <1>10 DEF Decide, Review

\* A worker sends and finishes a withdrawal.
LEMMA PayoutWork ==
  ASSUME TypeOK, Ordered, Serial, Booked, NEW k \in Workers,
         Work(k) \/ \E w \in Withdrawals : Poll(k, w), UNCHANGED deployment
  PROVE  PayoutStep
<1> SUFFICES ASSUME Undisturbed PROVE PayoutStep
  BY PayoutStays
<1> USE WithdrawalAssumption
<1>1. /\ OneWorker /\ "worker" \notin Faulty
      /\ k \in AllWorkers /\ OrderedWork(k) /\ SerialWork(k) /\ \A l \in Workers : l = k
  BY OnlyWorker DEF AllWorkers, Workers, TypeOK, Ordered, Serial, Undisturbed, OneWorker
<1>2. ASSUME NEW w \in Withdrawals, wk[k].w \in {w, Nobody}, wk'[k].w \in {w, Nobody},
             \A v \in Withdrawals : v # w => status'[v] = status[v] /\ sent'[v] = sent[v],
             Stage(w)' = Stage(w), UNCHANGED <<req, adm, balance, locked>>
      PROVE  PayoutStep
  <2>1. \A v \in Withdrawals \ {w} : Holds(v)' = Holds(v) /\ Debited(v)' = Debited(v)
    BY <1>1, <1>2, WorkFrame
  <2>2. \A v \in Withdrawals : Stage(v)' = Stage(v)
    BY <1>2, <2>1 DEF Stage
  <2> QED
    BY <1>2, <2>2, PayoutStays
<1>3. ASSUME NEW w \in Withdrawals, BroadcastRead(k, w) \/ ConfirmRead(k, w)
      PROVE  PayoutStep
  <2>1. /\ wk[k].w = Nobody /\ wk'[k].w = w /\ wk[k].at = "idle" /\ wk'[k].at # "save_completed"
        /\ UNCHANGED <<status, req, adm, balance, locked, sent>>
    BY <1>1, <1>3 DEF BroadcastRead, ConfirmRead, TypeOK, Idle
  <2>2. Stage(w)' = Stage(w)
    BY <1>1, <2>1 DEF Stage, Holds, Debited, Finalising, Returning, Workers
  <2> QED
    BY <1>2, <2>1, <2>2
<1>4. PICK w : w = wk[k].w
  OBVIOUS
<1>5. ASSUME wk[k].at # "idle"
      PROVE  w \in Withdrawals /\ wk[k] # Idle /\ req[w] = "accepted"
  BY <1>1, <1>4, <1>5 DEF TypeOK, WorkStates, Idle, OrderedWork, Ordered, OrderedRow
<1>6. CASE QueueCold(k) \/ GetConfirmations(k)
  <2>1. /\ wk[k].at \in {"queue", "confirm"}
        /\ wk'[k].w \in {w, Nobody} /\ wk'[k].at # "save_completed"
        /\ UNCHANGED <<status, req, adm, balance, locked, sent>>
    BY <1>1, <1>4, <1>5, <1>6
    DEF QueueCold, GetConfirmations, At, Done, TypeOK, WorkStates, Idle
  <2>2. Stage(w)' = Stage(w)
    BY <1>1, <2>1 DEF Stage, Holds, Debited, Finalising, Returning, Workers
  <2> QED
    BY <1>2, <1>4, <1>5, <2>1, <2>2
<1>7. CASE SendTransaction(k)
  <2>1. /\ wk[k].at = "send" /\ wk'[k].w = w /\ wk'[k].at = "save_sent"
        /\ w \in Withdrawals /\ status[w] = "approved" /\ sent[w] = 0
        /\ sent' = [sent EXCEPT ![w] = @ + 1]
        /\ UNCHANGED <<status, req, adm, balance, locked>>
    BY <1>1, <1>4, <1>5, <1>7 DEF SendTransaction, At, Done, TypeOK, WorkStates, Idle, SerialWork
  <2>2. Stage(w) = "held" /\ Stage(w)' = "sent"
    BY <1>1, <2>1 DEF Stage, Holds, Debited, Finalising, Workers, TypeOK
  <2>3. \A v \in Withdrawals \ {w} : Holds(v)' = Holds(v) /\ Debited(v)' = Debited(v)
    BY <1>1, <1>4, <2>1, WorkFrame
  <2>4. \A v \in Withdrawals : v # w => Stage(v)' = Stage(v)
    BY <2>1, <2>3 DEF Stage, TypeOK
  <2>5. Abstract!Move(w, "held", "sent") /\ SpendableBar = balance - locked /\ SpendableBar' = balance' - locked'
    BY <2>1, <2>2, <2>4, PayoutMoves
  <2>6. Abstract!Send(w)
    BY <2>1, <2>5 DEF Abstract!Send, SpendableBar
  <2> QED
    BY <2>1, <2>6 DEF PayoutStep, Abstract!Next
<1>8. CASE SaveBroadcast(k) \/ SaveCold(k) \/ SaveCompleted(k)
  <2>1. /\ wk[k].at \in {"save_sent", "save_cold", "save_completed"} /\ wk'[k] = Idle
        /\ wk[k].at \in {"save_sent", "save_cold"} => status'[w] \in {"broadcast", "cold_signing"}
        /\ wk[k].at = "save_completed" => status'[w] = "completed"
        /\ \A v \in Withdrawals : v # w => status'[v] = status[v]
        /\ UNCHANGED <<req, adm, balance, locked, sent>>
    BY <1>1, <1>4, <1>5, <1>8
    DEF SaveBroadcast, SaveCold, SaveCompleted, SaveStatus, Done, TypeOK, WorkStates, Idle
  <2>2. Stage(w)' = Stage(w)
    BY <1>1, <1>4, <1>5, <2>1
    DEF Stage, Holds, Debited, Finalising, Returning, Workers, SerialWork, Idle, Rejectable, Reviewable
  <2> QED
    BY <1>2, <1>4, <1>5, <2>1, <2>2 DEF Idle
<1>9. CASE FinaliseDebit(k)
  <2>1. /\ wk[k].at = "debit" /\ w \in Withdrawals /\ status[w] = "broadcast" /\ sent[w] > 0
        /\ UNCHANGED <<status, req, adm, sent>>
    BY <1>1, <1>4, <1>5, <1>9 DEF FinaliseDebit, SerialWork, Idle, Ordered, OrderedRow
  <2>2. Holds(w) /\ ~Debited(w)
    BY <1>1, <2>1 DEF Holds, Debited, Finalising
  <2>3. CASE wk' = [wk EXCEPT ![k] = Idle] /\ UNCHANGED walletVars
    <3>1. Stage(w)' = Stage(w)
      BY <1>1, <2>1, <2>3 DEF Stage, Holds, Debited, Finalising, Returning, Workers, Idle, TypeOK
    <3>2. wk[k].w \in {w, Nobody} /\ wk'[k].w \in {w, Nobody}
      BY <1>1, <1>4, <2>3 DEF TypeOK, Idle
    <3> QED
      BY <1>2, <2>1, <2>3, <3>1, <3>2
  <2>4. CASE /\ At(k, "save_completed") /\ locked' = Unlocked(AmountOf[w])
             /\ balance' = balance - AmountOf[w]
    <3>1. wk'[k].w = w /\ wk'[k].at = "save_completed"
      BY <1>1, <1>4, <1>5, <2>1, <2>4 DEF At, TypeOK, WorkStates, Idle
    <3>2. Stage(w) = "sent" /\ Stage(w)' = "settled"
      BY <1>1, <2>1, <2>2, <3>1 DEF Stage, Debited, Finalising, Workers
    <3>3. \A v \in Withdrawals \ {w} : Holds(v)' = Holds(v) /\ Debited(v)' = Debited(v)
      BY <1>1, <1>4, <2>1, <3>1, WorkFrame
    <3>4. \A v \in Withdrawals : v # w => Stage(v)' = Stage(v)
      BY <2>1, <3>3 DEF Stage
    <3>5. Abstract!Move(w, "sent", "settled") /\ SpendableBar = balance - locked /\ SpendableBar' = balance' - locked'
      BY <2>1, <3>2, <3>4, PayoutMoves
    <3>6. AmountOf[w] \in Nat /\ AmountOf[w] <= locked
      BY <1>1, <2>1, <2>2, HeldIsLocked DEF Held
    <3>7. SpendableBar' = SpendableBar
      BY <2>4, <3>5, <3>6 DEF Unlocked, TypeOK
    <3>8. Abstract!Settle(w)
      BY <3>5, <3>7 DEF Abstract!Settle, SpendableBar
    <3> QED
      BY <2>1, <3>8 DEF PayoutStep, Abstract!Next
  <2> QED
    BY <1>1, <1>4, <1>9, <2>3, <2>4 DEF FinaliseDebit, Done
<1> QED
  BY <1>3, <1>6, <1>7, <1>8, <1>9 DEF Work, Poll

\* Every step is a step of the payout.
LEMMA PayoutNext ==
  ASSUME TypeOK, Ordered, Serial, Booked, [Next]_vars
  PROVE  PayoutStep
<1>1. CASE UNCHANGED vars
  <2>1. UNCHANGED deployment /\ balance' - locked' = balance - locked
    BY <1>1 DEF vars
  <2>2. \A v \in Withdrawals : Stage(v)' = Stage(v)
    BY <1>1 DEF vars, Stage, Holds, Debited, Finalising, Returning, Workers
  <2> QED
    BY <2>1, <2>2, PayoutStays
<1>2. CASE PriceMoves /\ UNCHANGED deployment
  <2>1. \A v \in Withdrawals : Stage(v)' = Stage(v)
    BY <1>2 DEF PriceMoves, Stage, Holds, Debited, Finalising, Returning, Workers
  <2> QED
    BY <1>2, <2>1, PayoutStays DEF PriceMoves
<1>3. CASE Crash /\ UNCHANGED deployment
  BY <1>3, PayoutStays DEF Crash, Serial, Undisturbed, OneWorker, MaxCrashes
<1> QED
  BY <1>1, <1>2, <1>3, PayoutRequest, PayoutReview, PayoutWork DEF Next

(***************************************************************************)
(* Undisturbed, the requests, the reviewers and the worker implement       *)
(* Payout: what is set aside is given back once, or sent once and taken    *)
(* off the books once (RequestWithdrawal, RejectWithdrawal,                *)
(* BroadcastWithdrawal, ConfirmWithdrawal).                                *)
(***************************************************************************)
THEOREM WithdrawalImplementsPayout == Spec => ImplementsPayout
<1>1. Init => Abstract!Init
  <2> SUFFICES ASSUME Init PROVE Abstract!Init
    OBVIOUS
  <2>1. \A w \in Withdrawals : Stage(w) = "none"
    BY WithdrawalAssumption
    DEF Init, Stage, Holds, Debited, Finalising, Returning, Idle, Workers, AllWorkers, Rejectable, Reviewable
  <2> QED
    BY <2>1, WithdrawalAssumption DEF Abstract!Init, Init
<1>2. TypeOK /\ Ordered /\ Serial /\ Booked /\ [Next]_vars
        => [Abstract!Next]_<<[w \in Withdrawals |-> IF Undisturbed THEN Stage(w) ELSE "none"],
                             IF Undisturbed THEN balance - locked ELSE Funds>>
  BY PayoutNext DEF PayoutStep, StageBar, SpendableBar
<1>3. Spec => [](TypeOK /\ Ordered /\ Serial /\ Booked)
  BY TypeInit, TypeNext, OrderedInit, OrderedNext, SerialInit, SerialNext, BookedInit, BookedNext, PTL
  DEF Spec
<1> QED
  BY <1>1, <1>2, <1>3, PTL DEF Spec, ImplementsPayout, Abstract!Spec
=============================================================================
