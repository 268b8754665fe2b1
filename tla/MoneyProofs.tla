----------------------------- MODULE MoneyProofs -----------------------------
(***************************************************************************)
(* Proofs about the components that handle money beside trading: identity  *)
(* checks (Kyc), deposit claims (DepositClaims), deposits, addresses and   *)
(* transfers (WalletDesk), withdrawal addresses (AddressBook), pools       *)
(* (AmmPool), the memory of settled fills (FillDedup) and the prices of    *)
(* outside exchanges (PriceFeeds).                                         *)
(***************************************************************************)
EXTENDS Kyc, DepositClaims, WalletDesk, AddressBook, AmmPool, FillDedup, PriceFeeds, SumTheorems, SequenceTheorems, TLAPS

-----------------------------------------------------------------------------
(***************************************************************************)
(* Identity checks.  A level comes from the table, through a cache, to a   *)
(* withdrawal, so that none of the places may hold one that no approval    *)
(* earned; an approval is final, because the update asks for a pending     *)
(* row; and the level is raised only by the review that approved.          *)
(***************************************************************************)
KycType ==
  /\ submission \in [Submissions -> {NoRow} \cup [status : {"pending", "approved", "rejected"}, user : Applicants]]
  /\ submitting \in [Submissions -> {Idle0} \cup [step : {"written", "over"}, user : Applicants]]
  /\ review \in [KycAdmins -> {Idle0} \cup
       [step : {"update", "raise", "invalidate"}, gateway : KycGateways, id : Submissions, action : {"approved", "rejected"}]]
  /\ kycLevel \in [Applicants -> {0, 1}]
  /\ kycCache \in [KycGateways -> [Applicants -> [level : {0, 1}, expires : Nat]]]
  /\ payer \in [Payers -> {Idle0} \cup [step : {"limit"}, user : Applicants, level : {0, 1}]
       \cup [step : {"write"}, gateway : KycGateways, user : Applicants, level : {0, 1}]]
  /\ kycTime \in Nat

ApprovedUser(u) == \E s \in Submissions : submission[s] = [status |-> "approved", user |-> u]

KycStages ==
  /\ \A s \in Submissions :
       /\ submitting[s].step = "written" => s \in documents /\ submission[s] = NoRow
       /\ submission[s] # NoRow => submitting[s].step = "over" /\ (s \in documents \/ s \in lostInsert)
  /\ \A a \in KycAdmins :
       /\ review[a] # Idle0 => submission[review[a].id] # NoRow
       /\ review[a].step \in {"raise", "invalidate"} => submission[review[a].id].status = "approved"

Earned ==
  \A u \in Applicants :
    /\ kycLevel[u] > 0 => ApprovedUser(u)
    /\ \A g \in KycGateways : kycCache[g][u].level > 0 => ApprovedUser(u)
    /\ \A w \in Payers : payer[w] # Idle0 /\ payer[w].user = u /\ payer[w].level > 0 => ApprovedUser(u)

KycInv == KycType /\ KycStages /\ Earned

\* KycInit: nothing is submitted, and nobody has a level.
LEMMA KycStart == KycInit => KycInv
<1> SUFFICES ASSUME KycInit PROVE KycInv
  OBVIOUS
<1>1. KycType
  BY DEF KycInit, KycType, NoRow, Idle0, NoEntry
<1>2. KycStages
  BY DEF KycInit, KycStages, NoRow, Idle0
<1>3. Earned
  BY DEF KycInit, Earned, Idle0, NoEntry
<1> QED
  BY <1>1, <1>2, <1>3 DEF KycInv

\* The steps of a submitting request, a review or a withdrawal keep the types.
LEMMA KycTypeNext == KycInv /\ [KycNext]_kycVars => KycType'
<1> SUFFICES ASSUME KycInv, [KycNext]_kycVars PROVE KycType'
  OBVIOUS
<1> USE DEF KycInv, KycType, Submissions, KycGateways
<1>1. CASE UNCHANGED kycVars
  BY <1>1 DEF kycVars
<1>2. ASSUME NEW s \in Submissions, WriteDocuments(s) PROVE KycType'
  BY <1>2 DEF WriteDocuments, Idle0
<1>3. ASSUME NEW s \in Submissions, InsertSubmission(s) PROVE KycType'
  <2>1. /\ submitting[s] \in [step : {"written", "over"}, user : Applicants]
        /\ submitting' = [submitting EXCEPT ![s].step = "over"]
    BY <1>3 DEF InsertSubmission, Idle0
  <2>2. [submitting[s] EXCEPT !.step = "over"] \in [step : {"written", "over"}, user : Applicants]
    BY <2>1
  <2>3. submitting' \in [Submissions -> {Idle0} \cup [step : {"written", "over"}, user : Applicants]]
    BY <2>1, <2>2
  <2> QED
    BY <1>3, <2>1, <2>3 DEF InsertSubmission
<1>4. ASSUME NEW a \in KycAdmins, GetByID(a) PROVE KycType'
  BY <1>4 DEF GetByID, kycTables
<1>5. ASSUME NEW a \in KycAdmins, UpdateStatus(a) PROVE KycType'
  <2> DEFINE R == [step : {"update", "raise", "invalidate"}, gateway : KycGateways, id : Submissions, action : {"approved", "rejected"}]
             W == [status : {"pending", "approved", "rejected"}, user : Applicants]
  <2>1. review[a] \in R
    BY <1>5 DEF UpdateStatus, Idle0
  <2>2. [review[a] EXCEPT !.step = "raise"] \in R
    BY <2>1
  <2>3. review' \in [KycAdmins -> {Idle0} \cup R]
    <3>1. \/ review' = [review EXCEPT ![a] = Idle0]
          \/ review' = [review EXCEPT ![a] = [review[a] EXCEPT !.step = "raise"]]
      BY <1>5 DEF UpdateStatus, EndReview
    <3> QED
      BY <2>2, <3>1
  <2>4. ASSUME PendingRow(review[a].id) PROVE [submission EXCEPT ![review[a].id].status = review[a].action] \in [Submissions -> {NoRow} \cup W]
    <3>1. submission[review[a].id] \in W
      BY <2>1, <2>4 DEF PendingRow, NoRow
    <3>2. [submission[review[a].id] EXCEPT !.status = review[a].action] \in W
      BY <2>1, <3>1
    <3> QED
      BY <2>1, <3>2
  <2>5. submission' \in [Submissions -> {NoRow} \cup W]
    BY <1>5, <2>4 DEF UpdateStatus
  <2> QED
    BY <1>5, <2>3, <2>5 DEF UpdateStatus
<1>6. ASSUME NEW a \in KycAdmins, RaiseLevel(a) PROVE KycType'
  <2> DEFINE R == [step : {"update", "raise", "invalidate"}, gateway : KycGateways, id : Submissions, action : {"approved", "rejected"}]
  <2>1. review[a] \in R
    BY <1>6 DEF RaiseLevel, Idle0
  <2>2. [review[a] EXCEPT !.step = "invalidate"] \in R
    BY <2>1
  <2>3. review' \in [KycAdmins -> {Idle0} \cup R]
    <3>1. \/ review' = [review EXCEPT ![a] = Idle0]
          \/ review' = [review EXCEPT ![a] = [review[a] EXCEPT !.step = "invalidate"]]
      BY <1>6 DEF RaiseLevel, EndReview
    <3> QED
      BY <2>2, <3>1
  <2>4. kycLevel' \in [Applicants -> {0, 1}]
    BY <1>6 DEF RaiseLevel
  <2> QED
    BY <1>6, <2>3, <2>4 DEF RaiseLevel
<1>7. ASSUME NEW a \in KycAdmins, InvalidateKycLevelCache(a) PROVE KycType'
  <2>1. review[a].gateway \in KycGateways /\ review' = [review EXCEPT ![a] = Idle0]
    BY <1>7 DEF InvalidateKycLevelCache, EndReview, Idle0
  <2>2. kycCache' = [kycCache EXCEPT ![review[a].gateway] = [@ EXCEPT ![submission[review[a].id].user] = NoEntry]]
    BY <1>7 DEF InvalidateKycLevelCache
  <2>3. [kycCache[review[a].gateway] EXCEPT ![submission[review[a].id].user] = NoEntry] \in [Applicants -> [level : {0, 1}, expires : Nat]]
    BY <2>1 DEF NoEntry
  <2>4. kycCache' \in [KycGateways -> [Applicants -> [level : {0, 1}, expires : Nat]]]
    BY <2>1, <2>2, <2>3
  <2> QED
    BY <1>7, <2>1, <2>4 DEF InvalidateKycLevelCache, kycTables
<1>8. ASSUME NEW w \in Payers, ReadCache(w) PROVE KycType'
  <2> DEFINE P == {Idle0} \cup [step : {"limit"}, user : Applicants, level : {0, 1}]
       \cup [step : {"write"}, gateway : KycGateways, user : Applicants, level : {0, 1}]
  <2>1. PICK x \in P : payer' = [payer EXCEPT ![w] = x]
    BY <1>8 DEF ReadCache
  <2> HIDE DEF P
  <2>2. payer' \in [Payers -> P]
    BY <2>1 DEF P
  <2> QED
    BY <1>8, <2>2 DEF ReadCache, kycTables, P
<1>9. ASSUME NEW w \in Payers, WriteCache(w) PROVE KycType'
  <2>1. payer[w] \in [step : {"write"}, gateway : KycGateways, user : Applicants, level : {0, 1}]
    BY <1>9 DEF WriteCache, Idle0
  <2>2. kycCache' = [kycCache EXCEPT ![payer[w].gateway] = [@ EXCEPT ![payer[w].user] = [level |-> payer[w].level, expires |-> kycTime + CacheTTL]]]
    BY <1>9 DEF WriteCache
  <2>3. [kycCache[payer[w].gateway] EXCEPT ![payer[w].user] = [level |-> payer[w].level, expires |-> kycTime + CacheTTL]] \in [Applicants -> [level : {0, 1}, expires : Nat]]
    BY <2>1, KycAssumption
  <2>4. kycCache' \in [KycGateways -> [Applicants -> [level : {0, 1}, expires : Nat]]]
    BY <2>1, <2>2, <2>3
  <2> QED
    BY <1>9, <2>1, <2>4 DEF WriteCache, kycTables
<1>10. ASSUME NEW g \in KycGateways, KycRestart(g) PROVE KycType'
  <2>1. \A s \in Submissions : submitting[s].step = "written" =>
          [submitting[s] EXCEPT !.step = "over"] \in [step : {"written", "over"}, user : Applicants]
    <3> TAKE s \in Submissions
    <3> HAVE submitting[s].step = "written"
    <3>1. submitting[s] \in [step : {"written", "over"}, user : Applicants]
      BY DEF Idle0
    <3> QED
      BY <3>1
  <2>2. submitting' \in [Submissions -> {Idle0} \cup [step : {"written", "over"}, user : Applicants]]
    BY <1>10, <2>1 DEF KycRestart
  <2>3. kycCache' \in [KycGateways -> [Applicants -> [level : {0, 1}, expires : Nat]]]
    BY <1>10 DEF KycRestart, NoEntry
  <2> QED
    BY <1>10, <2>2, <2>3 DEF KycRestart, kycTables
<1>11. CASE KycTick
  BY <1>11 DEF KycTick, kycTables
<1> QED
  BY <1>1, <1>2, <1>3, <1>4, <1>5, <1>6, <1>7, <1>8, <1>9, <1>10, <1>11 DEF KycNext

\* An approval is never undone: UpdateStatus asks for a pending row, and
\* InsertSubmission writes a row that is not there.
LEMMA ApprovalStays ==
  ASSUME KycInv, [KycNext]_kycVars
  PROVE  /\ Submissions' = Submissions /\ KycGateways' = KycGateways
         /\ \A s \in Submissions : submission[s].status = "approved" => submission'[s] = submission[s]
         /\ \A s \in Submissions : submission[s] # NoRow => submission'[s] # NoRow
         /\ \A u : ApprovedUser(u) => ApprovedUser(u)'
<1>1. Submissions' = Submissions /\ KycGateways' = KycGateways
  BY DEF KycNext, kycVars, kycTables, Submissions, KycGateways, WriteDocuments, InsertSubmission, GetByID, UpdateStatus,
         RaiseLevel, InvalidateKycLevelCache, ReadCache, WriteCache, KycRestart, KycTick
<1>2. ASSUME UNCHANGED submission
      PROVE  /\ \A s \in Submissions : submission[s].status = "approved" => submission'[s] = submission[s]
             /\ \A s \in Submissions : submission[s] # NoRow => submission'[s] # NoRow
  BY <1>2
<1>3. ASSUME NEW t \in Submissions, InsertSubmission(t)
      PROVE  /\ \A s \in Submissions : submission[s].status = "approved" => submission'[s] = submission[s]
             /\ \A s \in Submissions : submission[s] # NoRow => submission'[s] # NoRow
  <2>1. submission[t] = NoRow /\ submission \in [Submissions -> {NoRow} \cup [status : {"pending", "approved", "rejected"}, user : Applicants]]
    BY <1>3 DEF InsertSubmission, KycInv, KycType, KycStages
  <2> QED
    BY <1>3, <2>1 DEF InsertSubmission, NoRow
<1>4. ASSUME NEW a \in KycAdmins, UpdateStatus(a)
      PROVE  /\ \A s \in Submissions : submission[s].status = "approved" => submission'[s] = submission[s]
             /\ \A s \in Submissions : submission[s] # NoRow => submission'[s] # NoRow
  <2>1. CASE UNCHANGED submission
    BY <1>2, <2>1
  <2>2. CASE PendingRow(review[a].id) /\ submission' = [submission EXCEPT ![review[a].id].status = review[a].action]
    <3>1. review[a].id \in Submissions /\ review[a].action \in {"approved", "rejected"}
      BY <1>4 DEF UpdateStatus, Idle0, KycInv, KycType
    <3>2. /\ submission[review[a].id].status = "pending" /\ submission'[review[a].id].status # "none"
          /\ \A s \in Submissions \ {review[a].id} : submission'[s] = submission[s]
      <4>1. submission[review[a].id] \in [status : {"pending", "approved", "rejected"}, user : Applicants]
        BY <2>2, <3>1 DEF PendingRow, NoRow, KycInv, KycType
      <4>2. submission'[review[a].id] = [submission[review[a].id] EXCEPT !.status = review[a].action]
        BY <2>2, <3>1 DEF KycInv, KycType
      <4>3. submission'[review[a].id].status = review[a].action
        BY <4>1, <4>2
      <4> QED
        BY <2>2, <3>1, <4>3 DEF PendingRow, KycInv, KycType
    <3> QED
      BY <3>1, <3>2 DEF NoRow
  <2> QED
    BY <1>4, <2>1, <2>2 DEF UpdateStatus
<1>5. /\ \A s \in Submissions : submission[s].status = "approved" => submission'[s] = submission[s]
      /\ \A s \in Submissions : submission[s] # NoRow => submission'[s] # NoRow
  <2>1. \/ UNCHANGED submission \/ \E t \in Submissions : InsertSubmission(t)
        \/ \E a \in KycAdmins : UpdateStatus(a)
    BY DEF KycNext, kycVars, kycTables, WriteDocuments, GetByID, RaiseLevel, InvalidateKycLevelCache,
           ReadCache, WriteCache, KycRestart, KycTick
  <2> QED
    BY <1>2, <1>3, <1>4, <2>1
<1>6. \A u : ApprovedUser(u) => ApprovedUser(u)'
  BY <1>1, <1>5 DEF ApprovedUser
<1> QED
  BY <1>1, <1>5, <1>6

\* A row whose answer is awaited has its documents, and a review that raises a
\* level is the one that approved.
LEMMA KycStagesNext == KycInv /\ [KycNext]_kycVars => KycStages'
<1> SUFFICES ASSUME KycInv, [KycNext]_kycVars PROVE KycStages'
  OBVIOUS
<1>1. /\ Submissions' = Submissions /\ KycGateways' = KycGateways
      /\ \A s \in Submissions : submission[s].status = "approved" => submission'[s] = submission[s]
      /\ \A s \in Submissions : submission[s] # NoRow => submission'[s] # NoRow
  BY ApprovalStays
<1> DEFINE Filing == \A s \in Submissions :
             /\ submitting[s].step = "written" => s \in documents /\ submission[s] = NoRow
             /\ submission[s] # NoRow => submitting[s].step = "over" /\ (s \in documents \/ s \in lostInsert)
           Reviewing == \A a \in KycAdmins :
             /\ review[a] # Idle0 => submission[review[a].id] # NoRow
             /\ review[a].step \in {"raise", "invalidate"} => submission[review[a].id].status = "approved"
           Reviews == [step : {"update", "raise", "invalidate"}, gateway : KycGateways, id : Submissions, action : {"approved", "rejected"}]
<1>2. /\ Filing /\ Reviewing
      /\ submission \in [Submissions -> {NoRow} \cup [status : {"pending", "approved", "rejected"}, user : Applicants]]
      /\ submitting \in [Submissions -> {Idle0} \cup [step : {"written", "over"}, user : Applicants]]
      /\ review \in [KycAdmins -> {Idle0} \cup Reviews]
  BY DEF KycInv, KycStages, KycType
<1>3. Filing'
  <2>1. CASE UNCHANGED <<submission, submitting, documents, lostInsert>>
    BY <1>1, <1>2, <2>1
  <2>2. ASSUME NEW t \in Submissions, WriteDocuments(t) PROVE Filing'
    BY <1>1, <1>2, <2>2 DEF WriteDocuments, Idle0
  <2>3. ASSUME NEW t \in Submissions, InsertSubmission(t) PROVE Filing'
    <3>1. /\ \A s \in Submissions \ {t} : submitting'[s] = submitting[s] /\ submission'[s] = submission[s]
          /\ submitting'[t].step = "over"
      <4>1. submitting'[t] = [submitting[t] EXCEPT !.step = "over"] /\ submitting[t] # Idle0
        BY <1>2, <2>3 DEF InsertSubmission, Idle0
      <4>2. submitting[t] \in [step : {"written", "over"}, user : Applicants]
        BY <1>2, <4>1
      <4>3. submitting'[t].step = "over"
        BY <4>1, <4>2
      <4> QED
        BY <1>2, <2>3, <4>3 DEF InsertSubmission
    <3>2. /\ \A s \in Submissions \ {t} : (s \in documents <=> s \in documents') /\ (s \in lostInsert => s \in lostInsert')
          /\ submission'[t] # NoRow => t \in documents' \/ t \in lostInsert'
      BY <1>2, <2>3 DEF InsertSubmission
    <3> QED
      BY <1>1, <1>2, <3>1, <3>2
  <2>4. ASSUME NEW a \in KycAdmins, UpdateStatus(a) PROVE Filing'
    <3>1. CASE UNCHANGED submission
      BY <1>1, <1>2, <2>4, <3>1 DEF UpdateStatus
    <3>2. CASE PendingRow(review[a].id) /\ submission' = [submission EXCEPT ![review[a].id].status = review[a].action]
      <4>1. submission[review[a].id] # NoRow /\ \A s \in Submissions \ {review[a].id} : submission'[s] = submission[s]
        BY <1>2, <3>2 DEF PendingRow, NoRow
      <4> QED
        BY <1>1, <1>2, <2>4, <4>1 DEF UpdateStatus
    <3> QED
      BY <2>4, <3>1, <3>2 DEF UpdateStatus
  <2>5. ASSUME NEW g \in KycGateways, KycRestart(g) PROVE Filing'
    <3>1. PICK there \in SUBSET {s \in Submissions : submitting[s].step = "written"} :
            submitting' = [s \in Submissions |-> IF s \in there THEN [submitting[s] EXCEPT !.step = "over"] ELSE submitting[s]]
      BY <2>5 DEF KycRestart
    <3>2. \A s \in there : submitting'[s].step = "over" /\ submission[s] = NoRow
      <4> TAKE s \in there
      <4>1. submitting'[s] = [submitting[s] EXCEPT !.step = "over"] /\ submitting[s] # Idle0 /\ submitting[s].step = "written"
        BY <3>1 DEF Idle0
      <4>2. submitting[s] \in [step : {"written", "over"}, user : Applicants]
        BY <1>2, <3>1, <4>1
      <4>3. submitting'[s].step = "over"
        BY <4>1, <4>2
      <4> QED
        BY <1>2, <3>1, <4>1, <4>3
    <3>3. UNCHANGED <<submission, documents, lostInsert>>
      BY <2>5 DEF KycRestart, kycTables
    <3> QED
      BY <1>1, <1>2, <3>1, <3>2, <3>3
  <2> QED
    BY <2>1, <2>2, <2>3, <2>4, <2>5
    DEF KycNext, kycVars, kycTables, GetByID, RaiseLevel, InvalidateKycLevelCache, ReadCache, WriteCache, KycTick
<1>4. Reviewing'
  <2> SUFFICES ASSUME NEW b \in KycAdmins
      PROVE  /\ review'[b] # Idle0 => submission'[review'[b].id] # NoRow
             /\ review'[b].step \in {"raise", "invalidate"} => submission'[review'[b].id].status = "approved"
    OBVIOUS
  <2>1. CASE review'[b] = review[b]
    <3>1. review'[b] = Idle0 \/ review'[b].id \in Submissions
      BY <1>2, <2>1
    <3> QED
      BY <1>1, <1>2, <2>1, <3>1 DEF Idle0
  <2>2. CASE review'[b] = Idle0
    BY <2>2 DEF Idle0
  <2>3. CASE GetByID(b)
    BY <1>1, <1>2, <2>3 DEF GetByID, kycTables
  <2>4. CASE UpdateStatus(b) /\ review'[b] # Idle0
    <3>1. review[b] \in Reviews /\ review[b] # Idle0
      BY <1>2, <2>4 DEF UpdateStatus, Idle0
    <3>2. /\ PendingRow(review[b].id) /\ review[b].action = "approved"
          /\ submission' = [submission EXCEPT ![review[b].id].status = review[b].action]
          /\ review' = [review EXCEPT ![b].step = "raise"]
      BY <1>2, <2>4 DEF UpdateStatus, EndReview
    <3>3. submission[review[b].id] \in [status : {"pending", "approved", "rejected"}, user : Applicants]
      BY <1>2, <3>1, <3>2 DEF PendingRow, NoRow
    <3>4. submission'[review[b].id] = [submission[review[b].id] EXCEPT !.status = "approved"]
      BY <1>2, <3>1, <3>2
    <3>5. submission'[review[b].id].status = "approved"
      BY <3>3, <3>4
    <3>6. review'[b] = [review[b] EXCEPT !.step = "raise"]
      BY <1>2, <3>2
    <3>7. review'[b].id = review[b].id
      BY <3>1, <3>6
    <3> QED
      BY <3>5, <3>7 DEF NoRow
  <2>5. CASE RaiseLevel(b) /\ review'[b] # Idle0
    <3>1. review[b] \in Reviews /\ review[b] # Idle0 /\ submission[review[b].id].status = "approved"
      BY <1>2, <2>5 DEF RaiseLevel, Idle0
    <3>2. review' = [review EXCEPT ![b].step = "invalidate"] /\ UNCHANGED submission
      BY <1>2, <2>5 DEF RaiseLevel, EndReview
    <3>3. review'[b] = [review[b] EXCEPT !.step = "invalidate"]
      BY <1>2, <3>2
    <3>4. review'[b].id = review[b].id
      BY <3>1, <3>3
    <3> QED
      BY <3>1, <3>2, <3>4 DEF NoRow
  <2>6. \/ review'[b] = review[b] \/ review'[b] = Idle0 \/ GetByID(b)
        \/ (UpdateStatus(b) /\ review'[b] # Idle0) \/ (RaiseLevel(b) /\ review'[b] # Idle0)
    <3>1. ASSUME NEW a \in KycAdmins, a # b, GetByID(a) \/ UpdateStatus(a) \/ RaiseLevel(a) \/ InvalidateKycLevelCache(a)
          PROVE  review'[b] = review[b]
      <4>1. PICK x : review' = [review EXCEPT ![a] = x]
        BY <3>1 DEF GetByID, UpdateStatus, RaiseLevel, InvalidateKycLevelCache, EndReview
      <4> QED
        BY <1>2, <3>1, <4>1
    <3>2. CASE InvalidateKycLevelCache(b)
      BY <1>2, <3>2 DEF InvalidateKycLevelCache, EndReview
    <3>3. ASSUME NEW g \in KycGateways, KycRestart(g) PROVE review'[b] \in {review[b], Idle0}
      BY <3>3 DEF KycRestart
    <3> QED
      BY <3>1, <3>2, <3>3 DEF KycNext, kycVars, kycTables, WriteDocuments, InsertSubmission, ReadCache, WriteCache, KycTick
  <2> QED
    BY <2>1, <2>2, <2>3, <2>4, <2>5, <2>6
<1> QED
  BY <1>3, <1>4 DEF KycStages

\* A level goes from an approved submission to the table, from there to a
\* withdrawal, and from it to a cache.
LEMMA EarnedNext == KycInv /\ [KycNext]_kycVars => Earned'
<1> SUFFICES ASSUME KycInv, [KycNext]_kycVars, NEW u \in Applicants
    PROVE  /\ kycLevel'[u] > 0 => ApprovedUser(u)'
           /\ \A g \in KycGateways' : kycCache'[g][u].level > 0 => ApprovedUser(u)'
           /\ \A w \in Payers : payer'[w] # Idle0 /\ payer'[w].user = u /\ payer'[w].level > 0 => ApprovedUser(u)'
  BY DEF Earned
<1>1. /\ KycGateways' = KycGateways
      /\ ApprovedUser(u) => ApprovedUser(u)'
  BY ApprovalStays
<1> DEFINE P == {Idle0} \cup [step : {"limit"}, user : Applicants, level : {0, 1}]
       \cup [step : {"write"}, gateway : KycGateways, user : Applicants, level : {0, 1}]
<1>2. /\ kycLevel \in [Applicants -> {0, 1}]
      /\ kycCache \in [KycGateways -> [Applicants -> [level : {0, 1}, expires : Nat]]]
      /\ payer \in [Payers -> P]
      /\ kycLevel[u] > 0 => ApprovedUser(u)
      /\ \A g \in KycGateways : kycCache[g][u].level > 0 => ApprovedUser(u)
      /\ \A w \in Payers : payer[w] # Idle0 /\ payer[w].user = u /\ payer[w].level > 0 => ApprovedUser(u)
  BY DEF KycInv, KycType, Earned
<1>3. kycLevel'[u] > 0 => ApprovedUser(u)'
  <2>1. CASE UNCHANGED kycLevel
    BY <1>1, <1>2, <2>1
  <2>2. ASSUME NEW a \in KycAdmins, RaiseLevel(a), kycLevel' = [kycLevel EXCEPT ![submission[review[a].id].user] = 1]
        PROVE  kycLevel'[u] > 0 => ApprovedUser(u)'
    <3>1. /\ review[a].id \in Submissions /\ submission[review[a].id].status = "approved"
          /\ submission[review[a].id] \in {NoRow} \cup [status : {"pending", "approved", "rejected"}, user : Applicants]
      BY <2>2 DEF RaiseLevel, KycInv, KycType, KycStages, Idle0
    <3>2. submission[review[a].id] \in [status : {"pending", "approved", "rejected"}, user : Applicants]
      BY <3>1 DEF NoRow
    <3>3. submission[review[a].id] = [status |-> "approved", user |-> submission[review[a].id].user]
      BY <3>1, <3>2
    <3>4. CASE submission[review[a].id].user = u
      BY <1>1, <3>1, <3>3, <3>4 DEF ApprovedUser
    <3>5. CASE submission[review[a].id].user # u
      BY <1>1, <1>2, <2>2, <3>5
    <3> QED
      BY <3>4, <3>5
  <2> QED
    BY <2>1, <2>2 DEF KycNext, kycVars, kycTables, WriteDocuments, InsertSubmission, GetByID, UpdateStatus,
         RaiseLevel, InvalidateKycLevelCache, ReadCache, WriteCache, KycRestart, KycTick
<1>4. ASSUME NEW g \in KycGateways PROVE kycCache'[g][u].level > 0 => ApprovedUser(u)'
  <2>1. CASE kycCache'[g][u] = kycCache[g][u]
    BY <1>1, <1>2, <2>1
  <2>2. CASE kycCache'[g][u] = NoEntry
    BY <2>2 DEF NoEntry
  <2>3. ASSUME NEW w \in Payers, WriteCache(w), payer[w].user = u, kycCache'[g][u].level = payer[w].level
        PROVE  kycCache'[g][u].level > 0 => ApprovedUser(u)'
    BY <1>1, <1>2, <2>3 DEF WriteCache, Idle0
  <2>4. ASSUME NEW a \in KycAdmins, InvalidateKycLevelCache(a)
        PROVE  kycCache'[g][u] = kycCache[g][u] \/ kycCache'[g][u] = NoEntry
    <3>1. kycCache' = [kycCache EXCEPT ![review[a].gateway] = [@ EXCEPT ![submission[review[a].id].user] = NoEntry]]
      BY <2>4 DEF InvalidateKycLevelCache
    <3> QED
      BY <1>2, <3>1
  <2>5. ASSUME NEW w \in Payers, WriteCache(w)
        PROVE  kycCache'[g][u] = kycCache[g][u] \/ (payer[w].user = u /\ kycCache'[g][u].level = payer[w].level)
    <3>1. kycCache' = [kycCache EXCEPT ![payer[w].gateway] = [@ EXCEPT ![payer[w].user] = [level |-> payer[w].level, expires |-> kycTime + CacheTTL]]]
      BY <2>5 DEF WriteCache
    <3> QED
      BY <1>2, <3>1
  <2>6. ASSUME NEW h \in KycGateways, KycRestart(h)
        PROVE  kycCache'[g][u] = kycCache[g][u] \/ kycCache'[g][u] = NoEntry
    BY <1>2, <2>6 DEF KycRestart
  <2> QED
    BY <2>1, <2>2, <2>3, <2>4, <2>5, <2>6 DEF KycNext, kycVars, kycTables, WriteDocuments, InsertSubmission, GetByID,
         UpdateStatus, RaiseLevel, ReadCache, KycTick
<1>5. ASSUME NEW w \in Payers, payer'[w] # Idle0, payer'[w].user = u, payer'[w].level > 0 PROVE ApprovedUser(u)'
  <2>1. CASE payer'[w] = payer[w]
    BY <1>1, <1>2, <1>5, <2>1
  <2>2. CASE WriteCache(w)
    <3>1. payer'[w] = [step |-> "limit", user |-> payer[w].user, level |-> payer[w].level] /\ payer[w] # Idle0
      BY <1>2, <2>2 DEF WriteCache, Idle0
    <3> QED
      BY <1>1, <1>2, <1>5, <3>1
  <2>3. CASE ReadCache(w)
    <3>1. PICK g \in KycGateways, v \in Applicants, x \in P :
            /\ payer' = [payer EXCEPT ![w] = x]
            /\ x.user = v /\ (x.level = kycCache[g][v].level \/ x.level \in {0, kycLevel[v]})
      BY <1>2, <2>3 DEF ReadCache
    <3>2. payer'[w] = x
      BY <1>2, <3>1
    <3> QED
      BY <1>1, <1>2, <1>5, <3>1, <3>2
  <2>4. ASSUME NEW v \in Payers, v # w, ReadCache(v) \/ WriteCache(v) PROVE payer'[w] = payer[w]
    <3>1. PICK x : payer' = [payer EXCEPT ![v] = x]
      BY <2>4 DEF ReadCache, WriteCache
    <3> QED
      BY <1>2, <2>4, <3>1
  <2>5. ASSUME NEW g \in KycGateways, KycRestart(g) PROVE payer'[w] \in {payer[w], Idle0}
    BY <2>5 DEF KycRestart
  <2> QED
    BY <1>5, <2>1, <2>2, <2>3, <2>4, <2>5 DEF KycNext, kycVars, kycTables, WriteDocuments, InsertSubmission, GetByID,
         UpdateStatus, RaiseLevel, InvalidateKycLevelCache, KycTick
<1> QED
  BY <1>1, <1>3, <1>4, <1>5

\* For any users, submissions, reviewers and gateways: no level above 0 - stored,
\* cached, or in the hands of a withdrawal - without an approval that stands, and
\* no row that reviewers see without its documents, but for a lost answer of the
\* insert (ReviewKyc, pg_kyc.go, kycLevelCached).
THEOREM KycLevelEarned == KycSpec => []LevelEarned
<1>1. KycInv => LevelEarned
  BY DEF KycInv, KycStages, Earned, ApprovedUser, LevelEarned
<1> QED
  BY <1>1, KycStart, KycTypeNext, KycStagesNext, EarnedNext, PTL DEF KycSpec, KycInv

-----------------------------------------------------------------------------
(***************************************************************************)
(* Deposit claims.  What a verifying request has learnt of the chain stays *)
(* true while the chain grows, and the step it is at says what it has      *)
(* learnt; of the transactions at one claim at most one is past its        *)
(* update, and the claim is pending until that one commits.                *)
(***************************************************************************)
ClaimRows == [status : {"absent", "pending", "approved", "rejected"}, auto : BOOLEAN, note : {"none", "manual", "auto"}]
RequestSteps == {"new", "lookup", "receipt", "head", "match", "approve", "approving", "note", "done"}
OpenTx == [step : {"update", "commit"}, claim : Ids, action : {"approved", "rejected"}]

ClaimType ==
  /\ filed \in ClaimSets
  /\ claims \in [Ids -> ClaimRows]
  /\ request \in [Ids -> [step : RequestSteps, retried : BOOLEAN]]
  /\ tx \in [Reviewers -> {NoTx} \cup OpenTx]
  /\ credited \in [ClaimUsers -> Nat] /\ ledger \in Seq(Ids)
  /\ head \in Nat

Seen(c)  == Mined(TxOf[filed[c].txid], filed[c].network) /\ Transfers[TxOf[filed[c].txid]].ok
Deep(c)  == head - Transfers[TxOf[filed[c].txid]].block + 1 >= MinConf
Right(c) == VerifyNative(filed[c], TxOf[filed[c].txid]) \/ VerifyERC20(filed[c], TxOf[filed[c].txid])

Learnt ==
  \A c \in Ids :
    /\ request[c].step \in {"head", "match", "approve", "approving"} => Seen(c)
    /\ request[c].step \in {"match", "approve", "approving"} => Deep(c)
    /\ request[c].step \in {"approve", "approving"} => Right(c)
    /\ claims[c].status = "approved" /\ claims[c].auto => Seen(c) /\ Deep(c) /\ Right(c)

Exclusive ==
  /\ \A c \in Ids : /\ request[c].step = "new" => claims[c].status = "absent"
                    /\ tx[c] # NoTx => request[c].step = "approving" /\ tx[c].claim = c
  /\ \A c, d \in Ids : claims[c].status # "absent" /\ claims[d].status # "absent" /\ filed[c].txid = filed[d].txid => c = d
  /\ \A p \in Reviewers : /\ tx[p] # NoTx => claims[tx[p].claim].status # "absent"
                          /\ tx[p].step = "commit" => claims[tx[p].claim].status = "pending"
  /\ \A p, q \in Reviewers : tx[p].step = "commit" /\ tx[q].step = "commit" /\ tx[p].claim = tx[q].claim => p = q

ApprovedOf(u) == {c \in Approved : filed[c].user = u}

Credited ==
  /\ \A u \in ClaimUsers : credited[u] = SumOver(Amounts, ApprovedOf(u))
  /\ Len(ledger) = Cardinality(Approved) /\ {ledger[i] : i \in 1..Len(ledger)} = Approved

ClaimInv == ClaimType /\ Learnt /\ Exclusive /\ Credited

\* What an instance of the claims is.
LEMMA ClaimFacts ==
  ASSUME filed \in ClaimSets
  PROVE  /\ IsFiniteSet(Ids) /\ Ids \cap Admins = {}
         /\ \A c \in Ids : filed[c].user \in ClaimUsers /\ filed[c].amount \in Nat \ {0}
         /\ \A S \in SUBSET Ids : IsFiniteSet(S)
  BY ClaimAssumption, FS_Subset DEF Ids

\* ClaimInit: no claim is filed, nothing is credited.
LEMMA ClaimStart == ClaimInit => ClaimInv
<1> SUFFICES ASSUME ClaimInit PROVE ClaimInv
  OBVIOUS
<1>1. /\ claims = [c \in Ids |-> Absent] /\ filed \in ClaimSets
      /\ request = [c \in Ids |-> [step |-> "new", retried |-> FALSE]]
      /\ tx = [p \in Reviewers |-> NoTx] /\ head = 0 /\ ledger = <<>> /\ credited = [u \in ClaimUsers |-> 0]
  BY DEF ClaimInit
<1>2. ClaimType
  BY <1>1 DEF ClaimType, Absent, ClaimRows, RequestSteps
<1>3. Learnt
  BY <1>1 DEF Learnt, Absent
<1>4. Exclusive
  BY <1>1 DEF Exclusive, Absent, Reviewers, NoTx
<1>5. Approved = {}
  BY <1>1 DEF Approved, Absent
<1>6. Credited
  <2>1. \A u : ApprovedOf(u) = {}
    BY <1>5 DEF ApprovedOf
  <2>2. SumOver(Amounts, {}) = 0
    BY SumEmpty
  <2>3. Cardinality({}) = 0
    BY FS_EmptySet
  <2>4. Len(ledger) = 0 /\ {ledger[i] : i \in 1..Len(ledger)} = {}
    BY <1>1
  <2> QED
    BY <1>1, <1>5, <2>1, <2>2, <2>3, <2>4 DEF Credited
<1> QED
  BY <1>2, <1>3, <1>4, <1>6 DEF ClaimInv

\* The claims filed do not change; the chain only grows, so that what was seen
\* on it, and how deep, stays true.
LEMMA ClaimFrame ==
  ASSUME ClaimType, [ClaimNext]_claimVars
  PROVE  /\ filed' = filed /\ Ids' = Ids /\ Reviewers' = Reviewers /\ head' \in Nat /\ head <= head'
         /\ \A c : (Seen(c) => Seen(c)') /\ (Seen(c) /\ Deep(c) => Deep(c)') /\ (Right(c) => Right(c)')
<1>1. filed' = filed /\ head' \in Nat /\ head <= head'
  <2>1. \/ UNCHANGED <<filed, head>>
        \/ NewBlock
    BY DEF ClaimNext, claimVars, RequestStep, Submit, LookupAddress, GetReceipt, BlockNumber, MatchTransfer,
           RecordVerifyNote, AutoApproveClaim, AdminReview, TxStep, Update, Commit, Rollback, GatewayDies
  <2> QED
    BY <2>1 DEF ClaimType, NewBlock
<1>2. Ids' = Ids /\ Reviewers' = Reviewers
  BY <1>1 DEF Ids, Reviewers
<1>3. ASSUME NEW c, Seen(c) PROVE Seen(c)' /\ (Deep(c) => Deep(c)')
  <2>1. /\ TxOf[filed[c].txid] \in DOMAIN Transfers /\ Transfers[TxOf[filed[c].txid]].block \in Nat
        /\ Transfers[TxOf[filed[c].txid]].block <= head /\ head \in Nat /\ MinConf \in Nat
    BY <1>3, ClaimAssumption DEF Seen, Mined, ClaimType
  <2> QED
    BY <1>1, <1>3, <2>1 DEF Seen, Mined, Deep
<1>4. \A c : Right(c) => Right(c)'
  BY <1>1 DEF Right, VerifyNative, VerifyERC20, Matches
<1> QED
  BY <1>1, <1>2, <1>3, <1>4

\* A transaction that ends tells its request, when it has one.
LEMMA EndedType ==
  ASSUME ClaimType, Exclusive, NEW p \in Reviewers, tx[p] # NoTx, NEW b \in BOOLEAN, Ended(p, b)
  PROVE  /\ tx' \in [Reviewers -> {NoTx} \cup OpenTx] /\ tx'[p] = NoTx
         /\ \A q \in Reviewers \ {p} : tx'[q] = tx[q]
         /\ request' \in [Ids -> [step : RequestSteps, retried : BOOLEAN]]
         /\ \A c \in Ids \ {p} : request'[c] = request[c]
         /\ p \in Ids => request'[p].step = (IF b THEN "done" ELSE "note")
<1>1. /\ tx \in [Reviewers -> {NoTx} \cup OpenTx] /\ request \in [Ids -> [step : RequestSteps, retried : BOOLEAN]]
      /\ tx' = [tx EXCEPT ![p] = NoTx]
      /\ request' = IF p \in Ids THEN [request EXCEPT ![p].step = IF b THEN "done" ELSE "note"] ELSE request
  BY DEF Ended, Go, ClaimType
<1>2. p \in Ids => [request[p] EXCEPT !.step = IF b THEN "done" ELSE "note"] \in [step : RequestSteps, retried : BOOLEAN]
  BY <1>1 DEF RequestSteps
<1>3. p \in Ids => [request[p] EXCEPT !.step = IF b THEN "done" ELSE "note"].step = (IF b THEN "done" ELSE "note")
  BY <1>1
<1> QED
  BY <1>1, <1>2, <1>3

\* What is credited depends on which claims are approved only.
LEMMA CreditedSteady ==
  ASSUME Credited, filed' = filed, Ids' = Ids, Approved' = Approved, UNCHANGED <<credited, ledger>>
  PROVE  Credited'
<1>1. Amounts' = Amounts
  BY DEF Amounts
<1>2. \A u : ApprovedOf(u)' = ApprovedOf(u)
  BY DEF ApprovedOf
<1>3. \A u \in ClaimUsers : SumOver(Amounts', ApprovedOf(u)') = SumOver(Amounts, ApprovedOf(u))
  BY <1>1, <1>2
<1> QED
  BY <1>1, <1>2, <1>3 DEF Credited

\* A request moves on, and learns what its next step stands for.
LEMMA RequestMoves ==
  ASSUME ClaimInv, [ClaimNext]_claimVars, NEW c \in Ids, request[c].step \notin {"new", "approving"},
         UNCHANGED <<tx, credited, ledger>>, claims' \in [Ids -> ClaimRows],
         \A d \in Ids : claims'[d].status = claims[d].status /\ claims'[d].auto = claims[d].auto,
         request' \in [Ids -> [step : RequestSteps, retried : BOOLEAN]],
         \A d \in Ids \ {c} : request'[d] = request[d],
         request'[c].step \in {"receipt", "head", "match", "approve", "note", "done"},
         request'[c].step = "head" => Seen(c),
         request'[c].step = "match" => Seen(c) /\ Deep(c),
         request'[c].step = "approve" => Seen(c) /\ Deep(c) /\ Right(c)
  PROVE  ClaimInv'
<1>1. /\ filed' = filed /\ Ids' = Ids /\ Reviewers' = Reviewers /\ head' \in Nat
      /\ \A d : (Seen(d) => Seen(d)') /\ (Seen(d) /\ Deep(d) => Deep(d)') /\ (Right(d) => Right(d)')
  BY ClaimFrame DEF ClaimInv
<1>2. ClaimType'
  BY <1>1 DEF ClaimInv, ClaimType, OpenTx
<1>3. Learnt'
  <2> SUFFICES ASSUME NEW d \in Ids
      PROVE  /\ request'[d].step \in {"head", "match", "approve", "approving"} => Seen(d)'
             /\ request'[d].step \in {"match", "approve", "approving"} => Deep(d)'
             /\ request'[d].step \in {"approve", "approving"} => Right(d)'
             /\ claims'[d].status = "approved" /\ claims'[d].auto => Seen(d)' /\ Deep(d)' /\ Right(d)'
    BY <1>1 DEF Learnt
  <2>1. claims'[d].status = "approved" /\ claims'[d].auto => Seen(d)' /\ Deep(d)' /\ Right(d)'
    BY <1>1 DEF ClaimInv, Learnt
  <2>2. CASE d = c
    BY <1>1, <2>1, <2>2
  <2>3. CASE d # c
    BY <1>1, <2>1, <2>3 DEF ClaimInv, Learnt
  <2> QED
    BY <2>2, <2>3
<1>4. Exclusive'
  <2>1. tx[c] = NoTx
    BY DEF ClaimInv, Exclusive
  <2>2. \A d \in Ids : /\ request'[d].step = "new" => claims'[d].status = "absent"
                       /\ tx'[d] # NoTx => request'[d].step = "approving" /\ tx'[d].claim = d
    BY <2>1 DEF ClaimInv, Exclusive
  <2>3. \A p \in Reviewers : tx[p] # NoTx => tx[p].claim \in Ids
    BY DEF ClaimInv, ClaimType, OpenTx
  <2>4. \A p \in Reviewers : tx[p].step = "commit" => tx[p] # NoTx
    BY DEF NoTx
  <2>5. \A p \in Reviewers : /\ tx'[p] # NoTx => claims'[tx'[p].claim].status # "absent"
                             /\ tx'[p].step = "commit" => claims'[tx'[p].claim].status = "pending"
    BY <2>3, <2>4 DEF ClaimInv, Exclusive
  <2> QED
    BY <1>1, <2>2, <2>5 DEF ClaimInv, Exclusive
<1>5. Credited'
  <2>1. Approved' = Approved
    BY <1>1 DEF Approved
  <2> QED
    BY <1>1, <2>1, CreditedSteady DEF ClaimInv
<1> QED
  BY <1>2, <1>3, <1>4, <1>5 DEF ClaimInv

\* The steps of a verifying request up to the decision.
LEMMA RequestSteps1 ==
  ASSUME ClaimInv, [ClaimNext]_claimVars, NEW c \in Ids,
         LookupAddress(c) \/ GetReceipt(c) \/ BlockNumber(c) \/ MatchTransfer(c) \/ RecordVerifyNote(c)
  PROVE  ClaimInv'
<1> DEFINE R == [step : RequestSteps, retried : BOOLEAN]
<1>1. request \in [Ids -> R] /\ claims \in [Ids -> ClaimRows] /\ head \in Nat
  BY DEF ClaimInv, ClaimType
<1>2. ASSUME NEW x \in RequestSteps, Go(c, x)
      PROVE  /\ request' \in [Ids -> R] /\ request'[c].step = x /\ \A d \in Ids \ {c} : request'[d] = request[d]
  <2>1. request' = [request EXCEPT ![c] = [request[c] EXCEPT !.step = x]]
    BY <1>1, <1>2 DEF Go
  <2>2. [request[c] EXCEPT !.step = x] \in R /\ [request[c] EXCEPT !.step = x].step = x
    BY <1>1
  <2> QED
    BY <1>1, <2>1, <2>2
<1>3. ASSUME Retry(c)
      PROVE  /\ request' \in [Ids -> R] /\ request'[c].step \in {"note", "receipt"}
             /\ \A d \in Ids \ {c} : request'[d] = request[d]
  <2>1. request' = [request EXCEPT ![c] = IF request[c].retried THEN [request[c] EXCEPT !.step = "note"]
                                          ELSE [request[c] EXCEPT !.step = "receipt", !.retried = TRUE]]
    BY <1>1, <1>3 DEF Retry
  <2>2. /\ [request[c] EXCEPT !.step = "note"] \in R /\ [request[c] EXCEPT !.step = "note"].step = "note"
        /\ [request[c] EXCEPT !.step = "receipt", !.retried = TRUE] \in R
        /\ [request[c] EXCEPT !.step = "receipt", !.retried = TRUE].step = "receipt"
    BY <1>1 DEF RequestSteps
  <2> QED
    BY <1>1, <2>1, <2>2
<1>4. ASSUME UNCHANGED claims
      PROVE  /\ claims' \in [Ids -> ClaimRows]
             /\ \A d \in Ids : claims'[d].status = claims[d].status /\ claims'[d].auto = claims[d].auto
  BY <1>1, <1>4
<1>5. CASE LookupAddress(c)
  <2>1. PICK x \in {"note", "receipt"} : Go(c, x)
    BY <1>5 DEF LookupAddress
  <2>2. /\ request' \in [Ids -> R] /\ request'[c].step = x /\ \A d \in Ids \ {c} : request'[d] = request[d]
    BY <1>2, <2>1 DEF RequestSteps
  <2> QED
    BY <1>4, <1>5, <2>2, RequestMoves DEF LookupAddress
<1>6. CASE GetReceipt(c)
  <2>1. /\ request' \in [Ids -> R] /\ request'[c].step \in {"note", "receipt", "head"}
        /\ \A d \in Ids \ {c} : request'[d] = request[d]
        /\ request'[c].step = "head" => Seen(c)
    <3>1. CASE Retry(c)
      BY <1>3, <3>1
    <3>2. CASE Go(c, IF Seen(c) THEN "head" ELSE "note")
      BY <1>2, <3>2 DEF RequestSteps
    <3> QED
      BY <1>6, <3>1, <3>2 DEF GetReceipt, Seen
  <2> QED
    BY <1>4, <1>6, <2>1, RequestMoves DEF GetReceipt
<1>7. CASE BlockNumber(c)
  <2>1. Seen(c)
    BY <1>7 DEF BlockNumber, ClaimInv, Learnt
  <2>2. Transfers[TxOf[filed[c].txid]].block \in Nat /\ MinConf \in Nat \ {0}
    BY <2>1, ClaimAssumption DEF Seen, Mined
  <2>3. PICK conf \in {head - Transfers[TxOf[filed[c].txid]].block + 1, -1} : Go(c, IF TooShallow(conf) THEN "note" ELSE "match")
    BY <1>7 DEF BlockNumber, Go
  <2>4. ~TooShallow(conf) => Deep(c)
    BY <1>1, <2>2, <2>3 DEF TooShallow, Deep
  <2>5. /\ request' \in [Ids -> R] /\ request'[c].step = (IF TooShallow(conf) THEN "note" ELSE "match")
        /\ \A d \in Ids \ {c} : request'[d] = request[d]
    BY <1>2, <2>3 DEF RequestSteps
  <2> QED
    BY <1>4, <1>7, <2>1, <2>4, <2>5, RequestMoves DEF BlockNumber
<1>8. CASE MatchTransfer(c)
  <2>1. Seen(c) /\ Deep(c)
    BY <1>8 DEF MatchTransfer, ClaimInv, Learnt
  <2>2. /\ request' \in [Ids -> R] /\ request'[c].step \in {"note", "receipt", "approve"}
        /\ \A d \in Ids \ {c} : request'[d] = request[d]
        /\ request'[c].step = "approve" => Right(c)
    <3>1. CASE Retry(c)
      BY <1>3, <3>1
    <3>2. CASE Go(c, IF Right(c) THEN "approve" ELSE "note")
      BY <1>2, <3>2 DEF RequestSteps
    <3> QED
      BY <1>8, <3>1, <3>2 DEF MatchTransfer, Right
  <2> QED
    BY <1>4, <1>8, <2>1, <2>2, RequestMoves DEF MatchTransfer
<1>9. CASE RecordVerifyNote(c)
  <2>1. /\ request' \in [Ids -> R] /\ request'[c].step = "done" /\ \A d \in Ids \ {c} : request'[d] = request[d]
    BY <1>2, <1>9 DEF RecordVerifyNote, RequestSteps
  <2>2. /\ claims' \in [Ids -> ClaimRows]
        /\ \A d \in Ids : claims'[d].status = claims[d].status /\ claims'[d].auto = claims[d].auto
    <3>1. CASE UNCHANGED claims
      BY <1>4, <3>1
    <3>2. CASE claims' = [claims EXCEPT ![c].note = "manual"]
      <4>1. /\ [claims[c] EXCEPT !.note = "manual"] \in ClaimRows
            /\ [claims[c] EXCEPT !.note = "manual"].status = claims[c].status
            /\ [claims[c] EXCEPT !.note = "manual"].auto = claims[c].auto
        BY <1>1 DEF ClaimRows
      <4> QED
        BY <1>1, <3>2, <4>1
    <3> QED
      BY <1>9, <3>1, <3>2 DEF RecordVerifyNote
  <2> QED
    BY <1>9, <2>1, <2>2, RequestMoves DEF RecordVerifyNote
<1> QED
  BY <1>5, <1>6, <1>7, <1>8, <1>9

\* A transaction that ends without effect: the update found the claim reviewed,
\* or a statement failed and everything is rolled back.
LEMMA TxEndsUnapplied ==
  ASSUME ClaimInv, [ClaimNext]_claimVars, NEW p \in Reviewers, tx[p] # NoTx, Ended(p, FALSE),
         UNCHANGED <<claims, credited, ledger>>
  PROVE  ClaimInv'
<1>1. /\ filed' = filed /\ Ids' = Ids /\ Reviewers' = Reviewers /\ head' \in Nat
      /\ \A d : (Seen(d) => Seen(d)') /\ (Seen(d) /\ Deep(d) => Deep(d)') /\ (Right(d) => Right(d)')
  BY ClaimFrame DEF ClaimInv
<1>2. /\ tx' \in [Reviewers -> {NoTx} \cup OpenTx] /\ tx'[p] = NoTx
      /\ \A q \in Reviewers \ {p} : tx'[q] = tx[q]
      /\ request' \in [Ids -> [step : RequestSteps, retried : BOOLEAN]]
      /\ \A c \in Ids \ {p} : request'[c] = request[c]
      /\ p \in Ids => request'[p].step = "note"
  BY EndedType DEF ClaimInv
<1>3. ClaimType'
  BY <1>1, <1>2 DEF ClaimInv, ClaimType, OpenTx
<1>4. Learnt'
  <2> SUFFICES ASSUME NEW d \in Ids
      PROVE  /\ request'[d].step \in {"head", "match", "approve", "approving"} => Seen(d)'
             /\ request'[d].step \in {"match", "approve", "approving"} => Deep(d)'
             /\ request'[d].step \in {"approve", "approving"} => Right(d)'
             /\ claims'[d].status = "approved" /\ claims'[d].auto => Seen(d)' /\ Deep(d)' /\ Right(d)'
    BY <1>1 DEF Learnt
  <2>1. claims'[d].status = "approved" /\ claims'[d].auto => Seen(d)' /\ Deep(d)' /\ Right(d)'
    BY <1>1 DEF ClaimInv, Learnt
  <2>2. CASE d = p
    BY <1>2, <2>1, <2>2
  <2>3. CASE d # p
    BY <1>1, <1>2, <2>1, <2>3 DEF ClaimInv, Learnt
  <2> QED
    BY <2>2, <2>3
<1>5. Exclusive'
  <2>1. NoTx.step # "commit" /\ Ids \subseteq Reviewers
    BY DEF NoTx, Reviewers
  <2>2. \A d \in Ids : /\ request'[d].step = "new" => claims'[d].status = "absent"
                       /\ tx'[d] # NoTx => request'[d].step = "approving" /\ tx'[d].claim = d
    BY <1>2, <2>1 DEF ClaimInv, Exclusive
  <2>3. \A q \in Reviewers : /\ tx'[q] # NoTx => claims'[tx'[q].claim].status # "absent"
                             /\ tx'[q].step = "commit" => claims'[tx'[q].claim].status = "pending"
    BY <1>2, <2>1 DEF ClaimInv, Exclusive
  <2>4. \A q, r \in Reviewers : tx'[q].step = "commit" /\ tx'[r].step = "commit" /\ tx'[q].claim = tx'[r].claim => q = r
    BY <1>2, <2>1 DEF ClaimInv, Exclusive
  <2> QED
    BY <1>1, <2>2, <2>3, <2>4 DEF ClaimInv, Exclusive
<1>6. Credited'
  <2>1. Approved' = Approved
    BY <1>1 DEF Approved
  <2> QED
    BY <1>1, <2>1, CreditedSteady DEF ClaimInv
<1> QED
  BY <1>3, <1>4, <1>5, <1>6 DEF ClaimInv

\* The commit of a review: the claim was pending and is so no longer, and the
\* credit and the ledger entry are those of an approval.
LEMMA CommitKeeps ==
  ASSUME ClaimInv, [ClaimNext]_claimVars, NEW p \in Reviewers, Commit(p)
  PROVE  ClaimInv'
<1>1. /\ filed' = filed /\ Ids' = Ids /\ Reviewers' = Reviewers /\ head' \in Nat
      /\ \A d : (Seen(d) => Seen(d)') /\ (Seen(d) /\ Deep(d) => Deep(d)') /\ (Right(d) => Right(d)')
  BY ClaimFrame DEF ClaimInv
<1>2. /\ tx \in [Reviewers -> {NoTx} \cup OpenTx] /\ claims \in [Ids -> ClaimRows] /\ filed \in ClaimSets
      /\ credited \in [ClaimUsers -> Nat] /\ ledger \in Seq(Ids)
  BY DEF ClaimInv, ClaimType
<1>3. tx[p] \in OpenTx /\ tx[p] # NoTx /\ tx[p].step = "commit"
  BY <1>2 DEF Commit, NoTx
<1>4. PICK c \in Ids : c = tx[p].claim
  BY <1>3 DEF OpenTx
<1>5. PICK act \in {"approved", "rejected"} : act = tx[p].action
  BY <1>3 DEF OpenTx
<1>6. claims[c].status = "pending" /\ (p \in Ids => p = c)
  BY <1>3, <1>4 DEF ClaimInv, Exclusive
<1>7. PICK b \in BOOLEAN : Ended(p, b)
  BY DEF Commit
<1>8. /\ tx' \in [Reviewers -> {NoTx} \cup OpenTx] /\ tx'[p] = NoTx
      /\ \A q \in Reviewers \ {p} : tx'[q] = tx[q]
      /\ request' \in [Ids -> [step : RequestSteps, retried : BOOLEAN]]
      /\ \A d \in Ids \ {p} : request'[d] = request[d]
      /\ p \in Ids => request'[p].step \in {"done", "note"}
  BY <1>3, <1>7, EndedType DEF ClaimInv
<1>9. PICK n \in {"none", "manual", "auto"} :
        claims' = [claims EXCEPT ![c] = [status |-> act, auto |-> p \in Ids, note |-> n]]
  <2>1. claims' = [claims EXCEPT ![c] = [status |-> act, auto |-> p \in Ids, note |-> IF p \in Ids THEN "auto" ELSE claims[c].note]]
    BY <1>2, <1>4, <1>5 DEF Commit, Committed
  <2>2. (IF p \in Ids THEN "auto" ELSE claims[c].note) \in {"none", "manual", "auto"}
    BY <1>2 DEF ClaimRows
  <2> QED
    BY <2>1, <2>2
<1>10. PICK au \in BOOLEAN : au = (p \in Ids)
  <2>1. (p \in Ids) \in BOOLEAN
    OBVIOUS
  <2> QED
    BY <2>1, Zenon
<1>11. /\ claims'[c].status = act /\ claims'[c].auto = au /\ claims' \in [Ids -> ClaimRows]
       /\ \A d \in Ids \ {c} : claims'[d] = claims[d]
  <2>1. [status |-> act, auto |-> au, note |-> n] \in ClaimRows
    BY DEF ClaimRows
  <2> QED
    BY <1>2, <1>9, <1>10, <2>1
<1>12. /\ credited' = IF act = "approved" THEN [credited EXCEPT ![filed[c].user] = @ + filed[c].amount] ELSE credited
       /\ ledger' = IF act = "approved" THEN Append(ledger, c) ELSE ledger
  BY <1>4, <1>5 DEF Commit, Committed
<1>13. filed[c].user \in ClaimUsers /\ filed[c].amount \in Nat
  BY <1>2, ClaimFacts
<1>14. ClaimType'
  <2>1. credited' \in [ClaimUsers -> Nat] /\ ledger' \in Seq(Ids)
    BY <1>2, <1>12, <1>13
  <2> QED
    BY <1>1, <1>2, <1>8, <1>11, <2>1 DEF ClaimType, OpenTx
<1>15. Learnt'
  <2> SUFFICES ASSUME NEW d \in Ids
      PROVE  /\ request'[d].step \in {"head", "match", "approve", "approving"} => Seen(d)'
             /\ request'[d].step \in {"match", "approve", "approving"} => Deep(d)'
             /\ request'[d].step \in {"approve", "approving"} => Right(d)'
             /\ claims'[d].status = "approved" /\ claims'[d].auto => Seen(d)' /\ Deep(d)' /\ Right(d)'
    BY <1>1 DEF Learnt
  <2>1. claims'[d].status = "approved" /\ claims'[d].auto => Seen(d)' /\ Deep(d)' /\ Right(d)'
    <3>1. CASE d # c
      BY <1>1, <1>11, <3>1 DEF ClaimInv, Learnt
    <3>2. CASE d = c /\ p \notin Ids
      BY <1>10, <1>11, <3>2
    <3>3. CASE d = c /\ p \in Ids
      <4>1. request[c].step = "approving"
        BY <1>3, <1>6, <3>3 DEF ClaimInv, Exclusive
      <4> QED
        BY <1>1, <3>3, <4>1 DEF ClaimInv, Learnt
    <3> QED
      BY <3>1, <3>2, <3>3
  <2>2. CASE d = p
    BY <1>8, <2>1, <2>2
  <2>3. CASE d # p
    BY <1>1, <1>8, <2>1, <2>3 DEF ClaimInv, Learnt
  <2> QED
    BY <2>2, <2>3
<1>16. Exclusive'
  <2>1. NoTx.step # "commit" /\ Ids \subseteq Reviewers /\ request[c].step # "new"
    BY <1>6 DEF NoTx, Reviewers, ClaimInv, Exclusive
  <2>2. \A d \in Ids : /\ request'[d].step = "new" => claims'[d].status = "absent"
                       /\ tx'[d] # NoTx => request'[d].step = "approving" /\ tx'[d].claim = d
    BY <1>6, <1>8, <1>11, <2>1 DEF ClaimInv, Exclusive
  <2>3. \A d \in Ids : claims'[d].status # "absent" <=> claims[d].status # "absent"
    BY <1>6, <1>11
  <2>4. ASSUME NEW q \in Reviewers
        PROVE  /\ tx'[q] # NoTx => claims'[tx'[q].claim].status # "absent"
               /\ tx'[q].step = "commit" => claims'[tx'[q].claim].status = "pending"
    <3>1. CASE q = p
      BY <1>8, <2>1, <3>1
    <3>2. CASE q # p /\ tx[q] # NoTx
      <4>1. tx'[q] = tx[q] /\ tx[q].claim \in Ids
        BY <1>2, <1>8, <3>2 DEF OpenTx
      <4>2. tx[q].step = "commit" => tx[q].claim # c
        BY <1>3, <1>4, <3>2 DEF ClaimInv, Exclusive
      <4> QED
        BY <1>11, <2>3, <3>2, <4>1, <4>2 DEF ClaimInv, Exclusive
    <3>3. CASE q # p /\ tx[q] = NoTx
      BY <1>8, <2>1, <3>3
    <3> QED
      BY <3>1, <3>2, <3>3
  <2>5. \A q, r \in Reviewers : tx'[q].step = "commit" /\ tx'[r].step = "commit" /\ tx'[q].claim = tx'[r].claim => q = r
    BY <1>8, <2>1 DEF ClaimInv, Exclusive
  <2> QED
    BY <1>1, <2>2, <2>3, <2>4, <2>5 DEF ClaimInv, Exclusive
<1>17. Credited'
  <2>1. CASE act = "rejected"
    <3>1. Approved' = Approved
      BY <1>1, <1>6, <1>11, <2>1 DEF Approved
    <3> QED
      BY <1>1, <1>12, <2>1, <3>1, CreditedSteady DEF ClaimInv
  <2>2. CASE act = "approved"
    <3>1. Approved' = Approved \cup {c} /\ c \notin Approved /\ Approved \in SUBSET Ids
      BY <1>1, <1>6, <1>11, <2>2 DEF Approved
    <3>2. IsFiniteSet(Approved) /\ Cardinality(Approved \cup {c}) = Cardinality(Approved) + 1
      BY <1>2, <3>1, ClaimFacts, FS_AddElement
    <3>3. /\ Len(ledger') = Len(ledger) + 1 /\ {ledger'[i] : i \in 1..Len(ledger')} = {ledger[i] : i \in 1..Len(ledger)} \cup {c}
      BY <1>2, <1>12, <2>2
    <3>4. ASSUME NEW u \in ClaimUsers PROVE credited'[u] = SumOver(Amounts', ApprovedOf(u)')
      <4>1. Amounts' = Amounts
        BY <1>1 DEF Amounts
      <4>2. CASE u # filed[c].user
        <5>1. ApprovedOf(u)' = ApprovedOf(u)
          BY <1>1, <3>1, <4>2 DEF ApprovedOf
        <5>2. SumOver(Amounts', ApprovedOf(u)') = SumOver(Amounts, ApprovedOf(u))
          BY <4>1, <5>1
        <5> QED
          BY <1>2, <1>12, <1>13, <2>2, <4>2, <5>2 DEF ClaimInv, Credited
      <4>3. CASE u = filed[c].user
        <5>1. PICK S : S = ApprovedOf(u)
          OBVIOUS
        <5>2. ApprovedOf(u)' = S \cup {c} /\ c \notin S /\ S \in SUBSET Ids
          BY <1>1, <3>1, <4>3, <5>1 DEF ApprovedOf
        <5>3. IsFiniteSet(S) /\ IntOn(Amounts, S \cup {c}) /\ Amounts[c] = filed[c].amount
          BY <1>2, <5>2, ClaimFacts DEF IntOn, Amounts
        <5>4. SumOver(Amounts, S \cup {c}) = SumOver(Amounts, S) + Amounts[c]
          BY <5>2, <5>3, SumAdd
        <5>5. SumOver(Amounts', ApprovedOf(u)') = SumOver(Amounts, S \cup {c})
          BY <4>1, <5>2
        <5>6. credited[u] = SumOver(Amounts, S)
          BY <5>1 DEF ClaimInv, Credited
        <5> QED
          BY <1>2, <1>12, <1>13, <2>2, <4>3, <5>3, <5>4, <5>5, <5>6
      <4> QED
        BY <4>2, <4>3
    <3>5. Len(ledger') = Cardinality(Approved') /\ {ledger'[i] : i \in 1..Len(ledger')} = Approved'
      BY <3>1, <3>2, <3>3 DEF ClaimInv, Credited
    <3> QED
      BY <3>4, <3>5 DEF Credited
  <2> QED
    BY <2>1, <2>2
<1> QED
  BY <1>14, <1>15, <1>16, <1>17 DEF ClaimInv

\* A claim is filed: no claim of the same txid is there.
LEMMA SubmitKeeps ==
  ASSUME ClaimInv, [ClaimNext]_claimVars, NEW c \in Ids, Submit(c)
  PROVE  ClaimInv'
<1>1. /\ filed' = filed /\ Ids' = Ids /\ Reviewers' = Reviewers /\ head' \in Nat
      /\ \A d : (Seen(d) => Seen(d)') /\ (Seen(d) /\ Deep(d) => Deep(d)') /\ (Right(d) => Right(d)')
  BY ClaimFrame DEF ClaimInv
<1>2. /\ tx \in [Reviewers -> {NoTx} \cup OpenTx] /\ claims \in [Ids -> ClaimRows]
      /\ request \in [Ids -> [step : RequestSteps, retried : BOOLEAN]]
      /\ UNCHANGED <<tx, credited, ledger>>
      /\ tx[c] = NoTx /\ claims[c].status = "absent" /\ request[c].step = "new"
  BY DEF Submit, ClaimInv, ClaimType, Exclusive
<1>3. PICK x \in {"lookup", "done"} : Go(c, x)
  BY DEF Submit
<1>4. /\ request' \in [Ids -> [step : RequestSteps, retried : BOOLEAN]]
      /\ request'[c].step = x /\ \A d \in Ids \ {c} : request'[d] = request[d]
  <2>1. request' = [request EXCEPT ![c] = [request[c] EXCEPT !.step = x]]
    BY <1>2, <1>3 DEF Go
  <2>2. /\ [request[c] EXCEPT !.step = x] \in [step : RequestSteps, retried : BOOLEAN]
        /\ [request[c] EXCEPT !.step = x].step = x
    BY <1>2 DEF RequestSteps
  <2> QED
    BY <1>2, <2>1, <2>2
<1>5. /\ claims' \in [Ids -> ClaimRows] /\ claims'[c].status \in {"absent", "pending"}
      /\ \A d \in Ids \ {c} : claims'[d] = claims[d]
      /\ claims'[c].status = "pending" => \A d \in Ids : claims[d].status # "absent" => filed[d].txid # filed[c].txid
  <2>1. CASE UNCHANGED claims
    BY <1>2, <2>1
  <2>2. CASE claims' = [claims EXCEPT ![c].status = "pending"]
    <3>1. [claims[c] EXCEPT !.status = "pending"] \in ClaimRows /\ [claims[c] EXCEPT !.status = "pending"].status = "pending"
      BY <1>2 DEF ClaimRows
    <3>2. claims'[c].status = "pending"
      BY <1>2, <2>2, <3>1
    <3>3. claims' # claims
      BY <1>2, <3>2
    <3>4. \A d \in Ids : claims[d].status # "absent" => filed[d].txid # filed[c].txid
      BY <3>3 DEF Submit
    <3> QED
      BY <1>2, <2>2, <3>1, <3>2, <3>4
  <2> QED
    BY <2>1, <2>2 DEF Submit
<1>6. ClaimType'
  BY <1>1, <1>2, <1>4, <1>5 DEF ClaimInv, ClaimType, OpenTx
<1>7. Learnt'
  <2> SUFFICES ASSUME NEW d \in Ids
      PROVE  /\ request'[d].step \in {"head", "match", "approve", "approving"} => Seen(d)'
             /\ request'[d].step \in {"match", "approve", "approving"} => Deep(d)'
             /\ request'[d].step \in {"approve", "approving"} => Right(d)'
             /\ claims'[d].status = "approved" /\ claims'[d].auto => Seen(d)' /\ Deep(d)' /\ Right(d)'
    BY <1>1 DEF Learnt
  <2>1. CASE d = c
    BY <1>4, <1>5, <2>1
  <2>2. CASE d # c
    BY <1>1, <1>4, <1>5, <2>2 DEF ClaimInv, Learnt
  <2> QED
    BY <2>1, <2>2
<1>8. Exclusive'
  <2>1. \A d \in Ids : /\ request'[d].step = "new" => claims'[d].status = "absent"
                       /\ tx'[d] # NoTx => request'[d].step = "approving" /\ tx'[d].claim = d
    BY <1>2, <1>4, <1>5 DEF ClaimInv, Exclusive
  <2>2. ASSUME NEW d \in Ids, NEW e \in Ids, claims'[d].status # "absent", claims'[e].status # "absent", filed[d].txid = filed[e].txid
        PROVE  d = e
    <3>1. CASE d # c /\ e # c
      BY <1>5, <2>2, <3>1 DEF ClaimInv, Exclusive
    <3>2. CASE d = c \/ e = c
      BY <1>5, <2>2, <3>2
    <3> QED
      BY <3>1, <3>2
  <2>3. \A p \in Reviewers : tx[p].step = "commit" => tx[p] # NoTx
    BY DEF NoTx
  <2>4. ASSUME NEW p \in Reviewers, tx[p] # NoTx PROVE tx[p].claim \in Ids \ {c}
    <3>1. tx[p].claim \in Ids
      BY <1>2, <2>4 DEF OpenTx
    <3> QED
      BY <1>2, <2>4, <3>1 DEF ClaimInv, Exclusive
  <2>5. \A p \in Reviewers : /\ tx'[p] # NoTx => claims'[tx'[p].claim].status # "absent"
                             /\ tx'[p].step = "commit" => claims'[tx'[p].claim].status = "pending"
    BY <1>2, <1>5, <2>3, <2>4 DEF ClaimInv, Exclusive
  <2>6. \A p, q \in Reviewers : tx'[p].step = "commit" /\ tx'[q].step = "commit" /\ tx'[p].claim = tx'[q].claim => p = q
    BY <1>2 DEF ClaimInv, Exclusive
  <2> QED
    BY <1>1, <2>1, <2>2, <2>5, <2>6 DEF Exclusive
<1>9. Credited'
  <2>1. Approved' = Approved
    BY <1>1, <1>2, <1>5 DEF Approved
  <2> QED
    BY <1>1, <1>2, <2>1, CreditedSteady DEF ClaimInv
<1> QED
  BY <1>6, <1>7, <1>8, <1>9 DEF ClaimInv

\* A transaction begins, or its update finds the claim pending and takes the
\* row's lock.
LEMMA TxGoesOn ==
  ASSUME ClaimInv, [ClaimNext]_claimVars, NEW p \in Reviewers, UNCHANGED <<claims, credited, ledger>>,
         NEW t \in OpenTx, tx' = [tx EXCEPT ![p] = t], claims[t.claim].status # "absent",
         t.step = "commit" => /\ claims[t.claim].status = "pending"
                              /\ \A q \in Reviewers \ {p} : tx[q].step = "commit" => tx[q].claim # t.claim,
         request' \in [Ids -> [step : RequestSteps, retried : BOOLEAN]],
         \A d \in Ids : request'[d] = request[d]
                        \/ (d = p /\ request[d].step = "approve" /\ request'[d].step = "approving"),
         p \in Ids => t.claim = p /\ request'[p].step = "approving"
  PROVE  ClaimInv'
<1>1. /\ filed' = filed /\ Ids' = Ids /\ Reviewers' = Reviewers /\ head' \in Nat
      /\ \A d : (Seen(d) => Seen(d)') /\ (Seen(d) /\ Deep(d) => Deep(d)') /\ (Right(d) => Right(d)')
  BY ClaimFrame DEF ClaimInv
<1>2. /\ tx \in [Reviewers -> {NoTx} \cup OpenTx] /\ tx'[p] = t /\ \A q \in Reviewers \ {p} : tx'[q] = tx[q]
      /\ tx' \in [Reviewers -> {NoTx} \cup OpenTx]
      /\ Ids \subseteq Reviewers /\ t # NoTx
  BY DEF ClaimInv, ClaimType, Reviewers, OpenTx, NoTx
<1>3. ClaimType'
  BY <1>1, <1>2 DEF ClaimInv, ClaimType, OpenTx
<1>4. Learnt'
  <2> SUFFICES ASSUME NEW d \in Ids
      PROVE  /\ request'[d].step \in {"head", "match", "approve", "approving"} => Seen(d)'
             /\ request'[d].step \in {"match", "approve", "approving"} => Deep(d)'
             /\ request'[d].step \in {"approve", "approving"} => Right(d)'
             /\ claims'[d].status = "approved" /\ claims'[d].auto => Seen(d)' /\ Deep(d)' /\ Right(d)'
    BY <1>1 DEF Learnt
  <2>1. claims'[d].status = "approved" /\ claims'[d].auto => Seen(d)' /\ Deep(d)' /\ Right(d)'
    BY <1>1 DEF ClaimInv, Learnt
  <2> QED
    BY <1>1, <2>1 DEF ClaimInv, Learnt
<1>5. Exclusive'
  <2>1. \A d \in Ids : /\ request'[d].step = "new" => claims'[d].status = "absent"
                       /\ tx'[d] # NoTx => request'[d].step = "approving" /\ tx'[d].claim = d
    BY <1>2 DEF ClaimInv, Exclusive
  <2>2. \A q \in Reviewers : /\ tx'[q] # NoTx => claims'[tx'[q].claim].status # "absent"
                             /\ tx'[q].step = "commit" => claims'[tx'[q].claim].status = "pending"
    BY <1>2 DEF ClaimInv, Exclusive
  <2>3. ASSUME NEW q \in Reviewers, NEW r \in Reviewers, tx'[q].step = "commit", tx'[r].step = "commit", tx'[q].claim = tx'[r].claim
        PROVE  q = r
    BY <1>2, <2>3 DEF ClaimInv, Exclusive
  <2>4. \A c, d \in Ids : claims'[c].status # "absent" /\ claims'[d].status # "absent" /\ filed'[c].txid = filed'[d].txid => c = d
    BY <1>1 DEF ClaimInv, Exclusive
  <2> QED
    BY <1>1, <2>1, <2>2, <2>3, <2>4 DEF Exclusive
<1>6. Credited'
  <2>1. Approved' = Approved
    BY <1>1 DEF Approved
  <2> QED
    BY <1>1, <2>1, CreditedSteady DEF ClaimInv
<1> QED
  BY <1>3, <1>4, <1>5, <1>6 DEF ClaimInv

\* AutoApproveClaim and ReviewClaim begin a transaction; its guarded update
\* goes on or ends it.
LEMMA TxKeeps ==
  ASSUME ClaimInv, [ClaimNext]_claimVars,
         \/ \E c \in Ids : AutoApproveClaim(c)
         \/ \E p \in Admins : AdminReview(p)
         \/ \E p \in Reviewers : Update(p) \/ Rollback(p)
  PROVE  ClaimInv'
<1> DEFINE R == [step : RequestSteps, retried : BOOLEAN]
<1>1. /\ tx \in [Reviewers -> {NoTx} \cup OpenTx] /\ request \in [Ids -> R] /\ filed \in ClaimSets
      /\ Ids \subseteq Reviewers /\ Admins \subseteq Reviewers /\ Ids \cap Admins = {}
  BY ClaimFacts DEF ClaimInv, ClaimType, Reviewers
<1>2. ASSUME NEW c \in Ids, AutoApproveClaim(c) PROVE ClaimInv'
  <2>1. PICK t \in OpenTx : t = [step |-> "update", claim |-> c, action |-> "approved"]
    BY DEF OpenTx
  <2>2. /\ tx' = [tx EXCEPT ![c] = t] /\ claims[t.claim].status # "absent" /\ t.step = "update" /\ t.claim = c
        /\ UNCHANGED <<claims, credited, ledger>> /\ request[c].step = "approve"
    BY <1>2, <2>1 DEF AutoApproveClaim, Select
  <2>3. request' = [request EXCEPT ![c] = [request[c] EXCEPT !.step = "approving"]]
    BY <1>1, <1>2 DEF AutoApproveClaim, Go
  <2>4. [request[c] EXCEPT !.step = "approving"] \in R /\ [request[c] EXCEPT !.step = "approving"].step = "approving"
    BY <1>1 DEF RequestSteps
  <2>5. request' \in [Ids -> R] /\ request'[c].step = "approving" /\ \A d \in Ids \ {c} : request'[d] = request[d]
    BY <1>1, <2>3, <2>4
  <2> QED
    BY <1>1, <2>2, <2>5, TxGoesOn
<1>3. ASSUME NEW p \in Admins, AdminReview(p) PROVE ClaimInv'
  <2>1. PICK c \in Ids, action \in {"approved", "rejected"} : Select(p, c, action)
    BY <1>3 DEF AdminReview
  <2>2. PICK t \in OpenTx : t = [step |-> "update", claim |-> c, action |-> action]
    BY DEF OpenTx
  <2>3. /\ tx' = [tx EXCEPT ![p] = t] /\ claims[t.claim].status # "absent" /\ t.step = "update"
        /\ UNCHANGED <<claims, credited, ledger, request>> /\ p \notin Ids
    BY <1>1, <1>3, <2>1, <2>2 DEF AdminReview, Select
  <2> QED
    BY <1>1, <2>3, TxGoesOn
<1>4. ASSUME NEW p \in Reviewers, Update(p) PROVE ClaimInv'
  <2>1. tx[p] \in OpenTx /\ tx[p] # NoTx /\ UNCHANGED <<claims, credited, ledger>>
    BY <1>1, <1>4 DEF Update, NoTx
  <2>2. CASE ~Pending(tx[p].claim)
    BY <1>4, <2>1, <2>2, TxEndsUnapplied DEF Update
  <2>3. CASE Pending(tx[p].claim)
    <3>1. PICK t : t = [tx[p] EXCEPT !.step = "commit"]
      OBVIOUS
    <3>2. t \in OpenTx /\ t.claim = tx[p].claim /\ t.step = "commit"
      BY <2>1, <3>1 DEF OpenTx
    <3>3. tx' = [tx EXCEPT ![p] = t] /\ UNCHANGED request /\ claims[t.claim].status = "pending"
      BY <1>1, <1>4, <2>3, <3>1, <3>2 DEF Update, Pending
    <3>4. \A q \in Reviewers \ {p} : tx[q].step = "commit" => tx[q].claim # t.claim
      BY <1>4, <3>2 DEF Update
    <3>5. p \in Ids => t.claim = p /\ request'[p].step = "approving"
      BY <2>1, <3>2, <3>3 DEF ClaimInv, Exclusive
    <3> QED
      BY <1>1, <2>1, <3>2, <3>3, <3>4, <3>5, TxGoesOn
  <2> QED
    BY <2>2, <2>3
<1>5. ASSUME NEW p \in Reviewers, Rollback(p) PROVE ClaimInv'
  BY <1>5, TxEndsUnapplied DEF Rollback
<1> QED
  BY <1>2, <1>3, <1>4, <1>5

\* The gateway's death ends every request and transaction, and no commit.
LEMMA GatewayDiesKeeps ==
  ASSUME ClaimInv, [ClaimNext]_claimVars, GatewayDies
  PROVE  ClaimInv'
<1>1. /\ filed' = filed /\ Ids' = Ids /\ Reviewers' = Reviewers /\ head' \in Nat
      /\ \A d : (Seen(d) => Seen(d)') /\ (Seen(d) /\ Deep(d) => Deep(d)') /\ (Right(d) => Right(d)')
  BY ClaimFrame DEF ClaimInv
<1>2. /\ UNCHANGED <<claims, credited, ledger>> /\ tx' = [p \in Reviewers |-> NoTx]
      /\ request' = [c \in Ids |-> IF request[c].step = "new" THEN request[c] ELSE [request[c] EXCEPT !.step = "done"]]
      /\ request \in [Ids -> [step : RequestSteps, retried : BOOLEAN]]
  BY DEF GatewayDies, ClaimInv, ClaimType
<1>3. ASSUME NEW c \in Ids PROVE /\ request'[c] \in [step : RequestSteps, retried : BOOLEAN]
                                 /\ request'[c].step \in {"new", "done"} /\ (request'[c].step = "new" => request[c].step = "new")
  <2>1. /\ [request[c] EXCEPT !.step = "done"] \in [step : RequestSteps, retried : BOOLEAN]
        /\ [request[c] EXCEPT !.step = "done"].step = "done"
    BY <1>2 DEF RequestSteps
  <2> QED
    BY <1>2, <2>1
<1>4. ClaimType'
  <2>1. request' \in [Ids -> [step : RequestSteps, retried : BOOLEAN]]
    BY <1>2, <1>3
  <2> QED
    BY <1>1, <1>2, <2>1 DEF ClaimInv, ClaimType
<1>5. Learnt'
  BY <1>1, <1>2, <1>3 DEF ClaimInv, Learnt
<1>6. Exclusive'
  <2>1. /\ NoTx.step # "commit" /\ Ids \subseteq Reviewers
        /\ \A p \in Reviewers : tx'[p] = NoTx
    BY <1>2 DEF NoTx, Reviewers
  <2> QED
    <3>1. \A c \in Ids : /\ request'[c].step = "new" => claims'[c].status = "absent"
                         /\ tx'[c] # NoTx => request'[c].step = "approving" /\ tx'[c].claim = c
      BY <1>2, <1>3, <2>1 DEF ClaimInv, Exclusive
    <3>2. \A c, d \in Ids : claims'[c].status # "absent" /\ claims'[d].status # "absent" /\ filed'[c].txid = filed'[d].txid => c = d
      BY <1>1, <1>2 DEF ClaimInv, Exclusive
    <3> QED
      BY <1>1, <2>1, <3>1, <3>2 DEF Exclusive
<1>7. Credited'
  <2>1. Approved' = Approved
    BY <1>1, <1>2 DEF Approved
  <2> QED
    BY <1>1, <1>2, <2>1, CreditedSteady DEF ClaimInv
<1> QED
  BY <1>4, <1>5, <1>6, <1>7 DEF ClaimInv

\* A new block, or nothing.
LEMMA NewBlockKeeps ==
  ASSUME ClaimInv, [ClaimNext]_claimVars, NewBlock \/ UNCHANGED claimVars
  PROVE  ClaimInv'
<1>1. /\ filed' = filed /\ Ids' = Ids /\ Reviewers' = Reviewers /\ head' \in Nat
      /\ \A d : (Seen(d) => Seen(d)') /\ (Seen(d) /\ Deep(d) => Deep(d)') /\ (Right(d) => Right(d)')
  BY ClaimFrame DEF ClaimInv
<1>2. UNCHANGED <<claims, request, tx, credited, ledger>>
  BY DEF NewBlock, claimVars
<1>3. ClaimType' /\ Exclusive'
  BY <1>1, <1>2 DEF ClaimInv, ClaimType, Exclusive, OpenTx
<1>4. Learnt'
  BY <1>1, <1>2 DEF ClaimInv, Learnt
<1>5. Credited'
  <2>1. Approved' = Approved
    BY <1>1, <1>2 DEF Approved
  <2> QED
    BY <1>1, <1>2, <2>1, CreditedSteady DEF ClaimInv
<1> QED
  BY <1>3, <1>4, <1>5 DEF ClaimInv

\* Every step of a request, a review or the chain keeps the invariant.
LEMMA ClaimSteps == ClaimInv /\ [ClaimNext]_claimVars => ClaimInv'
<1> SUFFICES ASSUME ClaimInv, [ClaimNext]_claimVars PROVE ClaimInv'
  OBVIOUS
<1>1. CASE NewBlock \/ UNCHANGED claimVars
  BY <1>1, NewBlockKeeps
<1>2. CASE GatewayDies
  BY <1>2, GatewayDiesKeeps
<1>3. ASSUME NEW c \in Ids, RequestStep(c) PROVE ClaimInv'
  BY <1>3, SubmitKeeps, RequestSteps1, TxKeeps DEF RequestStep
<1>4. ASSUME NEW p \in Admins, AdminReview(p) PROVE ClaimInv'
  BY <1>4, TxKeeps
<1>5. ASSUME NEW p \in Reviewers, TxStep(p) \/ Rollback(p) PROVE ClaimInv'
  BY <1>5, TxKeeps, CommitKeeps DEF TxStep
<1> QED
  BY <1>1, <1>2, <1>3, <1>4, <1>5 DEF ClaimNext

\* For any claims, transfers and administrators: a claim is credited exactly
\* when it is approved, and once - in the balance and in the ledger - whatever
\* reviews, failures and lost answers overlap (pg_deposit_claims.go).
THEOREM ClaimsCreditedOnce == ClaimSpec => []CreditedOnce
<1>1. ClaimInv => CreditedOnce
  <2> SUFFICES ASSUME ClaimInv PROVE CreditedOnce
    OBVIOUS
  <2>1. ASSUME NEW u \in ClaimUsers
        PROVE  credited[u] = MapThenSumSet(LAMBDA c : Amounts[c], {c \in Approved : filed[c].user = u})
    BY DEF ClaimInv, Credited, ApprovedOf, SumOver
  <2>2. \A c, d \in Approved : filed[c].txid = filed[d].txid => c = d
    BY DEF ClaimInv, Exclusive, Approved
  <2> QED
    BY <2>1, <2>2 DEF ClaimInv, Credited, CreditedOnce
<1> QED
  BY <1>1, ClaimStart, ClaimSteps, PTL DEF ClaimSpec

\* For any claims and any chain that grows: what the verifier approved by itself
\* is a successful transfer of the asset to the claimant's address, of at least
\* the amount and deep enough (deposit_verify.go).
THEOREM ClaimsOnChain == ClaimSpec => []AutoApprovedOnChain
<1>1. ClaimInv => AutoApprovedOnChain
  <2> SUFFICES ASSUME ClaimInv, NEW c \in Approved, claims[c].auto
      PROVE  LET cl == filed[c]
                 t  == TxOf[cl.txid]
             IN  /\ Mined(t, cl.network) /\ Transfers[t].ok
                 /\ head - Transfers[t].block + 1 >= MinConf
                 /\ \E out \in {[asset |-> "ETH", to |-> Transfers[t].native.to, value |-> Transfers[t].native.value]} \cup Transfers[t].logs :
                      out.asset = cl.asset /\ out.to = DepositAddress[cl.user] /\ out.value >= cl.amount
    BY DEF AutoApprovedOnChain
  <2>1. Seen(c) /\ Deep(c) /\ Right(c)
    BY DEF ClaimInv, Learnt, Approved
  <2> QED
    <3> DEFINE cl == filed[c]
               t  == TxOf[cl.txid]
               native == [asset |-> "ETH", to |-> Transfers[t].native.to, value |-> Transfers[t].native.value]
    <3>1. CASE VerifyNative(cl, t)
      <4>1. native.asset = cl.asset /\ native.to = DepositAddress[cl.user] /\ native.value >= cl.amount
        BY <3>1 DEF VerifyNative, Matches
      <4> QED
        BY <2>1, <4>1 DEF Seen, Deep
    <3>2. CASE VerifyERC20(cl, t)
      <4>1. PICK lg \in Transfers[t].logs : lg.asset = cl.asset /\ lg.to = DepositAddress[cl.user] /\ lg.value >= cl.amount
        BY <3>2 DEF VerifyERC20, Matches
      <4> QED
        BY <2>1, <4>1 DEF Seen, Deep
    <3> QED
      BY <2>1, <3>1, <3>2 DEF Right
<1> QED
  BY <1>1, ClaimStart, ClaimSteps, PTL DEF ClaimSpec

-----------------------------------------------------------------------------
(***************************************************************************)
(* Deposits, addresses and transfers.  A wallet keeps the id it was made   *)
(* with, and an id a deposit made up is used for the wallet of its user or *)
(* for none; so a deposit that reaches its ledger entry with an id some    *)
(* wallet has did credit that wallet.  The invariant counts those credits  *)
(* whose entry is still to come.                                           *)
(***************************************************************************)
Wallets == DeskUsers \X DeskAccounts
NoId       == <<"none">>
OldId(u)    == <<"old", u>>
DepId(j, b) == <<"dep", j, b>>
SetId(w, j) == <<"set", w, j>>
AddrId(j)   == <<"addr", j>>
HashId(h)   == <<"hash", h>>
TfId(j, n)  == <<"tf", j, n>>

WalletIds ==
  {NoId} \cup {OldId(u) : u \in DeskUsers} \cup {DepId(j, b) : j \in Jobs, b \in BOOLEAN}
  \cup {SetId(w, j) : w \in Wallets, j \in Jobs} \cup {AddrId(j) : j \in Jobs}
WalletRows == [id : WalletIds, balance : Nat, address : Addresses \cup {""}]
AtDesk == [step : {"new", "wallet", "create", "credit", "record", "generate", "done"}, again : BOOLEAN, wid : WalletIds]

DeskType ==
  /\ deskSetup \in DeskSetups
  /\ rows \in [Wallets -> WalletRows] /\ desk \in [Jobs -> AtDesk]
  /\ \A j \in Jobs : /\ desk[j].step \in {"wallet", "create", "credit", "record"} => Job(j).kind = "deposit"
                     /\ desk[j].step = "generate" => Job(j).kind = "address"
  /\ \A e \in entries : e.amount \in Int
  /\ \A w \in Wallets : IsFiniteSet({e \in entries : e.owner = w})

DeskIds ==
  /\ \A w \in Wallets : rows[w].id = NoId => rows[w] = Missing
  /\ \A w \in Wallets, j \in Jobs, b \in BOOLEAN : rows[w].id = DepId(j, b) => w = Spot(Job(j).user)
  /\ \A j \in Jobs :
       /\ desk[j].step = "create" => desk[j].wid = Fresh(j)
       /\ desk[j].step \in {"credit", "record"} =>
            rows[Spot(Job(j).user)].id # NoId /\ desk[j].wid \in {rows[Spot(Job(j).user)].id, Fresh(j)}
  /\ \A e \in entries, j \in Jobs : e.id \in {TfId(j, 1), TfId(j, 2)} => Job(j).kind = "transfer" /\ desk[j].step = "done"

EntriesOf(w) == {e \in entries : e.owner = w}
Owed(w) == {j \in Jobs : desk[j].step = "record" /\ Spot(Job(j).user) = w /\ desk[j].wid = rows[w].id}
JobAmount == [j \in Jobs |-> Job(j).amount]

Backed == \A w \in Wallets : rows[w].balance >= SumOver(EntryAmount, EntriesOf(w)) + SumOver(JobAmount, Owed(w))

Given ==
  /\ \A g \in givenOut : \E u \in DeskUsers : g = <<u, rows[Spot(u)].address>> /\ rows[Spot(u)].address # ""
  /\ \A v, w \in Wallets : rows[v].address = rows[w].address /\ rows[w].address # "" => v = w

DeskInv == DeskType /\ DeskIds /\ Backed /\ Given

\* What an instance of the desk is.
LEMMA DeskFacts ==
  ASSUME deskSetup \in DeskSetups
  PROVE  /\ IsFiniteSet(Jobs) /\ \A S \in SUBSET Jobs : IsFiniteSet(S)
         /\ \A j \in Jobs : /\ Job(j).user \in DeskUsers /\ Spot(Job(j).user) \in Wallets
                            /\ Job(j).kind \in {"deposit", "address", "transfer"}
                            /\ Job(j).kind # "address" => Job(j).amount \in Nat \ {0}
         /\ \A u \in DeskUsers : Spot(u) \in Wallets
         /\ "" \notin Addresses
<1>1. IsFiniteSet(Jobs)
  BY DeskAssumption DEF Jobs
<1>2. \A S \in SUBSET Jobs : IsFiniteSet(S)
  BY <1>1, FS_Subset
<1> QED
  BY <1>1, <1>2, DeskAssumption DEF Jobs, Job, Spot, Wallets

\* Ids of different origin differ.
LEMMA IdsDiffer ==
  /\ \A u, v : Spot(u) = Spot(v) => u = v
  /\ \A w \in Wallets : \A u : w = Spot(u) => w[1] = u /\ w[2] = "spot"
  /\ \A j, b : DepId(j, b) # NoId
  /\ \A j, b, k, c : DepId(j, b) = DepId(k, c) => j = k
  /\ \A w, j, k, b : SetId(w, j) # NoId /\ SetId(w, j) # DepId(k, b)
  /\ \A j, k, b : AddrId(j) # NoId /\ AddrId(j) # DepId(k, b)
  /\ \A u, k, b : OldId(u) # NoId /\ OldId(u) # DepId(k, b)
  /\ \A j, n, h, k, b, u : TfId(j, n) # HashId(h) /\ TfId(j, n) # DepId(k, b) /\ TfId(j, n) # OldId(u)
  /\ \A j, n, k, m : TfId(j, n) = TfId(k, m) => j = k
<1>1. \A u : Spot(u)[1] = u /\ Spot(u)[2] = "spot"
  BY DEF Spot
<1>2. /\ NoId[1] = "none"
      /\ \A j, b : DepId(j, b)[1] = "dep" /\ DepId(j, b)[2] = j
      /\ \A w, j : SetId(w, j)[1] = "set"
      /\ \A j : AddrId(j)[1] = "addr"
      /\ \A u : OldId(u)[1] = "old"
      /\ \A h : HashId(h)[1] = "hash"
      /\ \A j, n : TfId(j, n)[1] = "tf" /\ TfId(j, n)[2] = j
  BY DEF NoId, DepId, SetId, AddrId, OldId, HashId, TfId
<1> QED
  BY <1>1, <1>2

\* Ids are wallet ids.
LEMMA IdsAre ==
  /\ NoId \in WalletIds /\ \A u \in DeskUsers : OldId(u) \in WalletIds
  /\ \A j \in Jobs, b \in BOOLEAN : DepId(j, b) \in WalletIds
  /\ \A w \in Wallets, j \in Jobs : SetId(w, j) \in WalletIds
  /\ \A j \in Jobs : AddrId(j) \in WalletIds
  BY DEF WalletIds

\* DeskInit: the opening balances, each with its entry.
LEMMA DeskStart == DeskInit => DeskInv
<1> SUFFICES ASSUME DeskInit PROVE DeskInv
  OBVIOUS
<1>1. /\ deskSetup \in DeskSetups
      /\ desk = [j \in Jobs |-> [step |-> "new", again |-> FALSE, wid |-> NoId]]
      /\ givenOut = {}
      /\ rows = [w \in Wallets |-> IF w[2] = "spot" /\ deskSetup.opening[w[1]] >= 0
           THEN [id |-> OldId(w[1]), balance |-> deskSetup.opening[w[1]], address |-> ""] ELSE Missing]
      /\ entries = {[id |-> OldId(u), owner |-> Spot(u), amount |-> deskSetup.opening[u]] :
                      u \in {v \in DeskUsers : deskSetup.opening[v] > 0}}
      /\ \A u \in DeskUsers : deskSetup.opening[u] \in Nat \cup {-1}
  BY DeskAssumption DEF DeskInit, Wallets, NoId, OldId
<1>2. \A w \in Wallets : w[1] \in DeskUsers /\ w = <<w[1], w[2]>> /\ deskSetup.opening[w[1]] \in Nat \cup {-1}
  <2>1. \A w \in Wallets : w[1] \in DeskUsers /\ w = <<w[1], w[2]>>
    BY DEF Wallets
  <2> QED
    BY <1>1, <2>1
<1>3. ASSUME NEW w \in Wallets
      PROVE  /\ rows[w] \in WalletRows /\ rows[w].address = ""
             /\ rows[w].id = NoId => rows[w] = Missing
             /\ \A j, b : rows[w].id # DepId(j, b)
             /\ w[2] = "spot" /\ deskSetup.opening[w[1]] > 0 => rows[w].balance = deskSetup.opening[w[1]]
  <2>1. PICK x \in Nat \cup {-1} : x = deskSetup.opening[w[1]]
    BY <1>2
  <2>2. PICK o \in WalletIds : o = OldId(w[1])
    BY <1>2, IdsAre
  <2>3. PICK r : r = rows[w]
    OBVIOUS
  <2>4. r = IF w[2] = "spot" /\ x >= 0 THEN [id |-> o, balance |-> x, address |-> ""] ELSE Missing
    BY <1>1, <2>1, <2>2, <2>3
  <2>5. CASE w[2] = "spot" /\ x >= 0
    <3>1. r = [id |-> o, balance |-> x, address |-> ""] /\ x \in Nat
      <4>1. x \in Nat
        BY <2>5
      <4> QED
        BY <2>4, <2>5, <4>1
    <3>2. r.id = o /\ r.balance = x /\ r.address = "" /\ r \in WalletRows
      BY <3>1 DEF WalletRows
    <3>3. o # NoId /\ \A j, b : o # DepId(j, b)
      BY <2>2, IdsDiffer
    <3> QED
      BY <2>1, <2>3, <3>2, <3>3
  <2>6. CASE ~(w[2] = "spot" /\ x >= 0)
    <3>1. r = Missing
      BY <2>4, <2>6
    <3>2. PICK n \in WalletIds : n = NoId
      BY IdsAre
    <3>3. r = [id |-> n, balance |-> 0, address |-> ""]
      BY <3>1, <3>2 DEF Missing, NoId
    <3>4. r.id = n /\ r.balance = 0 /\ r.address = "" /\ r \in WalletRows
      BY <3>3 DEF WalletRows
    <3>5. \A j, b : n # DepId(j, b)
      BY <3>2, IdsDiffer
    <3>6. ~(w[2] = "spot" /\ x > 0)
      BY <2>6
    <3> QED
      BY <2>1, <2>3, <3>1, <3>4, <3>5, <3>6
  <2> QED
    BY <2>5, <2>6
<1>4. ASSUME NEW w \in Wallets
      PROVE  /\ IsFiniteSet(EntriesOf(w))
             /\ SumOver(EntryAmount, EntriesOf(w)) <= rows[w].balance /\ SumOver(EntryAmount, EntriesOf(w)) \in Int
  <2> DEFINE o == [id |-> OldId(w[1]), owner |-> w, amount |-> deskSetup.opening[w[1]]]
  <2>1. \A e \in EntriesOf(w) : e = o /\ w[2] = "spot" /\ deskSetup.opening[w[1]] > 0
    <3> TAKE e \in EntriesOf(w)
    <3>1. PICK u \in {v \in DeskUsers : deskSetup.opening[v] > 0} : e = [id |-> OldId(u), owner |-> Spot(u), amount |-> deskSetup.opening[u]]
      BY <1>1 DEF EntriesOf
    <3>2. Spot(u) = w
      BY <3>1 DEF EntriesOf
    <3>3. u = w[1] /\ w[2] = "spot"
      BY <3>2, IdsDiffer
    <3> QED
      BY <3>1, <3>2, <3>3, Zenon
  <2> HIDE DEF o
  <2>2. CASE EntriesOf(w) = {}
    <3>1. SumOver(EntryAmount, {}) = 0 /\ IsFiniteSet({})
      BY SumEmpty, FS_EmptySet
    <3>2. rows[w].balance \in Nat
      BY <1>3 DEF WalletRows
    <3> QED
      BY <2>2, <3>1, <3>2
  <2>3. CASE EntriesOf(w) # {}
    <3>1. EntriesOf(w) = {} \cup {o} /\ o \in entries /\ w[2] = "spot" /\ deskSetup.opening[w[1]] > 0
      BY <2>1, <2>3 DEF EntriesOf
    <3>2. EntryAmount[o] = deskSetup.opening[w[1]] /\ deskSetup.opening[w[1]] \in Nat
      <4>1. EntryAmount[o] = o.amount
        BY <3>1 DEF EntryAmount
      <4>2. deskSetup.opening[w[1]] \in Nat
        BY <1>2, <3>1
      <4> QED
        BY <4>1, <4>2 DEF o
    <3>3. IsFiniteSet({}) /\ IntOn(EntryAmount, {} \cup {o})
      BY <3>2, FS_EmptySet DEF IntOn
    <3>4. SumOver(EntryAmount, {} \cup {o}) = SumOver(EntryAmount, {}) + EntryAmount[o]
      BY <3>3, SumAdd
    <3>5. SumOver(EntryAmount, {}) = 0
      BY SumEmpty
    <3>6. IsFiniteSet({} \cup {o})
      BY <3>3, FS_AddElement
    <3>7. rows[w].balance = deskSetup.opening[w[1]]
      BY <1>3, <3>1, <3>2
    <3> QED
      BY <3>1, <3>2, <3>4, <3>5, <3>6, <3>7
  <2> QED
    BY <2>2, <2>3
<1>5. DeskType
  <2>1. \A e \in entries : e.amount \in Int
    <3> TAKE e \in entries
    <3>1. PICK u \in DeskUsers : e = [id |-> OldId(u), owner |-> Spot(u), amount |-> deskSetup.opening[u]]
      BY <1>1
    <3>2. PICK x \in Nat \cup {-1} : x = deskSetup.opening[u]
      BY <1>1
    <3>3. e.amount = x
      BY <3>1, <3>2
    <3> QED
      BY <3>3
  <2>2. rows \in [Wallets -> WalletRows]
    BY <1>1, <1>3
  <2>3. desk \in [Jobs -> AtDesk] /\ \A j \in Jobs : desk[j].step = "new"
    <3>1. PICK n \in WalletIds : n = NoId
      BY IdsAre
    <3> QED
      BY <1>1, <3>1 DEF AtDesk
  <2> QED
    BY <1>1, <1>4, <2>1, <2>2, <2>3 DEF DeskType, EntriesOf
<1>6. DeskIds
  <2>1. \A e \in entries : \E u : e.id = OldId(u)
    <3> TAKE e \in entries
    <3>1. PICK u : e = [id |-> OldId(u), owner |-> Spot(u), amount |-> deskSetup.opening[u]]
      BY <1>1
    <3> QED
      BY <3>1, IdsDiffer
  <2>2. \A e \in entries, j \in Jobs : e.id \notin {TfId(j, 1), TfId(j, 2)}
    BY <2>1, IdsDiffer
  <2>3. \A w \in Wallets, j \in Jobs, b \in BOOLEAN : rows[w].id # DepId(j, b)
    BY <1>3
  <2> QED
    BY <1>1, <1>3, <2>2, <2>3 DEF DeskIds
<1>7. Backed
  <2>1. SumOver(JobAmount, {}) = 0
    BY SumEmpty
  <2>2. \A w : Owed(w) = {}
    BY <1>1 DEF Owed
  <2> QED
    <3> SUFFICES ASSUME NEW w \in Wallets PROVE rows[w].balance >= SumOver(EntryAmount, EntriesOf(w)) + SumOver(JobAmount, Owed(w))
      BY DEF Backed
    <3>1. rows[w].balance \in Nat /\ SumOver(JobAmount, Owed(w)) = 0
      BY <1>3, <2>1, <2>2 DEF WalletRows
    <3> QED
      BY <1>4, <3>1
<1>8. Given
  BY <1>1, <1>3 DEF Given
<1> QED
  BY <1>5, <1>6, <1>7, <1>8 DEF DeskInv

\* The instance of the desk does not change.
LEMMA DeskFrame ==
  ASSUME [DeskNext]_deskVars
  PROVE  /\ deskSetup' = deskSetup /\ Jobs' = Jobs /\ JobAmount' = JobAmount
         /\ WalletIds' = WalletIds /\ WalletRows' = WalletRows /\ AtDesk' = AtDesk
         /\ \A j : Job(j)' = Job(j)
<1>1. deskSetup' = deskSetup
  BY DEF DeskNext, deskVars, GetTx, GetWallet, SaveWallet, UpdateBalance, SaveTx, DepositAgain, FindAddress,
         AssignDepositAddress, Transfer, DeskDies
<1>2. Jobs' = Jobs /\ \A j : Job(j)' = Job(j)
  BY <1>1 DEF Jobs, Job
<1>3. JobAmount' = JobAmount /\ WalletIds' = WalletIds
  BY <1>2 DEF JobAmount, WalletIds
<1> QED
  BY <1>1, <1>2, <1>3 DEF WalletRows, AtDesk

\* The sums of a wallet's entries and of its credits without an entry.
LEMMA DeskSums ==
  ASSUME DeskInv, NEW w \in Wallets
  PROVE  /\ IsFiniteSet(EntriesOf(w)) /\ (\A e \in EntriesOf(w) : EntryAmount[e] = e.amount /\ e.amount \in Int)
         /\ SumOver(EntryAmount, EntriesOf(w)) \in Int
         /\ IsFiniteSet(Owed(w)) /\ (\A j \in Owed(w) : JobAmount[j] \in Nat)
         /\ SumOver(JobAmount, Owed(w)) \in Nat
         /\ rows[w].balance \in Nat
         /\ rows[w].balance >= SumOver(EntryAmount, EntriesOf(w)) + SumOver(JobAmount, Owed(w))
<1>1. /\ IsFiniteSet(EntriesOf(w)) /\ rows[w].balance \in Nat
      /\ rows[w].balance >= SumOver(EntryAmount, EntriesOf(w)) + SumOver(JobAmount, Owed(w))
  BY DEF DeskInv, DeskType, Backed, EntriesOf, WalletRows
<1>2. \A e \in EntriesOf(w) : EntryAmount[e] = e.amount /\ e.amount \in Int
  BY DEF DeskInv, DeskType, EntriesOf, EntryAmount
<1>3. SumOver(EntryAmount, EntriesOf(w)) \in Int
  <2>1. IntOn(EntryAmount, EntriesOf(w))
    BY <1>2 DEF IntOn
  <2> QED
    BY <1>1, <2>1, SumType
<1>4. IsFiniteSet(Owed(w)) /\ \A j \in Owed(w) : JobAmount[j] \in Nat
  <2>1. Owed(w) \in SUBSET Jobs /\ deskSetup \in DeskSetups
    BY DEF Owed, DeskInv, DeskType
  <2>2. \A j \in Owed(w) : j \in Jobs /\ Job(j).kind = "deposit"
    BY DEF Owed, DeskInv, DeskType
  <2> QED
    BY <2>1, <2>2, DeskFacts DEF JobAmount
<1>5. SumOver(JobAmount, Owed(w)) \in Nat
  BY <1>4, SumNat
<1> QED
  BY <1>1, <1>2, <1>3, <1>4, <1>5

\* A wallet stays backed when its entries stay and it owes no more.
LEMMA BackedKept ==
  ASSUME DeskInv, NEW w \in Wallets, JobAmount' = JobAmount, entries \subseteq entries',
         EntriesOf(w)' = EntriesOf(w), Owed(w)' \subseteq Owed(w),
         rows'[w].balance \in Nat, rows'[w].balance >= rows[w].balance
  PROVE  rows'[w].balance >= SumOver(EntryAmount', EntriesOf(w)') + SumOver(JobAmount', Owed(w)')
<1>1. PICK E, F, A, O, P, B : /\ E = EntriesOf(w) /\ F = EntryAmount /\ A = EntryAmount'
                              /\ O = Owed(w) /\ P = Owed(w)' /\ B = JobAmount
  OBVIOUS
<1>2. /\ IsFiniteSet(E) /\ (\A e \in E : F[e] = e.amount /\ e.amount \in Int)
      /\ SumOver(F, E) \in Int
      /\ IsFiniteSet(O) /\ (\A j \in O : B[j] \in Nat)
      /\ SumOver(B, O) \in Nat /\ rows[w].balance \in Nat
      /\ rows[w].balance >= SumOver(F, E) + SumOver(B, O)
  BY <1>1, DeskSums
<1>3. \A e \in E : A[e] = F[e]
  BY <1>1, <1>2 DEF EntriesOf, EntryAmount
<1>4. SumOver(A, E) = SumOver(F, E)
  BY <1>2, <1>3, SumEqual
<1>5. SumOver(B, P) \in Nat /\ SumOver(B, P) <= SumOver(B, O)
  BY <1>1, <1>2, SumSubset
<1>6. rows'[w].balance >= SumOver(A, E) + SumOver(B, P)
  BY <1>2, <1>4, <1>5
<1> QED
  BY <1>1, <1>6

\* A credit whose entry is to come.
LEMMA BackedCredited ==
  ASSUME DeskInv, NEW w \in Wallets, NEW j \in Jobs, JobAmount' = JobAmount, UNCHANGED entries,
         EntriesOf(w)' = EntriesOf(w), Owed(w)' \subseteq Owed(w) \cup {j}, j \notin Owed(w), Job(j).amount \in Nat,
         rows'[w].balance = rows[w].balance + Job(j).amount
  PROVE  rows'[w].balance >= SumOver(EntryAmount', EntriesOf(w)') + SumOver(JobAmount', Owed(w)')
<1>1. PICK E, F, O, P, B : /\ E = EntriesOf(w) /\ F = EntryAmount
                           /\ O = Owed(w) /\ P = Owed(w)' /\ B = JobAmount
  OBVIOUS
<1>2. /\ SumOver(F, E) \in Int
      /\ IsFiniteSet(O) /\ (\A k \in O : B[k] \in Nat)
      /\ SumOver(B, O) \in Nat /\ rows[w].balance \in Nat
      /\ rows[w].balance >= SumOver(F, E) + SumOver(B, O)
  BY <1>1, DeskSums
<1>3. EntryAmount' = F
  BY <1>1 DEF EntryAmount
<1>4. B[j] = Job(j).amount /\ B[j] \in Nat
  BY <1>1 DEF JobAmount
<1>5. SumOver(B, O \cup {j}) = SumOver(B, O) + B[j]
  BY <1>1, <1>2, <1>4, SumAdd DEF IntOn
<1>6. SumOver(B, P) \in Nat /\ SumOver(B, P) <= SumOver(B, O \cup {j})
  <2>1. IsFiniteSet(O \cup {j})
    BY <1>2, FS_AddElement
  <2>2. P \in SUBSET (O \cup {j}) /\ \A k \in O \cup {j} : B[k] \in Nat
    BY <1>1, <1>2, <1>4
  <2> QED
    BY <2>1, <2>2, SumSubset
<1>7. rows'[w].balance >= SumOver(F, E) + SumOver(B, P)
  BY <1>2, <1>4, <1>5, <1>6
<1> QED
  BY <1>1, <1>3, <1>7

\* A new entry: of a credit that was owed, or with a change of the balance.
LEMMA BackedEntered ==
  ASSUME DeskInv, NEW w \in Wallets, JobAmount' = JobAmount, entries \subseteq entries',
         NEW e, e \notin EntriesOf(w), EntriesOf(w)' = EntriesOf(w) \cup {e}, e \in entries', e.amount \in Int,
         rows'[w].balance \in Nat,
         \/ /\ Owed(w)' \subseteq Owed(w)
            /\ rows'[w].balance = rows[w].balance + e.amount
         \/ \E j \in Owed(w) : /\ Owed(w)' \subseteq Owed(w) \ {j} /\ e.amount = Job(j).amount
                               /\ rows'[w].balance = rows[w].balance
  PROVE  rows'[w].balance >= SumOver(EntryAmount', EntriesOf(w)') + SumOver(JobAmount', Owed(w)')
<1>1. PICK E, F, A, O, P, B : /\ E = EntriesOf(w) /\ F = EntryAmount /\ A = EntryAmount'
                              /\ O = Owed(w) /\ P = Owed(w)' /\ B = JobAmount
  OBVIOUS
<1>2. /\ IsFiniteSet(E) /\ (\A x \in E : F[x] = x.amount /\ x.amount \in Int)
      /\ SumOver(F, E) \in Int
      /\ IsFiniteSet(O) /\ (\A j \in O : B[j] \in Nat)
      /\ SumOver(B, O) \in Nat /\ rows[w].balance \in Nat
      /\ rows[w].balance >= SumOver(F, E) + SumOver(B, O)
  BY <1>1, DeskSums
<1>3. A[e] = e.amount /\ \A x \in E : A[x] = F[x] /\ A[x] \in Int
  BY <1>1, <1>2 DEF EntriesOf, EntryAmount
<1>4. SumOver(A, E) = SumOver(F, E)
  BY <1>2, <1>3, SumEqual
<1>5. SumOver(A, E \cup {e}) = SumOver(A, E) + A[e]
  BY <1>1, <1>2, <1>3, SumAdd DEF IntOn
<1>6. CASE /\ Owed(w)' \subseteq Owed(w)
           /\ rows'[w].balance = rows[w].balance + e.amount
  <2>1. SumOver(B, P) \in Nat /\ SumOver(B, P) <= SumOver(B, O)
    BY <1>1, <1>2, <1>6, SumSubset
  <2>2. rows'[w].balance >= SumOver(A, E \cup {e}) + SumOver(B, P)
    BY <1>2, <1>3, <1>4, <1>5, <1>6, <2>1
  <2> QED
    BY <1>1, <2>2
<1>7. ASSUME NEW j \in Owed(w), Owed(w)' \subseteq Owed(w) \ {j}, e.amount = Job(j).amount, rows'[w].balance = rows[w].balance
      PROVE  rows'[w].balance >= SumOver(EntryAmount', EntriesOf(w)') + SumOver(JobAmount', Owed(w)')
  <2>1. j \in O /\ B[j] = e.amount /\ B[j] \in Nat
    BY <1>1, <1>2, <1>7 DEF JobAmount, Owed
  <2>2. SumOver(B, O) = SumOver(B, O \ {j}) + B[j]
    BY <1>2, <2>1, SumRemove DEF IntOn
  <2>3. IsFiniteSet(O \ {j}) /\ \A k \in O \ {j} : B[k] \in Nat
    BY <1>2, FS_Subset
  <2>4. SumOver(B, O \ {j}) \in Nat
    BY <2>3, SumNat
  <2>5. SumOver(B, P) \in Nat /\ SumOver(B, P) <= SumOver(B, O \ {j})
    <3>1. PICK Q : Q = O \ {j}
      OBVIOUS
    <3>2. P \in SUBSET Q /\ IsFiniteSet(Q) /\ \A k \in Q : B[k] \in Nat
      BY <1>1, <1>7, <2>3, <3>1
    <3> QED
      BY <3>1, <3>2, SumSubset
  <2>6. rows'[w].balance >= SumOver(A, E \cup {e}) + SumOver(B, P)
    BY <1>2, <1>3, <1>4, <1>5, <1>7, <2>1, <2>2, <2>4, <2>5
  <2> QED
    BY <1>1, <2>6
<1> QED
  BY <1>6, <1>7

\* A handler goes to another step.
LEMMA DeskTo ==
  ASSUME DeskInv, NEW j \in Jobs, NEW x \in {"new", "wallet", "create", "credit", "record", "generate", "done"}, To(j, x)
  PROVE  /\ desk' \in [Jobs -> AtDesk] /\ \A k \in Jobs \ {j} : desk'[k] = desk[k]
         /\ desk'[j].step = x /\ desk'[j].again = desk[j].again /\ desk'[j].wid = desk[j].wid
<1>1. desk \in [Jobs -> AtDesk] /\ desk' = [desk EXCEPT ![j] = [desk[j] EXCEPT !.step = x]]
  BY DEF To, DeskInv, DeskType
<1>2. PICK d : d = [desk[j] EXCEPT !.step = x]
  OBVIOUS
<1>3. d \in AtDesk /\ d.step = x /\ d.again = desk[j].again /\ d.wid = desk[j].wid
  BY <1>1, <1>2 DEF AtDesk
<1> QED
  BY <1>1, <1>2, <1>3

\* What a step of job j may do to wallets and jobs: no wallet changes its id, a
\* new one gets an id that no other job would make up, and no other job moves.
DeskStepOf(j) ==
  /\ rows' \in [Wallets -> WalletRows] /\ desk' \in [Jobs -> AtDesk]
  /\ \A k \in Jobs \ {j} : desk'[k] = desk[k]
  /\ \A w \in Wallets :
       /\ rows'[w].id = NoId => rows'[w] = Missing
       /\ \/ rows'[w].id = rows[w].id
          \/ /\ rows[w].id = NoId
             /\ \A k \in Jobs, b \in BOOLEAN : rows'[w].id = DepId(k, b) => w = Spot(Job(k).user)
  /\ desk'[j].step \in {"wallet", "create", "credit", "record"} => Job(j).kind = "deposit"
  /\ desk'[j].step = "generate" => Job(j).kind = "address"
  /\ Job(j).kind = "transfer" => desk'[j].step = "done"
  /\ desk'[j].step = "create" => desk'[j].wid = DepId(j, desk'[j].again)
  /\ desk'[j].step \in {"credit", "record"} =>
       rows'[Spot(Job(j).user)].id # NoId /\ desk'[j].wid \in {rows'[Spot(Job(j).user)].id, DepId(j, desk'[j].again)}

\* A step of one job leaves the ids of the wallets apart, and owes only for itself.
LEMMA DeskStepKeeps ==
  ASSUME DeskInv, [DeskNext]_deskVars, NEW j \in Jobs, DeskStepOf(j),
         \A e \in entries' \ entries : \A k \in Jobs : e.id \in {TfId(k, 1), TfId(k, 2)} => k = j /\ Job(j).kind = "transfer"
  PROVE  /\ DeskIds'
         /\ \A w \in Wallets : Owed(w)' \subseteq Owed(w) \cup {j}
         /\ \A w \in Wallets : j \in Owed(w)' =>
              desk'[j].step = "record" /\ w = Spot(Job(j).user) /\ desk'[j].wid = rows'[w].id
<1>1. /\ deskSetup' = deskSetup /\ Jobs' = Jobs /\ \A k : Job(k)' = Job(k)
  BY DeskFrame
<1>2. /\ rows \in [Wallets -> WalletRows] /\ desk \in [Jobs -> AtDesk] /\ deskSetup \in DeskSetups
      /\ \A k \in Jobs : Spot(Job(k).user) \in Wallets
  <2>1. rows \in [Wallets -> WalletRows] /\ desk \in [Jobs -> AtDesk] /\ deskSetup \in DeskSetups
    BY DEF DeskInv, DeskType
  <2> QED
    BY <2>1, DeskFacts
<1>3. \A k : Fresh(k) = DepId(k, desk[k].again) /\ Fresh(k)' = DepId(k, desk'[k].again)
  BY DEF Fresh, DepId
<1>4. ASSUME NEW w \in Wallets, NEW k \in Jobs, NEW b \in BOOLEAN, rows'[w].id = DepId(k, b) PROVE w = Spot(Job(k).user)
  BY <1>4 DEF DeskStepOf, DeskInv, DeskIds
<1>5. ASSUME NEW k \in Jobs
      PROVE  /\ desk'[k].step = "create" => desk'[k].wid = Fresh(k)'
             /\ desk'[k].step \in {"credit", "record"} =>
                  rows'[Spot(Job(k).user)].id # NoId /\ desk'[k].wid \in {rows'[Spot(Job(k).user)].id, Fresh(k)'}
  <2>1. CASE k = j
    BY <1>3, <2>1 DEF DeskStepOf
  <2>2. CASE k # j
    <3>1. desk'[k] = desk[k] /\ Fresh(k)' = Fresh(k)
      BY <1>3, <2>2 DEF DeskStepOf
    <3>2. rows[Spot(Job(k).user)].id # NoId => rows'[Spot(Job(k).user)].id = rows[Spot(Job(k).user)].id
      BY <1>2 DEF DeskStepOf
    <3> QED
      BY <3>1, <3>2 DEF DeskInv, DeskIds
  <2> QED
    BY <2>1, <2>2
<1>6. ASSUME NEW e \in entries', NEW k \in Jobs, e.id \in {TfId(k, 1), TfId(k, 2)}
      PROVE  Job(k).kind = "transfer" /\ desk'[k].step = "done"
  <2>1. CASE e \in entries
    <3>1. Job(k).kind = "transfer" /\ desk[k].step = "done"
      BY <1>6, <2>1 DEF DeskInv, DeskIds
    <3> QED
      BY <3>1 DEF DeskStepOf
  <2>2. CASE e \notin entries
    BY <1>6, <2>2 DEF DeskStepOf
  <2> QED
    BY <2>1, <2>2
<1>7. DeskIds'
  <2>1. \A w \in Wallets : rows'[w].id = NoId => rows'[w] = Missing
    BY DEF DeskStepOf
  <2> QED
    BY <1>1, <1>4, <1>5, <1>6, <2>1 DEF DeskIds
<1>8. ASSUME NEW w \in Wallets, NEW k \in Owed(w)' PROVE k = j \/ k \in Owed(w)
  <2>1. k \in Jobs /\ desk'[k].step = "record" /\ Spot(Job(k).user) = w /\ desk'[k].wid = rows'[w].id
    BY <1>1, <1>8 DEF Owed
  <2>2. CASE k # j
    <3>1. desk'[k] = desk[k]
      BY <2>1, <2>2 DEF DeskStepOf
    <3>2. rows[w].id # NoId
      BY <2>1, <3>1 DEF DeskInv, DeskIds
    <3>3. rows'[w].id = rows[w].id
      BY <3>2 DEF DeskStepOf
    <3> QED
      BY <2>1, <3>1, <3>3 DEF Owed
  <2> QED
    BY <2>2
<1>9. \A w \in Wallets : j \in Owed(w)' => desk'[j].step = "record" /\ w = Spot(Job(j).user) /\ desk'[j].wid = rows'[w].id
  BY <1>1 DEF Owed
<1> QED
  BY <1>7, <1>8, <1>9

\* A step that changes no entry and takes nothing from a wallet.
LEMMA DeskQuiet ==
  ASSUME DeskInv, [DeskNext]_deskVars, NEW j \in Jobs, DeskStepOf(j), UNCHANGED entries,
         \A w \in Wallets : rows'[w].balance >= rows[w].balance,
         desk'[j].step = "record" => desk'[j].wid # rows'[Spot(Job(j).user)].id
  PROVE  DeskType' /\ DeskIds' /\ Backed'
<1>1. /\ deskSetup' = deskSetup /\ Jobs' = Jobs /\ JobAmount' = JobAmount
      /\ WalletRows' = WalletRows /\ AtDesk' = AtDesk
      /\ \A k : Job(k)' = Job(k)
  BY DeskFrame
<1>2. DeskType'
  BY <1>1 DEF DeskInv, DeskType, DeskStepOf
<1>3. /\ DeskIds'
      /\ \A w \in Wallets : Owed(w)' \subseteq Owed(w) \cup {j}
      /\ \A w \in Wallets : j \in Owed(w)' =>
           desk'[j].step = "record" /\ w = Spot(Job(j).user) /\ desk'[j].wid = rows'[w].id
  BY DeskStepKeeps
<1>4. ASSUME NEW w \in Wallets
      PROVE  rows'[w].balance >= SumOver(EntryAmount', EntriesOf(w)') + SumOver(JobAmount', Owed(w)')
  <2>1. Owed(w)' \subseteq Owed(w) /\ EntriesOf(w)' = EntriesOf(w)
    BY <1>3 DEF EntriesOf
  <2>2. rows'[w].balance \in Nat /\ rows'[w].balance >= rows[w].balance
    BY DEF DeskStepOf, WalletRows
  <2> QED
    BY <1>1, <2>1, <2>2, BackedKept
<1> QED
  BY <1>2, <1>3, <1>4 DEF Backed

\* Addresses given out stay, when those of the wallets do.
LEMMA GivenKept ==
  ASSUME DeskInv, UNCHANGED givenOut, \A w \in Wallets : rows'[w].address = rows[w].address
  PROVE  Given'
<1>1. \A u \in DeskUsers : Spot(u) \in Wallets
  BY DeskFacts DEF DeskInv, DeskType
<1>2. \A g \in givenOut : \E u \in DeskUsers : g = <<u, rows'[Spot(u)].address>> /\ rows'[Spot(u)].address # ""
  BY <1>1 DEF DeskInv, Given
<1> QED
  BY <1>2 DEF DeskInv, Given

\* Rows and jobs as they are, for the steps that leave them so.
LEMMA DeskSame ==
  ASSUME DeskInv
  PROVE  /\ rows \in [Wallets -> WalletRows] /\ desk \in [Jobs -> AtDesk] /\ deskSetup \in DeskSetups
         /\ \A j \in Jobs : Spot(Job(j).user) \in Wallets /\ Job(j).user \in DeskUsers
         /\ \A w \in Wallets : /\ rows[w].balance >= rows[w].balance
                               /\ rows[w].id = NoId <=> rows[w] = Missing
                               /\ Exists(w) <=> rows[w].id # NoId
                               /\ rows[w] = Missing => rows[w].balance = 0 /\ rows[w].address = ""
<1>1. rows \in [Wallets -> WalletRows] /\ desk \in [Jobs -> AtDesk] /\ deskSetup \in DeskSetups
  BY DEF DeskInv, DeskType
<1>2. \A w \in Wallets : rows[w].balance \in Nat
  BY <1>1 DEF WalletRows
<1>3. Missing.id = NoId /\ Missing.balance = 0 /\ Missing.address = ""
  BY DEF Missing, NoId
<1>4. \A w \in Wallets : /\ rows[w].id = NoId <=> rows[w] = Missing
                         /\ Exists(w) <=> rows[w].id # NoId
                         /\ rows[w] = Missing => rows[w].balance = 0 /\ rows[w].address = ""
  BY <1>3 DEF DeskInv, DeskIds, Exists
<1>5. \A w \in Wallets : rows[w].balance >= rows[w].balance
  BY <1>2
<1>6. \A j \in Jobs : Spot(Job(j).user) \in Wallets /\ Job(j).user \in DeskUsers
  BY <1>1, DeskFacts
<1> QED
  BY <1>1, <1>4, <1>5, <1>6

\* The steps of a deposit before its entry, and its retry.
LEMMA DepositSteps ==
  ASSUME DeskInv, [DeskNext]_deskVars, NEW j \in Jobs,
         GetTx(j) \/ GetWallet(j) \/ SaveWallet(j) \/ DepositAgain(j)
  PROVE  DeskInv'
<1>1. /\ rows \in [Wallets -> WalletRows] /\ desk \in [Jobs -> AtDesk] /\ deskSetup \in DeskSetups
      /\ \A k \in Jobs : Spot(Job(k).user) \in Wallets
      /\ \A w \in Wallets : /\ rows[w].balance >= rows[w].balance
                            /\ rows[w].id = NoId <=> rows[w] = Missing
                            /\ Exists(w) <=> rows[w].id # NoId
                            /\ rows[w] = Missing => rows[w].balance = 0 /\ rows[w].address = ""
  BY DeskSame
<1>2. desk[j].again \in BOOLEAN /\ desk[j].wid \in WalletIds
  BY <1>1 DEF AtDesk
<1>3. Fresh(j) = DepId(j, desk[j].again)
  BY DEF Fresh, DepId
<1>4. ASSUME UNCHANGED <<rows, entries, givenOut>>, desk' \in [Jobs -> AtDesk], \A k \in Jobs \ {j} : desk'[k] = desk[k],
             Job(j).kind = "deposit", desk'[j].step \in {"new", "wallet", "create", "credit", "done"},
             desk'[j].step = "create" => desk'[j].wid = DepId(j, desk'[j].again),
             desk'[j].step = "credit" =>
               rows[Spot(Job(j).user)].id # NoId /\ desk'[j].wid \in {rows[Spot(Job(j).user)].id, DepId(j, desk'[j].again)}
      PROVE  DeskInv'
  <2>1. DeskStepOf(j)
    BY <1>1, <1>4 DEF DeskStepOf
  <2>2. DeskType' /\ DeskIds' /\ Backed'
    BY <1>1, <1>4, <2>1, DeskQuiet
  <2>3. Given'
    BY <1>4, GivenKept
  <2> QED
    BY <2>2, <2>3 DEF DeskInv
<1>5. CASE GetTx(j)
  <2>1. PICK x \in {"wallet", "done"} : To(j, x)
    BY <1>5 DEF GetTx
  <2>2. /\ desk' \in [Jobs -> AtDesk] /\ \A k \in Jobs \ {j} : desk'[k] = desk[k]
        /\ desk'[j].step = x
    BY <2>1, DeskTo
  <2> QED
    BY <1>4, <1>5, <2>2 DEF GetTx
<1>6. CASE GetWallet(j)
  <2>1. Job(j).kind = "deposit" /\ UNCHANGED <<rows, entries, givenOut>>
    BY <1>6 DEF GetWallet, DeskInv, DeskType
  <2>2. CASE Exists(Spot(Job(j).user)) /\ WithWallet(j, "credit", rows[Spot(Job(j).user)].id)
    <3>1. PICK i \in WalletIds : i = rows[Spot(Job(j).user)].id
      BY <1>1 DEF WalletRows
    <3>2. desk' = [desk EXCEPT ![j] = [step |-> "credit", again |-> desk[j].again, wid |-> i]]
      BY <1>1, <2>2, <3>1 DEF WithWallet
    <3>3. [step |-> "credit", again |-> desk[j].again, wid |-> i] \in AtDesk
      BY <1>2 DEF AtDesk
    <3>4. desk' \in [Jobs -> AtDesk] /\ desk'[j].step = "credit" /\ desk'[j].wid = i /\ \A k \in Jobs \ {j} : desk'[k] = desk[k]
      BY <1>1, <3>2, <3>3
    <3> QED
      BY <1>1, <1>4, <2>1, <2>2, <3>1, <3>4
  <2>3. CASE WithWallet(j, "create", Fresh(j))
    <3>1. PICK i \in WalletIds : i = DepId(j, desk[j].again)
      BY <1>2, IdsAre
    <3>2. desk' = [desk EXCEPT ![j] = [step |-> "create", again |-> desk[j].again, wid |-> i]]
      BY <1>1, <1>3, <2>3, <3>1 DEF WithWallet
    <3>3. [step |-> "create", again |-> desk[j].again, wid |-> i] \in AtDesk
      BY <1>2 DEF AtDesk
    <3>4. /\ desk' \in [Jobs -> AtDesk] /\ desk'[j].step = "create" /\ desk'[j].wid = i /\ desk'[j].again = desk[j].again
          /\ \A k \in Jobs \ {j} : desk'[k] = desk[k]
      BY <1>1, <3>2, <3>3
    <3> QED
      BY <1>4, <2>1, <3>1, <3>4
  <2> QED
    BY <1>6, <2>2, <2>3 DEF GetWallet
<1>7. CASE SaveWallet(j)
  <2>1. /\ Job(j).kind = "deposit" /\ UNCHANGED <<entries, givenOut>> /\ desk[j].step = "create"
        /\ desk[j].wid = DepId(j, desk[j].again)
    BY <1>3, <1>7 DEF SaveWallet, DeskInv, DeskType, DeskIds
  <2>2. CASE To(j, "done") /\ UNCHANGED rows
    <3>1. /\ desk' \in [Jobs -> AtDesk] /\ \A k \in Jobs \ {j} : desk'[k] = desk[k]
          /\ desk'[j].step = "done"
      BY <2>2, DeskTo
    <3> QED
      BY <1>4, <2>1, <2>2, <3>1
  <2>3. CASE To(j, "credit")
    <3>1. /\ desk' \in [Jobs -> AtDesk] /\ \A k \in Jobs \ {j} : desk'[k] = desk[k]
          /\ desk'[j].step = "credit" /\ desk'[j].again = desk[j].again /\ desk'[j].wid = desk[j].wid
      BY <2>3, DeskTo
    <3>2. PICK w \in Wallets : w = Spot(Job(j).user)
      BY <1>1
    <3>3. PICK i \in WalletIds : i = DepId(j, desk[j].again) /\ i # NoId /\ i = desk[j].wid
      BY <1>2, <2>1, IdsAre, IdsDiffer
    <3>4. CASE Exists(w)
      <4>1. UNCHANGED rows
        BY <1>7, <2>3, <3>1, <3>2, <3>4 DEF SaveWallet
      <4> QED
        BY <1>1, <1>4, <2>1, <3>1, <3>2, <3>4, <4>1
    <3>5. CASE ~Exists(w)
      <4>1. rows' = [rows EXCEPT ![w] = [Missing EXCEPT !.id = i]]
        <5>1. ~To(j, "done")
          BY <3>1, DeskTo
        <5> QED
          BY <1>7, <3>2, <3>3, <3>5, <5>1 DEF SaveWallet
      <4>2. PICK r : r = [Missing EXCEPT !.id = i]
        OBVIOUS
      <4>3. r = [id |-> i, balance |-> 0, address |-> ""]
        BY <4>2 DEF Missing
      <4>4. r \in WalletRows /\ r.id = i /\ r.balance = 0 /\ r.address = ""
        BY <4>3 DEF WalletRows
      <4>5. /\ rows' \in [Wallets -> WalletRows] /\ rows'[w] = r /\ \A v \in Wallets \ {w} : rows'[v] = rows[v]
        BY <1>1, <4>1, <4>2, <4>4
      <4>6. rows[w].balance = 0 /\ rows[w].address = "" /\ rows[w].id = NoId
        BY <1>1, <3>5
      <4>7. \A k \in Jobs, b \in BOOLEAN : i = DepId(k, b) => w = Spot(Job(k).user)
        <5> TAKE k \in Jobs, b \in BOOLEAN
        <5> HAVE i = DepId(k, b)
        <5>1. j = k
          <6>1. DepId(j, desk[j].again) = DepId(k, b)
            BY <3>3
          <6>2. \A x, y, z, c : DepId(x, y) = DepId(z, c) => x = z
            BY IdsDiffer
          <6> QED
            BY <6>1, <6>2
        <5> QED
          BY <3>2, <5>1
      <4>8. DeskStepOf(j)
        <5>1. \A v \in Wallets : rows'[v].id = NoId => rows'[v] = Missing
          BY <1>1, <3>3, <4>4, <4>5
        <5>2. \A v \in Wallets : \/ rows'[v].id = rows[v].id
                                 \/ /\ rows[v].id = NoId
                                    /\ \A k \in Jobs, b \in BOOLEAN : rows'[v].id = DepId(k, b) => v = Spot(Job(k).user)
          BY <4>4, <4>5, <4>6, <4>7
        <5> QED
          BY <2>1, <3>1, <3>2, <3>3, <4>4, <4>5, <5>1, <5>2 DEF DeskStepOf
      <4>9. \A v \in Wallets : rows'[v].balance >= rows[v].balance /\ rows'[v].address = rows[v].address
        BY <1>1, <4>4, <4>5, <4>6
      <4>10. DeskType' /\ DeskIds' /\ Backed'
        BY <2>1, <3>1, <4>8, <4>9, DeskQuiet
      <4>11. Given'
        BY <2>1, <4>9, GivenKept
      <4> QED
        BY <4>10, <4>11 DEF DeskInv
    <3> QED
      BY <3>4, <3>5
  <2> QED
    BY <1>7, <2>2, <2>3 DEF SaveWallet
<1>8. CASE DepositAgain(j)
  <2>1. PICK i \in WalletIds : i = NoId
    BY IdsAre
  <2>2. desk' = [desk EXCEPT ![j] = [step |-> "new", again |-> TRUE, wid |-> i]]
    BY <1>8, <2>1 DEF DepositAgain, NoId
  <2>3. [step |-> "new", again |-> TRUE, wid |-> i] \in AtDesk
    BY DEF AtDesk
  <2>4. desk' \in [Jobs -> AtDesk] /\ desk'[j].step = "new" /\ \A k \in Jobs \ {j} : desk'[k] = desk[k]
    BY <1>1, <2>2, <2>3
  <2> QED
    BY <1>4, <1>8, <2>4 DEF DepositAgain
<1> QED
  BY <1>5, <1>6, <1>7, <1>8

\* The credit: of the wallet that has the id, or of none.
LEMMA UpdateBalanceKeeps ==
  ASSUME DeskInv, [DeskNext]_deskVars, NEW j \in Jobs, UpdateBalance(j)
  PROVE  DeskInv'
<1>1. /\ rows \in [Wallets -> WalletRows] /\ desk \in [Jobs -> AtDesk] /\ deskSetup \in DeskSetups
      /\ \A k \in Jobs : Spot(Job(k).user) \in Wallets
      /\ \A w \in Wallets : /\ rows[w].balance >= rows[w].balance
                            /\ rows[w].id = NoId <=> rows[w] = Missing
  BY DeskSame
<1>2. /\ deskSetup' = deskSetup /\ Jobs' = Jobs /\ JobAmount' = JobAmount
      /\ WalletRows' = WalletRows /\ AtDesk' = AtDesk
      /\ \A k : Job(k)' = Job(k)
  BY DeskFrame
<1>3. PICK w \in Wallets : w = Spot(Job(j).user)
  BY <1>1
<1>4. /\ UNCHANGED <<entries, givenOut>> /\ desk[j].step = "credit" /\ Job(j).kind = "deposit"
      /\ rows[w].id # NoId /\ desk[j].wid \in {rows[w].id, DepId(j, desk[j].again)}
  BY <1>3 DEF UpdateBalance, DeskInv, DeskType, DeskIds, Fresh, DepId
<1>5. PICK x \in {"record", "done"} : To(j, x)
  BY DEF UpdateBalance
<1>6. /\ desk' \in [Jobs -> AtDesk] /\ \A k \in Jobs \ {j} : desk'[k] = desk[k]
      /\ desk'[j].step = x /\ desk'[j].again = desk[j].again /\ desk'[j].wid = desk[j].wid
  BY <1>5, DeskTo
<1>7. Job(j).amount \in Nat
  BY <1>1, <1>4, DeskFacts
<1>8. CASE UNCHANGED rows /\ (x = "record" => rows[w].id # desk[j].wid)
  <2>1. DeskStepOf(j)
    BY <1>1, <1>3, <1>4, <1>6, <1>8 DEF DeskStepOf
  <2>2. DeskType' /\ DeskIds' /\ Backed'
    BY <1>1, <1>3, <1>4, <1>6, <1>8, <2>1, DeskQuiet
  <2>3. Given'
    BY <1>4, <1>8, GivenKept
  <2> QED
    BY <2>2, <2>3 DEF DeskInv
<1>9. CASE rows[w].id = desk[j].wid /\ rows' = [rows EXCEPT ![w].balance = @ + Job(j).amount]
  <2>1. PICK r : r = [rows[w] EXCEPT !.balance = rows[w].balance + Job(j).amount]
    OBVIOUS
  <2>2. rows[w].balance \in Nat /\ rows[w].balance + Job(j).amount \in Nat
    <3>1. rows[w].balance \in Nat
      BY <1>1 DEF WalletRows
    <3> QED
      BY <1>7, <3>1
  <2>3. /\ r \in WalletRows /\ r.id = rows[w].id /\ r.address = rows[w].address
        /\ r.balance = rows[w].balance + Job(j).amount
    BY <1>1, <2>1, <2>2 DEF WalletRows
  <2>4. rows' \in [Wallets -> WalletRows] /\ rows'[w] = r /\ \A v \in Wallets \ {w} : rows'[v] = rows[v]
    BY <1>1, <1>9, <2>1, <2>3
  <2>5. DeskStepOf(j)
    <3>1. \A v \in Wallets : rows'[v].id = rows[v].id
      BY <2>3, <2>4
    <3>2. \A v \in Wallets : rows'[v].id = NoId => rows'[v] = Missing
      BY <1>1, <1>4, <2>3, <2>4
    <3> QED
      BY <1>3, <1>4, <1>6, <2>4, <3>1, <3>2 DEF DeskStepOf
  <2>6. DeskType'
    BY <1>2, <1>4, <2>5 DEF DeskInv, DeskType, DeskStepOf
  <2>7. /\ DeskIds'
        /\ \A v \in Wallets : Owed(v)' \subseteq Owed(v) \cup {j}
        /\ \A v \in Wallets : j \in Owed(v)' =>
             desk'[j].step = "record" /\ v = Spot(Job(j).user) /\ desk'[j].wid = rows'[v].id
    BY <1>4, <2>5, DeskStepKeeps
  <2>8. ASSUME NEW v \in Wallets
        PROVE  rows'[v].balance >= SumOver(EntryAmount', EntriesOf(v)') + SumOver(JobAmount', Owed(v)')
    <3>1. EntriesOf(v)' = EntriesOf(v) /\ j \notin Owed(v)
      BY <1>4 DEF EntriesOf, Owed
    <3>2. CASE v = w
      BY <1>2, <1>4, <1>7, <2>3, <2>4, <2>7, <3>1, <3>2, BackedCredited
    <3>3. CASE v # w
      <4>1. Owed(v)' \subseteq Owed(v)
        BY <1>3, <2>7, <3>3
      <4>2. rows'[v].balance \in Nat /\ rows'[v].balance >= rows[v].balance
        BY <1>1, <2>4, <3>3 DEF WalletRows
      <4> QED
        BY <1>2, <1>4, <3>1, <4>1, <4>2, BackedKept
    <3> QED
      BY <3>2, <3>3
  <2>9. Given'
    <3>1. \A v \in Wallets : rows'[v].address = rows[v].address
      BY <2>3, <2>4
    <3> QED
      BY <1>4, <3>1, GivenKept
  <2> QED
    BY <2>6, <2>7, <2>8, <2>9 DEF DeskInv, Backed
<1>10. (UNCHANGED rows /\ (x = "record" => rows[w].id # desk[j].wid))
       \/ (rows[w].id = desk[j].wid /\ rows' = [rows EXCEPT ![w].balance = @ + Job(j).amount])
  <2>1. CASE To(j, "record")
    <3>1. ~To(j, "done")
      BY <2>1, DeskTo
    <3> QED
      BY <1>3, <3>1 DEF UpdateBalance
  <2>2. CASE x = "done"
    BY <1>3, <2>2 DEF UpdateBalance
  <2> QED
    BY <1>5, <2>1, <2>2
<1> QED
  BY <1>8, <1>9, <1>10

\* The entry: of a credit that was made, since some wallet has the id.
LEMMA SaveTxKeeps ==
  ASSUME DeskInv, [DeskNext]_deskVars, NEW j \in Jobs, SaveTx(j)
  PROVE  DeskInv'
<1>1. /\ rows \in [Wallets -> WalletRows] /\ desk \in [Jobs -> AtDesk] /\ deskSetup \in DeskSetups
      /\ \A k \in Jobs : Spot(Job(k).user) \in Wallets
      /\ \A v \in Wallets : /\ rows[v].balance >= rows[v].balance
                            /\ rows[v].id = NoId <=> rows[v] = Missing
  BY DeskSame
<1>2. /\ deskSetup' = deskSetup /\ Jobs' = Jobs /\ JobAmount' = JobAmount
      /\ WalletRows' = WalletRows /\ AtDesk' = AtDesk
      /\ \A k : Job(k)' = Job(k)
  BY DeskFrame
<1>3. PICK w \in Wallets : w = Spot(Job(j).user)
  BY <1>1
<1>4. /\ UNCHANGED <<rows, givenOut>> /\ desk[j].step = "record" /\ Job(j).kind = "deposit"
      /\ desk[j].wid \in {rows[w].id, DepId(j, desk[j].again)}
  BY <1>3 DEF SaveTx, DeskInv, DeskType, DeskIds, Fresh, DepId
<1>5. /\ desk' \in [Jobs -> AtDesk] /\ \A k \in Jobs \ {j} : desk'[k] = desk[k]
      /\ desk'[j].step = "done"
  BY DeskTo DEF SaveTx
<1>6. Job(j).amount \in Nat /\ desk[j].again \in BOOLEAN
  BY <1>1, <1>4, DeskFacts DEF AtDesk
<1>7. DeskStepOf(j) /\ Given'
  <2>1. DeskStepOf(j)
    BY <1>1, <1>3, <1>4, <1>5 DEF DeskStepOf
  <2> QED
    BY <1>4, <2>1, GivenKept
<1>8. CASE UNCHANGED entries
  <2>1. DeskType' /\ DeskIds' /\ Backed'
    BY <1>1, <1>4, <1>5, <1>7, <1>8, DeskQuiet
  <2> QED
    BY <1>7, <2>1 DEF DeskInv
<1>9. CASE entries' # entries
  <2>1. PICK i : i = TxId(j) /\ \A k, n : i # TfId(k, n)
    <3>1. TxId(j) = DepId(j, desk[j].again) \/ \E h : TxId(j) = HashId(h)
      BY DEF TxId, Fresh, DepId, HashId
    <3> QED
      BY <3>1, IdsDiffer
  <2>2. PICK e : e = [id |-> i, owner |-> w, amount |-> Job(j).amount]
    OBVIOUS
  <2>3. e.id = i /\ e.owner = w /\ e.amount = Job(j).amount
    BY <2>2
  <2>4. KnownWallet(desk[j].wid) /\ entries' = Recorded(e)
    BY <1>3, <1>9, <2>1, <2>2 DEF SaveTx
  <2>5. e \notin entries /\ entries' = entries \cup {e}
    BY <1>9, <2>4 DEF Recorded
  <2>6. desk[j].wid = rows[w].id
    <3>1. PICK v \in Wallets : rows[v].id = desk[j].wid
      BY <1>1, <2>4 DEF KnownWallet
    <3>2. rows[v].id = DepId(j, desk[j].again) => v = w
      BY <1>3, <1>6 DEF DeskInv, DeskIds
    <3> QED
      BY <1>4, <3>1, <3>2
  <2>7. /\ DeskIds'
        /\ \A v \in Wallets : Owed(v)' \subseteq Owed(v) \cup {j}
        /\ \A v \in Wallets : j \notin Owed(v)'
    <3>1. \A f \in entries' \ entries : \A k \in Jobs : f.id \notin {TfId(k, 1), TfId(k, 2)}
      BY <2>1, <2>3, <2>5
    <3> QED
      BY <1>5, <1>7, <3>1, DeskStepKeeps
  <2>8. /\ EntriesOf(w)' = EntriesOf(w) \cup {e} /\ e \notin EntriesOf(w)
        /\ \A v \in Wallets \ {w} : EntriesOf(v)' = EntriesOf(v)
    BY <2>3, <2>5 DEF EntriesOf
  <2>9. ASSUME NEW v \in Wallets
        PROVE  rows'[v].balance >= SumOver(EntryAmount', EntriesOf(v)') + SumOver(JobAmount', Owed(v)')
    <3>1. rows'[v].balance = rows[v].balance /\ rows'[v].balance \in Nat
      BY <1>1, <1>4 DEF WalletRows
    <3>2. CASE v = w
      <4>1. j \in Owed(w) /\ Owed(w)' \subseteq Owed(w) \ {j}
        BY <1>3, <1>4, <2>6, <2>7 DEF Owed
      <4>2. rows'[w].balance = rows[w].balance /\ rows'[w].balance \in Nat /\ e.amount \in Int /\ e \in entries'
        BY <1>6, <2>3, <2>5, <3>1, <3>2
      <4> QED
        BY <1>2, <2>3, <2>5, <2>8, <3>2, <4>1, <4>2, BackedEntered
    <3>3. CASE v # w
      <4>1. Owed(v)' \subseteq Owed(v)
        BY <2>7
      <4> QED
        BY <1>1, <1>2, <2>5, <2>8, <3>1, <3>3, <4>1, BackedKept
    <3> QED
      BY <3>2, <3>3
  <2>10. DeskType'
    <3>1. \A f \in entries' : f.amount \in Int
      BY <1>6, <2>3, <2>5 DEF DeskInv, DeskType
    <3>2. \A v \in Wallets : IsFiniteSet(EntriesOf(v)')
      <4> TAKE v \in Wallets
      <4>1. IsFiniteSet(EntriesOf(v)) /\ IsFiniteSet(EntriesOf(v) \cup {e})
        BY DeskSums, FS_AddElement
      <4> QED
        BY <2>8, <4>1
    <3> QED
      BY <1>2, <1>7, <3>1, <3>2 DEF DeskInv, DeskType, DeskStepOf, EntriesOf
  <2> QED
    BY <1>7, <2>7, <2>9, <2>10 DEF DeskInv, Backed
<1> QED
  BY <1>8, <1>9

\* The address of a user is looked up, or a candidate becomes the address.
LEMMA AddressSteps ==
  ASSUME DeskInv, [DeskNext]_deskVars, NEW j \in Jobs, FindAddress(j) \/ AssignDepositAddress(j)
  PROVE  DeskInv'
<1>1. /\ rows \in [Wallets -> WalletRows] /\ desk \in [Jobs -> AtDesk] /\ deskSetup \in DeskSetups
      /\ \A k \in Jobs : Spot(Job(k).user) \in Wallets /\ Job(k).user \in DeskUsers
      /\ \A v \in Wallets : /\ rows[v].balance >= rows[v].balance
                            /\ rows[v].id = NoId <=> rows[v] = Missing
                            /\ Exists(v) <=> rows[v].id # NoId
                            /\ rows[v] = Missing => rows[v].balance = 0 /\ rows[v].address = ""
  BY DeskSame
<1>2. PICK w \in Wallets : w = Spot(Job(j).user)
  BY <1>1
<1>3. Job(j).kind = "address" /\ UNCHANGED entries
  BY DEF FindAddress, AssignDepositAddress, DeskInv, DeskType
<1>4. PICK x \in {"generate", "done"} : To(j, x)
  BY DEF FindAddress, AssignDepositAddress, Answer
<1>5. /\ desk' \in [Jobs -> AtDesk] /\ \A k \in Jobs \ {j} : desk'[k] = desk[k]
      /\ desk'[j].step = x
  BY <1>4, DeskTo
<1>6. ASSUME UNCHANGED rows PROVE DeskType' /\ DeskIds' /\ Backed'
  <2>1. DeskStepOf(j)
    BY <1>1, <1>2, <1>3, <1>5, <1>6 DEF DeskStepOf
  <2> QED
    BY <1>1, <1>3, <1>5, <1>6, <2>1, DeskQuiet
<1>7. \A u \in DeskUsers : Spot(u) \in Wallets /\ (Spot(u) = w => u = Job(j).user)
  BY <1>1, <1>2, DeskFacts, IdsDiffer
<1>8. CASE UNCHANGED <<rows, givenOut>>
  BY <1>6, <1>8, GivenKept DEF DeskInv
<1>9. CASE FindAddress(j) /\ givenOut' # givenOut
  <2>1. UNCHANGED rows /\ rows[w].address # "" /\ givenOut' = givenOut \cup {<<Job(j).user, rows[w].address>>}
    BY <1>2, <1>9 DEF FindAddress, Answer
  <2>2. Given'
    BY <1>1, <1>2, <2>1 DEF DeskInv, Given
  <2> QED
    BY <1>6, <2>1, <2>2 DEF DeskInv
<1>10. CASE AssignDepositAddress(j) /\ ~UNCHANGED <<rows, givenOut>>
  <2>1. PICK a \in GenerateAddress :
          /\ rows' = [rows EXCEPT ![w] = [id |-> IF Exists(w) THEN rows[w].id ELSE <<"addr", j>>, balance |-> rows[w].balance,
                                          address |-> IF rows[w].address = "" THEN a ELSE rows[w].address]]
          /\ \/ UNCHANGED givenOut
             \/ givenOut' = givenOut \cup {<<Job(j).user, IF rows[w].address = "" THEN a ELSE rows[w].address>>}
    BY <1>1, <1>2, <1>10 DEF AssignDepositAddress, Answer, AnswerOf
  <2>2. PICK i \in WalletIds : i = IF Exists(w) THEN rows[w].id ELSE AddrId(j)
    BY <1>1, IdsAre DEF WalletRows
  <2>3. a \in Addresses /\ a # "" /\ \A v \in Wallets : rows[v].address # a
    BY <1>1, <2>1, DeskFacts DEF GenerateAddress
  <2>4. PICK s : s = IF rows[w].address = "" THEN a ELSE rows[w].address
    OBVIOUS
  <2>5. s \in Addresses /\ s # "" /\ (rows[w].address # "" => s = rows[w].address)
    BY <1>1, <2>3, <2>4 DEF WalletRows
  <2>6. PICK b \in Nat : b = rows[w].balance
    BY <1>1 DEF WalletRows
  <2>7. PICK r : r = [id |-> i, balance |-> b, address |-> s]
    OBVIOUS
  <2>8. rows' = [rows EXCEPT ![w] = r]
    BY <2>1, <2>2, <2>4, <2>6, <2>7 DEF AddrId
  <2>9. r \in WalletRows /\ r.id = i /\ r.balance = rows[w].balance /\ r.address = s
    BY <2>5, <2>6, <2>7 DEF WalletRows
  <2>10. rows' \in [Wallets -> WalletRows] /\ rows'[w] = r /\ \A v \in Wallets \ {w} : rows'[v] = rows[v]
    BY <1>1, <2>8, <2>9
  <2>11. /\ i # NoId /\ (i = rows[w].id \/ rows[w].id = NoId)
         /\ rows[w].id = NoId => \A k, d : i # DepId(k, d)
    <3>1. AddrId(j) # NoId /\ \A k, d : AddrId(j) # DepId(k, d)
      BY IdsDiffer
    <3> QED
      BY <1>1, <2>2, <3>1
  <2>12. DeskStepOf(j)
    <3>1. \A v \in Wallets : rows'[v].id = NoId => rows'[v] = Missing
      BY <1>1, <2>9, <2>10, <2>11
    <3>2. \A v \in Wallets : \/ rows'[v].id = rows[v].id
                             \/ /\ rows[v].id = NoId
                                /\ \A k \in Jobs, d \in BOOLEAN : rows'[v].id = DepId(k, d) => v = Spot(Job(k).user)
      BY <2>9, <2>10, <2>11
    <3> QED
      BY <1>3, <1>5, <2>10, <3>1, <3>2 DEF DeskStepOf
  <2>13. \A v \in Wallets : rows'[v].balance >= rows[v].balance
    BY <1>1, <2>9, <2>10
  <2>14. DeskType' /\ DeskIds' /\ Backed'
    BY <1>3, <1>5, <2>12, <2>13, DeskQuiet
  <2>15. \A v \in Wallets : rows[v].address # "" => rows'[v].address = rows[v].address
    BY <2>5, <2>9, <2>10
  <2>16. \A g \in givenOut' : \E u \in DeskUsers : g = <<u, rows'[Spot(u)].address>> /\ rows'[Spot(u)].address # ""
    <3>1. \A g \in givenOut : \E u \in DeskUsers : g = <<u, rows'[Spot(u)].address>> /\ rows'[Spot(u)].address # ""
      BY <1>7, <2>15 DEF DeskInv, Given
    <3>2. rows'[Spot(Job(j).user)].address = s /\ Job(j).user \in DeskUsers
      BY <1>1, <1>2, <2>9, <2>10
    <3> QED
      BY <2>1, <2>4, <2>5, <3>1, <3>2
  <2>17. \A u, v \in Wallets : rows'[u].address = rows'[v].address /\ rows'[v].address # "" => u = v
    <3>1. \A v \in Wallets \ {w} : rows'[v].address # s
      <4>1. CASE rows[w].address = ""
        BY <2>3, <2>4, <2>10, <4>1
      <4>2. CASE rows[w].address # ""
        BY <2>5, <2>10, <4>2 DEF DeskInv, Given
      <4> QED
        BY <4>1, <4>2
    <3> QED
      <4> TAKE u, v \in Wallets
      <4>1. CASE u = w \/ v = w
        BY <2>9, <2>10, <3>1, <4>1
      <4>2. CASE u # w /\ v # w
        BY <2>10, <4>2 DEF DeskInv, Given
      <4> QED
        BY <4>1, <4>2
  <2> QED
    BY <2>14, <2>16, <2>17 DEF DeskInv, Given
<1> QED
  BY <1>8, <1>9, <1>10 DEF FindAddress

\* The gateway's death: no credit waits for its entry any longer.
LEMMA DeskDiesKeeps ==
  ASSUME DeskInv, [DeskNext]_deskVars, DeskDies
  PROVE  DeskInv'
<1>1. /\ deskSetup' = deskSetup /\ Jobs' = Jobs /\ JobAmount' = JobAmount
      /\ WalletRows' = WalletRows /\ AtDesk' = AtDesk
      /\ \A k : Job(k)' = Job(k)
  BY DeskFrame
<1>2. /\ rows \in [Wallets -> WalletRows] /\ desk \in [Jobs -> AtDesk]
      /\ UNCHANGED <<rows, entries, givenOut>>
      /\ desk' = [j \in Jobs |-> IF desk[j].step = "new" THEN desk[j] ELSE [desk[j] EXCEPT !.step = "done"]]
  BY DEF DeskDies, DeskInv, DeskType
<1>3. ASSUME NEW j \in Jobs PROVE desk'[j] \in AtDesk /\ desk'[j].step \in {"new", "done"} /\ (desk[j].step = "done" => desk'[j].step = "done")
  <2>1. PICK d : d = [desk[j] EXCEPT !.step = "done"]
    OBVIOUS
  <2>2. d \in AtDesk /\ d.step = "done"
    BY <1>2, <2>1 DEF AtDesk
  <2> QED
    BY <1>2, <2>1, <2>2
<1>4. DeskType'
  <2>1. desk' \in [Jobs -> AtDesk]
    BY <1>2, <1>3
  <2> QED
    BY <1>1, <1>2, <1>3, <2>1 DEF DeskInv, DeskType
<1>5. DeskIds'
  <2>1. \A e \in entries, j \in Jobs : e.id \in {TfId(j, 1), TfId(j, 2)} => Job(j).kind = "transfer" /\ desk'[j].step = "done"
    BY <1>3 DEF DeskInv, DeskIds
  <2>2. \A w \in Wallets, j \in Jobs, b \in BOOLEAN : rows[w].id = DepId(j, b) => w = Spot(Job(j).user)
    BY DEF DeskInv, DeskIds
  <2>3. \A w \in Wallets : rows[w].id = NoId => rows[w] = Missing
    BY DEF DeskInv, DeskIds
  <2> QED
    BY <1>1, <1>2, <1>3, <2>1, <2>2, <2>3 DEF DeskIds
<1>6. ASSUME NEW w \in Wallets
      PROVE  rows'[w].balance >= SumOver(EntryAmount', EntriesOf(w)') + SumOver(JobAmount', Owed(w)')
  <2>1. EntriesOf(w)' = EntriesOf(w) /\ Owed(w)' \subseteq Owed(w)
    BY <1>1, <1>2, <1>3 DEF EntriesOf, Owed
  <2>2. rows'[w].balance \in Nat /\ rows'[w].balance >= rows[w].balance
    BY <1>2, DeskSums
  <2> QED
    BY <1>1, <1>2, <2>1, <2>2, BackedKept
<1>7. Given'
  BY <1>2, GivenKept
<1> QED
  BY <1>4, <1>5, <1>6, <1>7 DEF DeskInv, Backed

\* A transfer: what one wallet gives the other gets, and each has its entry.
LEMMA TransferKeeps ==
  ASSUME DeskInv, [DeskNext]_deskVars, NEW j \in Jobs, Transfer(j)
  PROVE  DeskInv'
<1>1. /\ rows \in [Wallets -> WalletRows] /\ desk \in [Jobs -> AtDesk] /\ deskSetup \in DeskSetups
      /\ \A k \in Jobs : Spot(Job(k).user) \in Wallets /\ Job(k).user \in DeskUsers
      /\ \A v \in Wallets : /\ rows[v].balance >= rows[v].balance
                            /\ rows[v].id = NoId <=> rows[v] = Missing
                            /\ Exists(v) <=> rows[v].id # NoId
                            /\ rows[v] = Missing => rows[v].balance = 0 /\ rows[v].address = ""
  BY DeskSame
<1>2. /\ deskSetup' = deskSetup /\ Jobs' = Jobs /\ JobAmount' = JobAmount
      /\ WalletRows' = WalletRows /\ AtDesk' = AtDesk
      /\ \A k : Job(k)' = Job(k)
  BY DeskFrame
<1>3. /\ desk[j].step = "new" /\ Job(j).kind = "transfer" /\ UNCHANGED givenOut
      /\ desk' \in [Jobs -> AtDesk] /\ (\A k \in Jobs \ {j} : desk'[k] = desk[k])
      /\ desk'[j].step = "done"
  BY DeskTo DEF Transfer
<1>4. PICK x \in Nat : x = Job(j).amount
  BY <1>1, <1>3, DeskFacts
<1>5. CASE UNCHANGED <<rows, entries>>
  <2>1. DeskStepOf(j)
    BY <1>1, <1>3, <1>5 DEF DeskStepOf
  <2>2. DeskType' /\ DeskIds' /\ Backed'
    BY <1>1, <1>3, <1>5, <2>1, DeskQuiet
  <2> QED
    BY <1>3, <1>5, <2>2, GivenKept DEF DeskInv
<1>6. CASE ~UNCHANGED <<rows, entries>>
  <2> DEFINE from == <<Job(j).user, Job(j).from>>
             to   == <<Job(j).user, Job(j).to>>
             made == [w \in DOMAIN rows |-> IF w \in {from, to} /\ ~Exists(w)
                                            THEN [Missing EXCEPT !.id = <<"set", w, j>>] ELSE rows[w]]
             gain(w) == IF w = to THEN Job(j).amount ELSE IF w = from THEN -Job(j).amount ELSE 0
             e1 == [id |-> <<"tf", j, 1>>, owner |-> from, amount |-> -Job(j).amount]
             e2 == [id |-> <<"tf", j, 2>>, owner |-> to, amount |-> Job(j).amount]
  <2>1. /\ ~TransferRefused(j) /\ rows[from].balance >= Job(j).amount
        /\ rows' = [w \in DOMAIN rows |-> [made[w] EXCEPT !.balance = @ + gain(w)]]
        /\ entries' = entries \cup {e1, e2}
    BY <1>6 DEF Transfer
  <2>2. from \in Wallets /\ to \in Wallets /\ from # to
    <3>1. Job(j).from \in DeskAccounts /\ Job(j).to \in DeskAccounts /\ Job(j).from # Job(j).to
      BY <2>1 DEF TransferRefused
    <3>2. from[2] = Job(j).from /\ to[2] = Job(j).to
      OBVIOUS
    <3> QED
      BY <1>1, <3>1, <3>2 DEF Wallets
  <2>3. /\ e1.id = TfId(j, 1) /\ e1.owner = from /\ e1.amount = -x
        /\ e2.id = TfId(j, 2) /\ e2.owner = to /\ e2.amount = x
    BY <1>4 DEF TfId
  <2>4. e1 \notin entries /\ e2 \notin entries
    BY <1>3, <2>3 DEF DeskInv, DeskIds
  <2>5. rows[from].balance >= x
    BY <1>4, <2>1
  <2>6. ASSUME NEW w \in Wallets
        PROVE  /\ rows'[w] \in WalletRows /\ rows'[w].address = rows[w].address
               /\ rows'[w].balance = rows[w].balance + gain(w)
               /\ rows'[w].id = rows[w].id \/ (rows[w].id = NoId /\ rows'[w].id = SetId(w, j))
               /\ rows'[w].id = NoId => rows'[w] = Missing
    <3>1. PICK q \in WalletRows : q = rows[w]
      BY <1>1
    <3>2. PICK i, b, a : i = q.id /\ b = q.balance /\ a = q.address
      OBVIOUS
    <3>3. /\ q = [id |-> i, balance |-> b, address |-> a]
          /\ i \in WalletIds /\ b \in Nat /\ a \in Addresses \cup {""}
      BY <3>1, <3>2 DEF WalletRows
    <3>4. rows[w].id = i /\ rows[w].balance = b /\ rows[w].address = a
      BY <3>1, <3>2
    <3>0. b \in Nat
      BY <3>3
    <3>5. PICK g : g = gain(w)
      OBVIOUS
    <3>6. /\ g \in Int /\ b + g \in Nat /\ (w \notin {from, to} => g = 0)
      <4>1. w = to => g = x
        BY <1>4, <3>5
      <4>2. w = from => g = -x
        BY <1>4, <2>2, <3>5
      <4>3. w \notin {from, to} => g = 0
        BY <3>5
      <4>4. w = from => b >= x
        BY <2>5, <3>4
      <4> HIDE DEF from, to, gain, made, e1, e2
      <4>5. CASE w = to
        BY <3>0, <4>1, <4>5
      <4>6. CASE w = from
        BY <2>2, <3>0, <4>2, <4>4, <4>6
      <4>7. CASE w \notin {from, to}
        BY <3>0, <4>3, <4>7
      <4> QED
        BY <4>5, <4>6, <4>7
    <3>7. PICK s : s = SetId(w, j)
      OBVIOUS
    <3>8. s \in WalletIds
      BY <3>7, IdsAre
    <3>9. s # NoId
      <4>1. \A v, k : SetId(v, k) # NoId
        BY IdsDiffer
      <4> QED
        BY <3>7, <4>1
    <3>10. PICK k : k = IF w \in {from, to} /\ ~Exists(w) THEN s ELSE i
      OBVIOUS
    <3>11. k \in WalletIds
      BY <3>3, <3>8, <3>10
    <3>12. PICK m : m = made[w]
      OBVIOUS
    <3>13. m = [id |-> k, balance |-> b, address |-> a]
      <4>1. CASE w \in {from, to} /\ ~Exists(w)
        <5>1. m = [Missing EXCEPT !.id = s]
          BY <1>1, <3>7, <3>12, <4>1 DEF SetId
        <5>2. m = [id |-> s, balance |-> 0, address |-> ""]
          BY <5>1 DEF Missing
        <5>3. b = 0 /\ a = ""
          BY <1>1, <3>4, <4>1
        <5> QED
          BY <3>10, <4>1, <5>2, <5>3
      <4>2. CASE ~(w \in {from, to} /\ ~Exists(w))
        <5>1. m = q
          BY <1>1, <3>1, <3>12, <4>2
        <5>2. k = i
          BY <3>10, <4>2
        <5> QED
          BY <3>3, <5>1, <5>2
      <4> QED
        BY <4>1, <4>2
    <3>14. PICK r : r = rows'[w]
      OBVIOUS
    <3>15. r = [m EXCEPT !.balance = m.balance + g]
      <4>1. DOMAIN rows = Wallets
        BY <1>1
      <4> HIDE DEF made, gain
      <4> QED
        BY <2>1, <3>5, <3>12, <3>14, <4>1
    <3>16. r = [id |-> k, balance |-> b + g, address |-> a]
      BY <3>13, <3>15
    <3>17. r \in WalletRows /\ r.id = k /\ r.balance = b + g /\ r.address = a
      BY <3>3, <3>6, <3>11, <3>16 DEF WalletRows
    <3> HIDE DEF from, to, made, e1, e2
    <3>18. k = i \/ (i = NoId /\ k = s)
      BY <1>1, <3>4, <3>10
    <3>19. k = NoId => r = Missing
      <4> SUFFICES ASSUME k = NoId PROVE r = Missing
        OBVIOUS
      <4>1. i = NoId /\ k = i
        BY <3>9, <3>18
      <4>2. ~Exists(w) /\ rows[w] = Missing
        BY <1>1, <3>4, <4>1
      <4>3. w \notin {from, to}
        BY <3>9, <3>10, <4>2
      <4>4. g = 0
        BY <3>6, <4>3
      <4>5. b + g = b
        BY <3>0, <4>4
      <4>6. r = q
        BY <3>3, <3>16, <4>1, <4>5
      <4> QED
        BY <3>1, <4>2, <4>6
    <3> HIDE DEF gain
    <3>20. r.balance = rows[w].balance + gain(w) /\ r.address = rows[w].address
      BY <3>4, <3>5, <3>17
    <3>21. r.id = rows[w].id \/ (rows[w].id = NoId /\ r.id = SetId(w, j))
      BY <3>4, <3>7, <3>17, <3>18
    <3> QED
      BY <3>14, <3>17, <3>19, <3>20, <3>21
  <2>7. DeskStepOf(j) /\ Given'
    <3>1. rows' \in [Wallets -> WalletRows]
      <4>1. DOMAIN rows = Wallets
        BY <1>1
      <4>2. rows' = [w \in Wallets |-> rows'[w]]
        BY <2>1, <4>1
      <4> HIDE DEF from, to, made, gain
      <4> QED
        BY <2>6, <4>2
    <3> HIDE DEF from, to, made, gain, e1, e2
    <3>2. \A w, k, b : SetId(w, j) # DepId(k, b)
      BY IdsDiffer
    <3>3. DeskStepOf(j)
      BY <1>3, <2>6, <3>1, <3>2 DEF DeskStepOf
    <3> QED
      BY <1>3, <2>6, <3>3, GivenKept
  <2>8. /\ gain(from) = -x /\ gain(to) = x /\ \A w \in Wallets \ {from, to} : gain(w) = 0
    BY <1>4, <2>2
  <2> HIDE DEF from, to, made, gain, e1, e2
  <2>9. /\ DeskIds' /\ \A w \in Wallets : Owed(w)' \subseteq Owed(w)
    <3>1. \A e \in entries' \ entries : \A k \in Jobs : e.id \in {TfId(k, 1), TfId(k, 2)} => k = j /\ Job(j).kind = "transfer"
      <4>1. \A n, k, m : TfId(j, n) = TfId(k, m) => k = j
        BY IdsDiffer
      <4> QED
        BY <1>3, <2>1, <2>3, <4>1
    <3> QED
      BY <1>3, <2>7, <3>1, DeskStepKeeps
  <2>10. ASSUME NEW w \in Wallets
         PROVE  /\ w = from => EntriesOf(w)' = EntriesOf(w) \cup {e1} /\ e1 \notin EntriesOf(w)
                /\ w = to => EntriesOf(w)' = EntriesOf(w) \cup {e2} /\ e2 \notin EntriesOf(w)
                /\ w \notin {from, to} => EntriesOf(w)' = EntriesOf(w)
    <3>1. \A f : f \in entries' <=> f \in entries \/ f = e1 \/ f = e2
      BY <2>1
    <3>2. CASE w = from
      BY <2>2, <2>3, <2>4, <3>1, <3>2 DEF EntriesOf
    <3>3. CASE w = to
      BY <2>2, <2>3, <2>4, <3>1, <3>3 DEF EntriesOf
    <3>4. CASE w \notin {from, to}
      BY <2>3, <3>1, <3>4 DEF EntriesOf
    <3> QED
      BY <2>2, <3>2, <3>3, <3>4
  <2>11. e1.amount \in Int /\ e2.amount \in Int
    BY <2>3
  <2>12. ASSUME NEW w \in Wallets
         PROVE  rows'[w].balance >= SumOver(EntryAmount', EntriesOf(w)') + SumOver(JobAmount', Owed(w)')
    <3>1. rows'[w].balance \in Nat /\ rows[w].balance \in Nat
      BY <1>1, <2>6 DEF WalletRows
    <3>2. CASE w = from
      <4>1. rows'[w].balance = rows[w].balance + e1.amount
        BY <2>3, <2>6, <2>8, <3>2
      <4>2. PICK e : e = e1
        OBVIOUS
      <4>3. /\ e \notin EntriesOf(w) /\ EntriesOf(w)' = EntriesOf(w) \cup {e} /\ e.amount \in Int
            /\ rows'[w].balance = rows[w].balance + e.amount
        BY <2>10, <2>11, <3>2, <4>1, <4>2
      <4>4. e \in entries' /\ entries \subseteq entries' /\ Owed(w)' \subseteq Owed(w)
        BY <2>1, <2>9, <4>2
      <4> QED
        BY <1>2, <3>1, <4>3, <4>4, BackedEntered
    <3>3. CASE w = to
      <4>1. rows'[w].balance = rows[w].balance + e2.amount
        BY <2>3, <2>6, <2>8, <3>3
      <4>2. PICK e : e = e2
        OBVIOUS
      <4>3. /\ e \notin EntriesOf(w) /\ EntriesOf(w)' = EntriesOf(w) \cup {e} /\ e.amount \in Int
            /\ rows'[w].balance = rows[w].balance + e.amount
        BY <2>10, <2>11, <3>3, <4>1, <4>2
      <4>4. e \in entries' /\ entries \subseteq entries' /\ Owed(w)' \subseteq Owed(w)
        BY <2>1, <2>9, <4>2
      <4> QED
        BY <1>2, <3>1, <4>3, <4>4, BackedEntered
    <3>4. CASE w \notin {from, to}
      <4>1. rows'[w].balance >= rows[w].balance
        BY <2>6, <2>8, <3>1, <3>4
      <4> QED
        BY <1>2, <2>1, <2>9, <2>10, <3>1, <3>4, <4>1, BackedKept
    <3> QED
      BY <3>2, <3>3, <3>4
  <2>13. DeskType'
    <3>1. \A f \in entries' : f.amount \in Int
      BY <2>1, <2>11 DEF DeskInv, DeskType
    <3>2. \A v \in Wallets : IsFiniteSet(EntriesOf(v)')
      <4> TAKE v \in Wallets
      <4>1. IsFiniteSet(EntriesOf(v)) /\ IsFiniteSet(EntriesOf(v) \cup {e1}) /\ IsFiniteSet(EntriesOf(v) \cup {e2})
        BY DeskSums, FS_AddElement
      <4>2. CASE v = from
        BY <2>10, <4>1, <4>2
      <4>3. CASE v = to
        BY <2>10, <4>1, <4>3
      <4>4. CASE v \notin {from, to}
        BY <2>10, <4>1, <4>4
      <4> QED
        BY <4>2, <4>3, <4>4
    <3> QED
      BY <1>2, <2>7, <3>1, <3>2 DEF DeskInv, DeskType, DeskStepOf, EntriesOf
  <2> QED
    BY <2>7, <2>9, <2>12, <2>13 DEF DeskInv, Backed
<1> QED
  BY <1>5, <1>6

\* Every step of a deposit, a question for an address or a transfer keeps the
\* invariant.
LEMMA DeskNextKeeps == DeskInv /\ [DeskNext]_deskVars => DeskInv'
<1> SUFFICES ASSUME DeskInv, [DeskNext]_deskVars PROVE DeskInv'
  OBVIOUS
<1>1. CASE UNCHANGED deskVars
  <2>1. UNCHANGED <<deskSetup, rows, entries, desk, givenOut>>
    BY <1>1 DEF deskVars
  <2>2. UNCHANGED <<Jobs, WalletIds, JobAmount, EntryAmount>> /\ \A j : Job(j)' = Job(j)
    BY <2>1 DEF Jobs, Job, WalletIds, JobAmount, EntryAmount
  <2>3. DeskType' /\ DeskIds' /\ Given'
    <3>1. DeskType'
      BY <2>1, <2>2 DEF DeskInv, DeskType, WalletRows, AtDesk
    <3>2. \A j : Fresh(j)' = Fresh(j)
      BY <2>1 DEF Fresh
    <3>3. DeskIds'
      BY <2>1, <2>2, <3>2 DEF DeskInv, DeskIds
    <3>4. Given'
      BY <2>1 DEF DeskInv, Given
    <3> QED
      BY <3>1, <3>3, <3>4
  <2>4. Backed'
    <3>1. \A w : EntriesOf(w)' = EntriesOf(w) /\ Owed(w)' = Owed(w)
      BY <2>1, <2>2 DEF EntriesOf, Owed
    <3> QED
      BY <2>1, <2>2, <3>1 DEF DeskInv, Backed
  <2> QED
    BY <2>3, <2>4 DEF DeskInv
<1>2. CASE DeskDies
  BY <1>2, DeskDiesKeeps
<1>3. ASSUME NEW j \in Jobs, GetTx(j) \/ GetWallet(j) \/ SaveWallet(j) \/ DepositAgain(j) PROVE DeskInv'
  BY <1>3, DepositSteps
<1>4. ASSUME NEW j \in Jobs, UpdateBalance(j) \/ SaveTx(j) PROVE DeskInv'
  BY <1>4, UpdateBalanceKeeps, SaveTxKeeps
<1>5. ASSUME NEW j \in Jobs, FindAddress(j) \/ AssignDepositAddress(j) \/ Transfer(j) PROVE DeskInv'
  BY <1>5, AddressSteps, TransferKeeps
<1> QED
  BY <1>1, <1>2, <1>3, <1>4, <1>5 DEF DeskNext

\* For any users, accounts and jobs: what the ledger says is in the wallets, in
\* whatever order deposits, transfers, failures and deaths come, and no balance
\* is negative (Service.Deposit, Service.Transfer).
THEOREM DeskLedgerBacked == DeskSpec => []LedgerBacked
<1>1. DeskInv => LedgerBacked
  <2> SUFFICES ASSUME DeskInv, NEW w \in DOMAIN rows
      PROVE  /\ rows[w].balance >= 0
             /\ rows[w].balance >= MapThenSumSet(LAMBDA e : EntryAmount[e], {e \in entries : e.owner = w})
    BY DEF LedgerBacked
  <2>1. w \in Wallets
    BY DEF DeskInv, DeskType
  <2>2. /\ SumOver(EntryAmount, EntriesOf(w)) \in Int /\ SumOver(JobAmount, Owed(w)) \in Nat
        /\ rows[w].balance \in Nat
        /\ rows[w].balance >= SumOver(EntryAmount, EntriesOf(w)) + SumOver(JobAmount, Owed(w))
    BY <2>1, DeskSums
  <2>3. rows[w].balance >= SumOver(EntryAmount, EntriesOf(w)) /\ rows[w].balance >= 0
    BY <2>2
  <2> QED
    BY <2>3 DEF SumOver, EntriesOf
<1> QED
  BY <1>1, DeskStart, DeskNextKeeps, PTL DEF DeskSpec

\* For any users and any addresses that generation may return: an address once
\* given to a user stays that user's and is nobody else's
\* (GetDepositAddress, AssignDepositAddress).
THEOREM DeskAddressKept == DeskSpec => []AddressKept
<1>1. DeskInv => AddressKept
  <2> SUFFICES ASSUME DeskInv, NEW g \in givenOut
      PROVE  /\ rows[Spot(g[1])].address = g[2]
             /\ \A h \in givenOut : h[2] = g[2] => h[1] = g[1]
    BY DEF AddressKept
  <2>1. PICK u \in DeskUsers : g = <<u, rows[Spot(u)].address>> /\ rows[Spot(u)].address # ""
    BY DEF DeskInv, Given
  <2>2. g[1] = u /\ g[2] = rows[Spot(u)].address
    BY <2>1
  <2>3. ASSUME NEW h \in givenOut, h[2] = g[2] PROVE h[1] = g[1]
    <3>1. PICK v \in DeskUsers : h = <<v, rows[Spot(v)].address>>
      BY DEF DeskInv, Given
    <3>2. h[1] = v /\ h[2] = rows[Spot(v)].address
      BY <3>1
    <3>3. Spot(u) \in Wallets /\ Spot(v) \in Wallets
      BY DeskFacts DEF DeskInv, DeskType
    <3>4. Spot(u) = Spot(v)
      BY <2>1, <2>2, <2>3, <3>2, <3>3 DEF DeskInv, Given
    <3> QED
      BY <2>2, <3>2, <3>4, IdsDiffer
  <2> QED
    BY <2>2, <2>3
<1> QED
  BY <1>1, DeskStart, DeskNextKeeps, PTL DEF DeskSpec
-----------------------------------------------------------------------------
(***************************************************************************)
(* The addresses a user may withdraw to.  An address at a gateway is one   *)
(* thing whatever store is wired: a change of one spelling at one gateway  *)
(* touches every spelling at every gateway its store reaches.  What was    *)
(* last said of an address is so as long as nobody amends it; the answer   *)
(* of a request that nobody overlapped is what its store then holds.       *)
(***************************************************************************)
Words == {"in", "out", "unknown"}
Calls == [step : {"add", "remove", "in", "out", "unknown"}, by : BookGateways, address : Spellings, alone : BOOLEAN]
Requests == [step : {"asked", "passed", "not_whitelisted", "failed"}, by : BookGateways, address : Spellings, met : SUBSET Words]

BookType ==
  /\ bookSetup \in BookSetups
  /\ book \in [BookGateways -> Seq(Spellings)]
  /\ amending \in [BookAdmins -> {NoCall} \cup Calls]
  /\ payout \in [BookPayouts -> {NoCall} \cup Requests]
  /\ word \in [BookGateways -> [Spellings -> Words]]

\* A change of s at g is one of t at h.
Touches(g, s, h, t) == h \in Reach(g) /\ Same(s, t)
Amends(a, g, s) == amending[a] # NoCall /\ Touches(amending[a].by, amending[a].address, g, s)
Alone(a, g, s) == amending[a] # NoCall /\ amending[a].alone /\ amending[a].by = g /\ amending[a].address = s

\* A list, in the memory of a gateway: what it holds, and once each.
Listed(l, s) == \E i \in 1..Len(l) : Same(s, l[i])
Once(l) == \A i, k \in 1..Len(l) : Same(l[i], l[k]) => i = k
First(l, s) == SelectInSeq(l, LAMBDA t : Same(s, t))

BookTold ==
  /\ \A g \in BookGateways, s \in Spellings :
       /\ word[g][s] = "in" => Whitelisted(g, s)
       /\ word[g][s] = "out" => ~Whitelisted(g, s)
       /\ word[g][s] # "unknown" => \A a \in BookAdmins : ~Amends(a, g, s)
  /\ \A a \in BookAdmins, g \in BookGateways, s \in Spellings : Alone(a, g, s) =>
       /\ amending[a].step = "in" => Whitelisted(g, s)
       /\ amending[a].step = "out" => ~Whitelisted(g, s)
       /\ \A b \in BookAdmins \ {a} : ~Amends(b, g, s)

BookMet ==
  \A p \in BookPayouts :
    /\ payout[p].step = "asked" => word[payout[p].by][payout[p].address] \in payout[p].met
    /\ payout[p].step = "passed" => payout[p].met # {"out"}
    /\ payout[p].step = "not_whitelisted" => payout[p].met # {"in"}

BookInv == BookType /\ (\A g \in BookGateways : Once(book[g])) /\ BookTold /\ BookMet

\* The store that reaches a gateway (Service with and without a database), and
\* what EqualFold looks for.
LEMMA TouchesAlike ==
  ASSUME NEW g \in BookGateways, NEW s \in Spellings, NEW h \in BookGateways, NEW t \in Spellings,
         NEW k \in BookGateways, NEW u \in Spellings
  PROVE  /\ Touches(g, s, g, s)
         /\ Touches(g, s, h, t) => Touches(h, t, g, s)
         /\ Touches(g, s, h, t) /\ Touches(h, t, k, u) => Touches(g, s, k, u)
  BY DEF Touches, Reach, Same

\* EqualFold: the first entry of a list that spells an address, if there is one.
LEMMA FirstFinds ==
  ASSUME NEW l \in Seq(Spellings), NEW s
  PROVE  /\ First(l, s) # 0 <=> Listed(l, s)
         /\ First(l, s) # 0 => First(l, s) \in 1..Len(l) /\ Same(s, l[First(l, s)])
<1> DEFINE I == {i \in 1..Len(l) : Same(s, l[i])}
<1>1. First(l, s) = IF I # {} THEN Min(I) ELSE 0
  BY DEF First, SelectInSeq
<1>2. Len(l) \in Nat /\ I \subseteq 1..Len(l) /\ I \subseteq Nat \ {0}
  OBVIOUS
<1>3. CASE I # {}
  <2> DEFINE R == {r \in Nat \X Nat : r[1] < r[2]}
  <2>1. IsFiniteSet(I)
    <3>1. IsFiniteSet(1..Len(l))
      BY <1>2, FS_Interval
    <3> QED
      BY <1>2, <3>1, FS_Subset
  <2>2. \A x, y \in Nat : <<x, y>> \in R <=> x < y
    OBVIOUS
  <2> HIDE DEF I, R
  <2>3. \E m \in I : \A n \in I \ {m} : <<m, n>> \in R
    <3>1. \A x, y \in I : x # y => <<x, y>> \in R \/ <<y, x>> \in R
      BY <1>2, <2>2
    <3>2. \A x, y, z \in I : <<x, y>> \in R /\ <<y, z>> \in R => <<x, z>> \in R
      BY <1>2, <2>2
    <3> QED
      BY <1>3, <2>1, <3>1, <3>2, LeastExists
  <2>4. \E m \in I : \A n \in I : m <= n
    <3>1. PICK m \in I : \A n \in I \ {m} : <<m, n>> \in R
      BY <2>3
    <3>2. m \in Nat /\ \A n \in I \ {m} : n \in Nat /\ m < n
      BY <1>2, <2>2, <3>1
    <3>3. \A n \in I : m <= n
      BY <3>2
    <3> QED
      BY <3>3
  <2>5. Min(I) \in I
    BY <2>4 DEF Min
  <2>6. First(l, s) \in I /\ First(l, s) # 0
    BY <1>1, <1>2, <1>3, <2>5
  <2> QED
    BY <2>6 DEF I, Listed
<1>4. CASE I = {}
  BY <1>1, <1>4 DEF Listed
<1> QED
  BY <1>3, <1>4

\* AddAddress without a database: the list holds the address, once, too.
LEMMA ListAdds ==
  ASSUME NEW l \in Seq(Spellings), NEW s \in Spellings, Once(l), NEW n,
         First(l, s) # 0 => n = l, First(l, s) = 0 => n = Append(l, s)
  PROVE  /\ n \in Seq(Spellings) /\ Once(n)
         /\ \A t \in Spellings : First(n, t) # 0 <=> First(l, t) # 0 \/ Same(s, t)
<1>1. n \in Seq(Spellings)
  <2>1. Append(l, s) \in Seq(Spellings)
    OBVIOUS
  <2> QED
    BY <2>1
<1>2. Once(n) /\ \A t \in Spellings : Listed(n, t) <=> Listed(l, t) \/ Same(s, t)
  <2>1. CASE Listed(l, s)
    <3>1. n = l
      BY <2>1, FirstFinds
    <3>2. \A t : Same(s, t) => Listed(l, t)
      BY <2>1 DEF Listed, Same
    <3> QED
      BY <3>1, <3>2
  <2>2. CASE ~Listed(l, s)
    <3>1. n = Append(l, s)
      BY <2>2, FirstFinds
    <3>2. /\ Len(l) \in Nat /\ Len(n) = Len(l) + 1 /\ n[Len(l) + 1] = s
          /\ \A i \in 1..Len(l) : n[i] = l[i]
      BY <3>1
    <3>3. \A i : i \in 1..Len(n) <=> i \in 1..Len(l) \/ i = Len(l) + 1
      BY <3>2
    <3>4. \A t \in Spellings : Listed(n, t) <=> Listed(l, t) \/ Same(s, t)
      <4> TAKE t \in Spellings
      <4>1. Listed(n, t) <=> (\E i \in 1..Len(l) : Same(t, n[i])) \/ Same(t, n[Len(l) + 1])
        BY <3>3 DEF Listed
      <4> QED
        BY <3>2, <4>1 DEF Listed, Same
    <3>5. \A i \in 1..Len(l) : ~Same(s, l[i]) /\ ~Same(l[i], s)
      BY <2>2 DEF Listed, Same
    <3>6. Once(n)
      BY <3>2, <3>3, <3>5 DEF Once
    <3> QED
      BY <3>4, <3>6
  <2> QED
    BY <2>1, <2>2
<1> QED
  BY <1>1, <1>2, FirstFinds

\* RemoveAddress without a database: the one entry of the address goes.
LEMMA ListRemoves ==
  ASSUME NEW l \in Seq(Spellings), NEW s \in Spellings, Once(l), NEW n,
         n = IF First(l, s) = 0 THEN l ELSE RemoveAt(l, First(l, s))
  PROVE  /\ n \in Seq(Spellings) /\ Once(n)
         /\ \A t \in Spellings : First(n, t) # 0 <=> First(l, t) # 0 /\ ~Same(s, t)
<1>1. CASE ~Listed(l, s)
  <2>1. n = l
    BY <1>1, FirstFinds
  <2>2. \A t : Same(s, t) => ~Listed(l, t)
    BY <1>1 DEF Listed, Same
  <2> QED
    BY <2>1, <2>2, FirstFinds
<1>2. CASE Listed(l, s)
  <2>1. PICK f \in 1..Len(l) : f = First(l, s) /\ Same(s, l[f])
    BY <1>2, FirstFinds
  <2>2. n = SubSeq(l, 1, f - 1) \o SubSeq(l, f + 1, Len(l))
    BY <1>2, <2>1, FirstFinds DEF RemoveAt
  <2>3. PICK a, b \in Seq(Spellings) : a = SubSeq(l, 1, f - 1) /\ b = SubSeq(l, f + 1, Len(l))
    <3>1. f - 1 \in 0..Len(l) /\ f + 1 \in 1..Len(l) + 1 /\ Len(l) \in (f + 1) - 1..Len(l) /\ 1 \in 1..Len(l) + 1 /\ f - 1 \in 1 - 1..Len(l)
      BY <2>1
    <3>2. SubSeq(l, 1, f - 1) \in Seq(Spellings) /\ SubSeq(l, f + 1, Len(l)) \in Seq(Spellings)
      BY <3>1, SubSeqProperties
    <3> QED
      BY <3>2
  <2>4. Len(l) \in Nat /\ f \in Nat /\ 1 <= f /\ f <= Len(l)
    BY <2>1
  <2>5. Len(a) = f - 1 /\ \A i \in 1..(f - 1) : a[i] = l[i]
    BY <2>3, <2>4, SubSeqProperties
  <2>6. Len(b) = Len(l) - f /\ \A i \in 1..(Len(l) - f) : b[i] = l[f + i]
    BY <2>3, <2>4, SubSeqProperties
  <2>7. n = a \o b
    BY <2>2, <2>3
  <2>8. /\ n \in Seq(Spellings) /\ Len(n) = Len(l) - 1
        /\ \A i \in 1..(Len(l) - 1) : n[i] = IF i < f THEN l[i] ELSE l[i + 1]
    <3>1. /\ n \in Seq(Spellings) /\ Len(n) = Len(a) + Len(b)
          /\ \A i \in 1..(Len(a) + Len(b)) : n[i] = IF i <= Len(a) THEN a[i] ELSE b[i - Len(a)]
      BY <2>7, ConcatProperties
    <3>2. Len(a) + Len(b) = Len(l) - 1
      BY <2>4, <2>5, <2>6
    <3>3. ASSUME NEW i \in 1..(Len(l) - 1) PROVE n[i] = IF i < f THEN l[i] ELSE l[i + 1]
      <4>1. CASE i < f
        BY <2>4, <2>5, <3>1, <3>2, <4>1
      <4>2. CASE ~(i < f)
        <5>1. n[i] = b[i - (f - 1)]
          BY <2>4, <2>5, <3>1, <3>2, <4>2
        <5>2. i - (f - 1) \in 1..(Len(l) - f) /\ f + (i - (f - 1)) = i + 1
          BY <2>4, <4>2
        <5> QED
          BY <2>6, <4>2, <5>1, <5>2
      <4> QED
        BY <4>1, <4>2
    <3> QED
      BY <3>1, <3>2, <3>3
  <2>9. PICK at : at = [i \in 1..Len(n) |-> IF i < f THEN i ELSE i + 1]
    OBVIOUS
  <2>10. \A i \in 1..Len(n) : at[i] \in 1..Len(l) /\ at[i] # f /\ n[i] = l[at[i]]
    BY <2>4, <2>8, <2>9
  <2>11. \A i, k \in 1..Len(n) : at[i] = at[k] => i = k
    BY <2>4, <2>8, <2>9
  <2>12. \A k \in 1..Len(l) \ {f} : \E i \in 1..Len(n) : at[i] = k
    <3> TAKE k \in 1..Len(l) \ {f}
    <3>1. CASE k < f
      BY <2>4, <2>8, <2>9, <3>1
    <3>2. CASE ~(k < f)
      <4>1. k - 1 \in 1..Len(n) /\ at[k - 1] = k
        BY <2>4, <2>8, <2>9, <3>2
      <4> QED
        BY <4>1
    <3> QED
      BY <3>1, <3>2
  <2>13. Once(n)
    BY <2>10, <2>11 DEF Once
  <2>14. \A k \in 1..Len(l) \ {f} : ~Same(s, l[k])
    BY <2>1 DEF Once, Same
  <2>15. \A t \in Spellings : Listed(n, t) <=> Listed(l, t) /\ ~Same(s, t)
    <3> TAKE t \in Spellings
    <3>1. Listed(n, t) => Listed(l, t) /\ ~Same(s, t)
      <4> SUFFICES ASSUME NEW i \in 1..Len(n), Same(t, n[i]) PROVE Listed(l, t) /\ ~Same(s, t)
        BY DEF Listed
      <4>1. at[i] \in 1..Len(l) \ {f} /\ Same(t, l[at[i]])
        BY <2>10
      <4> QED
        BY <2>14, <4>1 DEF Listed, Same
    <3>2. Listed(l, t) /\ ~Same(s, t) => Listed(n, t)
      <4> SUFFICES ASSUME NEW k \in 1..Len(l), Same(t, l[k]), ~Same(s, t) PROVE Listed(n, t)
        BY DEF Listed
      <4>1. k # f
        BY <2>1 DEF Same
      <4>2. PICK i \in 1..Len(n) : at[i] = k
        BY <2>12, <4>1
      <4> QED
        BY <2>10, <4>2 DEF Listed
    <3> QED
      BY <3>1, <3>2
  <2> QED
    BY <2>8, <2>13, <2>15, FirstFinds
<1> QED
  BY <1>1, <1>2

\* The two ways to look into a list.
LEMMA EqualFoldIs == \A g, s : EqualFold(g, s) = First(book[g], s) /\ EqualFold(g, s)' = First(book'[g], s)
  BY DEF EqualFold, First, SelectInSeq

\* Every spelling at every gateway that a store reaches is listed, or none is.
LEMMA WhitelistedAlike ==
  ASSUME BookType, NEW g \in BookGateways, NEW s \in Spellings, NEW h \in BookGateways, NEW t \in Spellings, Touches(g, s, h, t)
  PROVE  Whitelisted(g, s) <=> Whitelisted(h, t)
<1>1. CASE bookSetup.store
  BY <1>1 DEF Whitelisted, Touches, Same
<1>2. CASE ~bookSetup.store
  <2>1. g = h /\ Same(s, t)
    BY <1>2 DEF Touches, Reach
  <2>2. PICK l \in Seq(Spellings) : l = book[g]
    BY DEF BookType
  <2>3. Listed(l, s) <=> Listed(l, t)
    BY <2>1 DEF Listed, Same
  <2>4. First(l, s) # 0 <=> First(l, t) # 0
    BY <2>3, FirstFinds
  <2>5. EqualFold(g, s) = First(l, s) /\ EqualFold(h, t) = First(l, t)
    BY <2>1, <2>2 DEF EqualFold, First
  <2> QED
    BY <1>2, <2>4, <2>5 DEF Whitelisted
<1> QED
  BY <1>1, <1>2

\* WithdrawalService.AddAddress, with either store: the address is listed
\* wherever the store reaches, and nothing else is.
LEMMA AddLists ==
  ASSUME BookInv, UNCHANGED bookSetup, NEW g \in BookGateways, NEW s \in Spellings,
         \/ bookSetup.store /\ AddWhitelistAddress(s) /\ UNCHANGED book
         \/ ~bookSetup.store /\ AddEntry(g, s)
  PROVE  /\ book' \in [BookGateways -> Seq(Spellings)] /\ \A h \in BookGateways : Once(book'[h])
         /\ \A h \in BookGateways, t \in Spellings : Whitelisted(h, t)' <=> Whitelisted(h, t) \/ Touches(g, s, h, t)
<1>1. book \in [BookGateways -> Seq(Spellings)] /\ \A h \in BookGateways : Once(book[h])
  BY DEF BookInv, BookType
<1>2. CASE bookSetup.store /\ AddWhitelistAddress(s) /\ UNCHANGED book
  <2>1. \A h \in BookGateways, t \in Spellings : Whitelisted(h, t)' <=> Whitelisted(h, t) \/ Touches(g, s, h, t)
    BY <1>2 DEF Whitelisted, AddWhitelistAddress, Normalised, Touches, Reach, Same
  <2> QED
    BY <1>1, <1>2, <2>1
<1>3. CASE ~bookSetup.store /\ AddEntry(g, s)
  <2>1. PICK l \in Seq(Spellings) : l = book[g]
    BY <1>1
  <2>2. PICK n : n = IF First(l, s) # 0 THEN l ELSE Append(l, s)
    OBVIOUS
  <2>3. /\ n \in Seq(Spellings) /\ Once(n)
        /\ \A t \in Spellings : First(n, t) # 0 <=> First(l, t) # 0 \/ Same(s, t)
    <3>1. Once(l)
      BY <1>1, <2>1
    <3> QED
      BY <2>2, <3>1, ListAdds
  <2>4. EqualFold(g, s) = First(l, s)
    BY <2>1 DEF EqualFold, First
  <2>5. book' = [book EXCEPT ![g] = n]
    <3>1. CASE First(l, s) # 0
      BY <1>1, <1>3, <2>1, <2>2, <2>4, <3>1 DEF AddEntry
    <3>2. CASE First(l, s) = 0
      <4>1. book' = [book EXCEPT ![g] = Append(book[g], s)]
        BY <1>3, <2>4, <3>2 DEF AddEntry
      <4> QED
        BY <2>1, <2>2, <3>2, <4>1
    <3> QED
      BY <3>1, <3>2
  <2>6. /\ book' \in [BookGateways -> Seq(Spellings)] /\ book'[g] = n
        /\ \A h \in BookGateways \ {g} : book'[h] = book[h]
    BY <1>1, <2>3, <2>5
  <2>7. ASSUME NEW h \in BookGateways, NEW t \in Spellings
        PROVE  Whitelisted(h, t)' <=> Whitelisted(h, t) \/ Touches(g, s, h, t)
    <3>1. Touches(g, s, h, t) <=> h = g /\ Same(s, t)
      BY <1>3 DEF Touches, Reach
    <3>2. PICK x, y : x = book[h] /\ y = book'[h]
      OBVIOUS
    <3>3. EqualFold(h, t) = First(x, t) /\ EqualFold(h, t)' = First(y, t)
      BY <3>2, EqualFoldIs
    <3>4. First(y, t) # 0 <=> First(x, t) # 0 \/ (h = g /\ Same(s, t))
      BY <2>1, <2>3, <2>6, <3>2
    <3> QED
      BY <1>3, <3>1, <3>3, <3>4 DEF Whitelisted
  <2> QED
    BY <1>1, <2>3, <2>6, <2>7
<1> QED
  BY <1>2, <1>3

\* WithdrawalService.RemoveAddress, with either store.
LEMMA RemoveUnlists ==
  ASSUME BookInv, UNCHANGED bookSetup, NEW g \in BookGateways, NEW s \in Spellings,
         \/ bookSetup.store /\ RemoveWhitelistAddress(s) /\ UNCHANGED book
         \/ ~bookSetup.store /\ RemoveEntry(g, s)
  PROVE  /\ book' \in [BookGateways -> Seq(Spellings)] /\ \A h \in BookGateways : Once(book'[h])
         /\ \A h \in BookGateways, t \in Spellings : Whitelisted(h, t)' <=> Whitelisted(h, t) /\ ~Touches(g, s, h, t)
<1>1. book \in [BookGateways -> Seq(Spellings)] /\ \A h \in BookGateways : Once(book[h])
  BY DEF BookInv, BookType
<1>2. CASE bookSetup.store /\ RemoveWhitelistAddress(s) /\ UNCHANGED book
  <2>1. \A h \in BookGateways, t \in Spellings : Whitelisted(h, t)' <=> Whitelisted(h, t) /\ ~Touches(g, s, h, t)
    BY <1>2 DEF Whitelisted, RemoveWhitelistAddress, Touches, Reach, Same
  <2> QED
    BY <1>1, <1>2, <2>1
<1>3. CASE ~bookSetup.store /\ RemoveEntry(g, s)
  <2>1. PICK l \in Seq(Spellings) : l = book[g]
    BY <1>1
  <2>2. PICK n : n = IF First(l, s) = 0 THEN l ELSE RemoveAt(l, First(l, s))
    OBVIOUS
  <2>3. /\ n \in Seq(Spellings) /\ Once(n)
        /\ \A t \in Spellings : First(n, t) # 0 <=> First(l, t) # 0 /\ ~Same(s, t)
    BY <1>1, <2>1, <2>2, ListRemoves
  <2>4. EqualFold(g, s) = First(l, s)
    BY <2>1 DEF EqualFold, First
  <2>5. book' = [book EXCEPT ![g] = n]
    <3>1. CASE First(l, s) = 0
      BY <1>1, <1>3, <2>1, <2>2, <2>4, <3>1 DEF RemoveEntry
    <3>2. CASE First(l, s) # 0
      <4>1. book' = [book EXCEPT ![g] = RemoveAt(book[g], First(l, s))]
        BY <1>3, <2>4, <3>2 DEF RemoveEntry
      <4> QED
        BY <2>1, <2>2, <3>2, <4>1
    <3> QED
      BY <3>1, <3>2
  <2>6. /\ book' \in [BookGateways -> Seq(Spellings)] /\ book'[g] = n
        /\ \A h \in BookGateways \ {g} : book'[h] = book[h]
    BY <1>1, <2>3, <2>5
  <2>7. ASSUME NEW h \in BookGateways, NEW t \in Spellings
        PROVE  Whitelisted(h, t)' <=> Whitelisted(h, t) /\ ~Touches(g, s, h, t)
    <3>1. Touches(g, s, h, t) <=> h = g /\ Same(s, t)
      BY <1>3 DEF Touches, Reach
    <3>2. PICK x, y : x = book[h] /\ y = book'[h]
      OBVIOUS
    <3>3. EqualFold(h, t) = First(x, t) /\ EqualFold(h, t)' = First(y, t)
      BY <3>2, EqualFoldIs
    <3>4. First(y, t) # 0 <=> First(x, t) # 0 /\ ~(h = g /\ Same(s, t))
      BY <2>1, <2>3, <2>6, <3>2
    <3> QED
      BY <1>3, <3>1, <3>3, <3>4 DEF Whitelisted
  <2> QED
    BY <1>1, <2>3, <2>6, <2>7
<1> QED
  BY <1>2, <1>3

\* BookInit: the lists are empty, and nobody is being served.
LEMMA BookStart == BookInit => BookInv
<1> SUFFICES ASSUME BookInit PROVE BookInv
  OBVIOUS
<1>1. /\ bookSetup \in BookSetups /\ whitelist = {} /\ book = [g \in BookGateways |-> <<>>]
      /\ amending = [a \in BookAdmins |-> NoCall] /\ payout = [p \in BookPayouts |-> NoCall]
      /\ word = [g \in BookGateways |-> [s \in Spellings |-> "out"]]
  BY DEF BookInit
<1>2. BookType
  <2>1. <<>> \in Seq(Spellings)
    OBVIOUS
  <2> QED
    BY <1>1, <2>1 DEF BookType, Words
<1>3. \A g \in BookGateways : Once(book[g]) /\ \A s : EqualFold(g, s) = 0
  <2> TAKE g \in BookGateways
  <2>1. PICK l \in Seq(Spellings) : l = book[g] /\ Len(l) = 0
    <3>1. book[g] = <<>> /\ <<>> \in Seq(Spellings) /\ Len(<<>>) = 0
      BY <1>1
    <3> QED
      BY <3>1
  <2>2. Once(l) /\ \A s : ~Listed(l, s)
    BY <2>1 DEF Once, Listed
  <2>3. \A s : First(l, s) = 0
    BY <2>2, FirstFinds
  <2>4. \A s : EqualFold(g, s) = First(l, s)
    BY <2>1 DEF EqualFold, First
  <2> QED
    BY <2>1, <2>2, <2>3, <2>4
<1>4. \A g \in BookGateways, s \in Spellings : ~Whitelisted(g, s) /\ word[g][s] = "out"
  BY <1>1, <1>3 DEF Whitelisted
<1>5. (\A a \in BookAdmins : amending[a] = NoCall) /\ (\A p \in BookPayouts : payout[p].step = "none")
  BY <1>1 DEF NoCall
<1>6. BookTold /\ BookMet
  BY <1>4, <1>5 DEF BookTold, BookMet, Amends, Alone
<1> QED
  BY <1>2, <1>3, <1>6 DEF BookInv

\* What every step of the book leaves as it was made.
LEMMA BookFrame ==
  ASSUME BookInv, UNCHANGED bookSetup
  PROVE  /\ BookGateways' = BookGateways /\ Calls' = Calls /\ Requests' = Requests
         /\ \A g, s, h, t : Touches(g, s, h, t)' <=> Touches(g, s, h, t)
  BY DEF BookGateways, Calls, Requests, Touches, Reach

\* The requests of administrators: where they are, for whom, and what they say.
LEMMA CallFacts ==
  ASSUME BookInv, NEW a \in BookAdmins, amending[a] # NoCall
  PROVE  /\ amending[a] \in Calls /\ amending[a].by \in BookGateways /\ amending[a].address \in Spellings
         /\ amending[a].alone \in BOOLEAN /\ amending[a].step \in {"add", "remove", "in", "out", "unknown"}
  BY DEF BookInv, BookType, Calls

\* Withdrawals that are being checked.
LEMMA RequestFacts ==
  ASSUME BookInv, NEW p \in BookPayouts, payout[p].step \in {"asked", "passed", "not_whitelisted"}
  PROVE  /\ payout[p] \in Requests /\ payout[p].by \in BookGateways /\ payout[p].address \in Spellings
         /\ payout[p].met \in SUBSET Words
  BY DEF BookInv, BookType, Requests, NoCall

\* Administrators are told w of an address: the words and the requests of its
\* other spellings, at the gateways that share the store.
LEMMA ToldIs ==
  ASSUME BookInv, UNCHANGED bookSetup, NEW g \in BookGateways, NEW s \in Spellings, NEW w \in Words, Told(g, s, w)
  PROVE  /\ word' \in [BookGateways -> [Spellings -> Words]]
         /\ \A h \in BookGateways, t \in Spellings : word'[h][t] = IF Touches(g, s, h, t) THEN w ELSE word[h][t]
         /\ payout' \in [BookPayouts -> {NoCall} \cup Requests]
         /\ BookMet'
<1>1. word \in [BookGateways -> [Spellings -> Words]] /\ payout \in [BookPayouts -> {NoCall} \cup Requests]
  BY DEF BookInv, BookType
<1>2. /\ word' = [h \in BookGateways |-> [t \in Spellings |-> IF h \in Reach(g) /\ Same(s, t) THEN w ELSE word[h][t]]]
      /\ payout' = [p \in BookPayouts |->
           IF payout[p].step = "asked" /\ payout[p].by \in Reach(g) /\ Same(s, payout[p].address)
           THEN [payout[p] EXCEPT !.met = payout[p].met \cup {w}] ELSE payout[p]]
  BY DEF Told
<1>3. /\ word' \in [BookGateways -> [Spellings -> Words]]
      /\ \A h \in BookGateways, t \in Spellings : word'[h][t] = IF Touches(g, s, h, t) THEN w ELSE word[h][t]
  BY <1>1, <1>2 DEF Touches
<1>4. ASSUME NEW p \in BookPayouts
      PROVE  /\ payout'[p] \in {NoCall} \cup Requests
             /\ payout'[p].step = "asked" => word'[payout'[p].by][payout'[p].address] \in payout'[p].met
             /\ payout'[p].step = "passed" => payout'[p].met # {"out"}
             /\ payout'[p].step = "not_whitelisted" => payout'[p].met # {"in"}
  <2>1. CASE payout[p].step = "asked" /\ payout[p].by \in Reach(g) /\ Same(s, payout[p].address)
    <3>1. payout[p] \in Requests /\ payout[p].by \in BookGateways /\ payout[p].address \in Spellings
      BY <2>1, RequestFacts
    <3>2. PICK q : q = payout'[p]
      OBVIOUS
    <3>3. q = [payout[p] EXCEPT !.met = payout[p].met \cup {w}]
      BY <1>2, <2>1, <3>2
    <3>4. /\ q \in Requests /\ q.step = "asked" /\ q.by = payout[p].by /\ q.address = payout[p].address /\ w \in q.met
      BY <2>1, <3>1, <3>3 DEF Requests
    <3>5. word'[q.by][q.address] = w
      BY <1>3, <2>1, <3>1, <3>4 DEF Touches
    <3> QED
      BY <3>2, <3>4, <3>5
  <2>2. CASE ~(payout[p].step = "asked" /\ payout[p].by \in Reach(g) /\ Same(s, payout[p].address))
    <3>1. payout'[p] = payout[p]
      BY <1>2, <2>2
    <3>2. payout[p].step = "asked" => word'[payout[p].by][payout[p].address] = word[payout[p].by][payout[p].address]
      <4> SUFFICES ASSUME payout[p].step = "asked" PROVE word'[payout[p].by][payout[p].address] = word[payout[p].by][payout[p].address]
        OBVIOUS
      <4>1. payout[p].by \in BookGateways /\ payout[p].address \in Spellings
        BY RequestFacts
      <4> QED
        BY <1>3, <2>2, <4>1 DEF Touches
    <3> QED
      BY <1>1, <3>1, <3>2 DEF BookInv, BookMet
  <2> QED
    BY <2>1, <2>2
<1>5. payout' \in [BookPayouts -> {NoCall} \cup Requests]
  BY <1>2, <1>4
<1>6. BookMet'
  BY <1>4 DEF BookMet
<1> QED
  BY <1>3, <1>5, <1>6

\* An administrator asks: what was said of the address is no longer certain, and
\* nobody who overlaps is alone.
LEMMA AmendKeeps ==
  ASSUME BookInv, NEW a \in BookAdmins, NEW g \in BookGateways, NEW op \in {"add", "remove"}, NEW s \in Spellings, Amend(a, g, op, s)
  PROVE  BookInv'
<1>1. /\ UNCHANGED <<bookSetup, whitelist, book>> /\ amending[a] = NoCall /\ Told(g, s, "unknown")
      /\ amending' = [b \in BookAdmins |->
           IF b = a THEN [step |-> op, by |-> g, address |-> s, alone |-> Rivals(g, s) = {}]
           ELSE IF b \in Rivals(g, s) THEN [amending[b] EXCEPT !.alone = FALSE] ELSE amending[b]]
  BY DEF Amend
<1>2. "unknown" \in Words
  BY DEF Words
<1>3. /\ word' \in [BookGateways -> [Spellings -> Words]]
      /\ \A h \in BookGateways, t \in Spellings : word'[h][t] = IF Touches(g, s, h, t) THEN "unknown" ELSE word[h][t]
      /\ payout' \in [BookPayouts -> {NoCall} \cup Requests] /\ BookMet'
  BY <1>1, <1>2, ToldIs
<1>4. /\ BookGateways' = BookGateways /\ Calls' = Calls /\ Requests' = Requests
      /\ \A h, t, k, u : Touches(h, t, k, u)' <=> Touches(h, t, k, u)
  BY <1>1, BookFrame
<1>5. \A h \in BookGateways, t \in Spellings : Whitelisted(h, t)' <=> Whitelisted(h, t)
  BY <1>1 DEF Whitelisted, EqualFold, SelectInSeq
<1>6. /\ amending'[a] # NoCall /\ amending'[a] \in Calls
      /\ amending'[a].step = op /\ amending'[a].by = g /\ amending'[a].address = s
      /\ amending'[a].alone <=> Rivals(g, s) = {}
  <2>1. PICK d : d = amending'[a]
    OBVIOUS
  <2>2. PICK al \in BOOLEAN : al <=> Rivals(g, s) = {}
    OBVIOUS
  <2>3. d = [step |-> op, by |-> g, address |-> s, alone |-> al]
    BY <1>1, <2>1, <2>2
  <2>4. d \in Calls /\ d.step = op /\ d.by = g /\ d.address = s /\ d.alone = al /\ d.step # "none"
    BY <2>3 DEF Calls
  <2> QED
    BY <2>1, <2>2, <2>4 DEF NoCall
<1>7. ASSUME NEW b \in BookAdmins \ {a}
      PROVE  /\ amending'[b] \in {NoCall} \cup Calls
             /\ amending'[b] = NoCall <=> amending[b] = NoCall
             /\ amending[b] # NoCall =>
                  /\ amending'[b].step = amending[b].step /\ amending'[b].by = amending[b].by
                  /\ amending'[b].address = amending[b].address
                  /\ amending'[b].alone => amending[b].alone /\ ~Touches(g, s, amending[b].by, amending[b].address)
  <2>1. CASE amending[b] = NoCall
    <3>1. amending'[b] = NoCall
      BY <1>1, <2>1 DEF Rivals
    <3> QED
      BY <2>1, <3>1
  <2>2. CASE amending[b] # NoCall
    <3>1. amending[b] \in Calls /\ amending[b].by \in BookGateways /\ amending[b].address \in Spellings
      BY <2>2, CallFacts
    <3>2. b \in Rivals(g, s) <=> Touches(g, s, amending[b].by, amending[b].address)
      BY <2>2, <3>1 DEF Rivals, Touches, Reach, Same
    <3>3. CASE b \in Rivals(g, s)
      <4>1. PICK d : d = amending'[b]
        OBVIOUS
      <4>2. d = [amending[b] EXCEPT !.alone = FALSE]
        BY <1>1, <3>3, <4>1
      <4>3. /\ d \in Calls /\ d.step = amending[b].step /\ d.by = amending[b].by
            /\ d.address = amending[b].address /\ ~d.alone /\ d.step # "none"
        BY <3>1, <4>2 DEF Calls
      <4> QED
        BY <2>2, <4>1, <4>3 DEF NoCall
    <3>4. CASE b \notin Rivals(g, s)
      <4>1. amending'[b] = amending[b]
        BY <1>1, <3>4
      <4> QED
        BY <2>2, <3>1, <3>2, <3>4, <4>1
    <3> QED
      BY <3>3, <3>4
  <2> QED
    BY <2>1, <2>2
<1>8. BookType'
  <2>1. amending' \in [BookAdmins -> {NoCall} \cup Calls]
    BY <1>1, <1>6, <1>7
  <2> QED
    BY <1>1, <1>3, <1>4, <2>1 DEF BookInv, BookType
<1>9. ASSUME NEW b \in BookAdmins, NEW h \in BookGateways, NEW t \in Spellings
      PROVE  Amends(b, h, t)' <=> (b = a /\ Touches(g, s, h, t)) \/ Amends(b, h, t)
  <2>1. CASE b = a
    BY <1>1, <1>4, <1>6, <2>1 DEF Amends
  <2>2. CASE b # a
    BY <1>4, <1>7, <2>2 DEF Amends
  <2> QED
    BY <2>1, <2>2
<1>10. ASSUME NEW h \in BookGateways, NEW t \in Spellings
       PROVE  /\ word'[h][t] = "in" => Whitelisted(h, t)'
              /\ word'[h][t] = "out" => ~Whitelisted(h, t)'
              /\ word'[h][t] # "unknown" => \A b \in BookAdmins : ~Amends(b, h, t)'
  BY <1>3, <1>5, <1>9 DEF BookInv, BookTold
<1>11. ASSUME NEW b \in BookAdmins, NEW h \in BookGateways, NEW t \in Spellings, Alone(b, h, t)'
       PROVE  /\ amending'[b].step = "in" => Whitelisted(h, t)'
              /\ amending'[b].step = "out" => ~Whitelisted(h, t)'
              /\ \A c \in BookAdmins \ {b} : ~Amends(c, h, t)'
  <2>0. amending'[b] # NoCall /\ amending'[b].alone /\ amending'[b].by = h /\ amending'[b].address = t
    BY <1>11 DEF Alone
  <2>1. CASE b = a
    <3>1. h = g /\ t = s /\ Rivals(g, s) = {} /\ amending'[b].step = op
      BY <1>6, <2>0, <2>1
    <3>2. ASSUME NEW c \in BookAdmins \ {a} PROVE ~Amends(c, g, s)
      <4>1. c \notin Rivals(g, s)
        BY <3>1
      <4>2. SUFFICES ASSUME amending[c] # NoCall PROVE ~Touches(amending[c].by, amending[c].address, g, s)
        BY DEF Amends
      <4>3. amending[c].by \in BookGateways /\ amending[c].address \in Spellings
        BY <4>2, CallFacts
      <4>4. ~Touches(g, s, amending[c].by, amending[c].address)
        BY <4>1, <4>2 DEF Rivals, Touches, Same
      <4> QED
        BY <4>3, <4>4, TouchesAlike
    <3>3. \A c \in BookAdmins \ {a} : ~Amends(c, g, s)'
      BY <1>9, <3>2
    <3> QED
      BY <2>1, <3>1, <3>3
  <2>2. CASE b # a
    <3>1. amending[b] # NoCall /\ amending[b].alone /\ ~Touches(g, s, amending[b].by, amending[b].address)
      BY <1>7, <2>0, <2>2
    <3>2. amending[b].by = h /\ amending[b].address = t /\ amending'[b].step = amending[b].step
      BY <1>7, <2>0, <2>2, <3>1
    <3>3. Alone(b, h, t)
      BY <3>1, <3>2 DEF Alone
    <3>4. /\ amending[b].step = "in" => Whitelisted(h, t)
          /\ amending[b].step = "out" => ~Whitelisted(h, t)
          /\ \A c \in BookAdmins \ {b} : ~Amends(c, h, t)
      BY <3>3 DEF BookInv, BookTold
    <3>5. \A c \in BookAdmins \ {b} : ~Amends(c, h, t)'
      BY <1>9, <3>1, <3>2, <3>4
    <3> QED
      BY <1>5, <3>2, <3>4, <3>5
  <2> QED
    BY <2>1, <2>2
<1>12. BookTold'
  BY <1>4, <1>10, <1>11 DEF BookTold
<1> QED
  BY <1>1, <1>3, <1>4, <1>8, <1>12 DEF BookInv

\* A request has changed the store, or not: only the address it amends is
\* concerned, and of that nothing certain was said.
LEMMA ActedKeeps ==
  ASSUME BookInv, NEW a \in BookAdmins, NEW x \in {"in", "out", "unknown"}, Becomes(a, x), amending[a] # NoCall,
         NEW g \in BookGateways, NEW s \in Spellings, g = amending[a].by, s = amending[a].address,
         UNCHANGED <<bookSetup, payout, word>>,
         book' \in [BookGateways -> Seq(Spellings)], \A h \in BookGateways : Once(book'[h]),
         \A h \in BookGateways, t \in Spellings :
           /\ ~Touches(g, s, h, t) => (Whitelisted(h, t)' <=> Whitelisted(h, t))
           /\ Touches(g, s, h, t) /\ x = "in" => Whitelisted(h, t)'
           /\ Touches(g, s, h, t) /\ x = "out" => ~Whitelisted(h, t)'
  PROVE  BookInv'
<1>1. /\ BookGateways' = BookGateways /\ Calls' = Calls /\ Requests' = Requests
      /\ \A h, t, k, u : Touches(h, t, k, u)' <=> Touches(h, t, k, u)
  BY BookFrame
<1>2. amending \in [BookAdmins -> {NoCall} \cup Calls] /\ amending[a] \in Calls
  BY CallFacts DEF BookInv, BookType
<1>3. PICK d : d = [amending[a] EXCEPT !.step = x]
  OBVIOUS
<1>4. /\ d \in Calls /\ d.step = x /\ d.by = g /\ d.address = s /\ d.alone = amending[a].alone /\ d # NoCall
  BY <1>2, <1>3 DEF Calls, NoCall
<1>5. amending' = [amending EXCEPT ![a] = d]
  BY <1>3 DEF Becomes
<1>6. /\ amending' \in [BookAdmins -> {NoCall} \cup Calls] /\ amending'[a] = d
      /\ \A b \in BookAdmins \ {a} : amending'[b] = amending[b]
  BY <1>2, <1>4, <1>5
<1>7. BookType'
  BY <1>1, <1>6 DEF BookInv, BookType
<1>8. \A b \in BookAdmins, h \in BookGateways, t \in Spellings :
        /\ Amends(b, h, t)' <=> Amends(b, h, t)
        /\ Alone(b, h, t)' <=> Alone(b, h, t)
  BY <1>1, <1>4, <1>6 DEF Amends, Alone
<1>9. ASSUME NEW h \in BookGateways, NEW t \in Spellings
      PROVE  /\ word'[h][t] = "in" => Whitelisted(h, t)'
             /\ word'[h][t] = "out" => ~Whitelisted(h, t)'
             /\ word'[h][t] # "unknown" => \A b \in BookAdmins : ~Amends(b, h, t)'
  <2>1. CASE Touches(g, s, h, t)
    <3>1. Amends(a, h, t)
      BY <2>1 DEF Amends
    <3>2. word[h][t] = "unknown"
      BY <3>1 DEF BookInv, BookTold
    <3> QED
      BY <3>2
  <2>2. CASE ~Touches(g, s, h, t)
    BY <1>8, <2>2 DEF BookInv, BookTold
  <2> QED
    BY <2>1, <2>2
<1>10. ASSUME NEW b \in BookAdmins, NEW h \in BookGateways, NEW t \in Spellings, Alone(b, h, t)'
       PROVE  /\ amending'[b].step = "in" => Whitelisted(h, t)'
              /\ amending'[b].step = "out" => ~Whitelisted(h, t)'
              /\ \A c \in BookAdmins \ {b} : ~Amends(c, h, t)'
  <2>1. Alone(b, h, t)
    BY <1>8, <1>10
  <2>2. \A c \in BookAdmins \ {b} : ~Amends(c, h, t)'
    BY <1>8, <2>1 DEF BookInv, BookTold
  <2>3. CASE b = a
    <3>1. h = g /\ t = s /\ Touches(g, s, h, t)
      BY <2>1, <2>3, TouchesAlike DEF Alone
    <3> QED
      BY <1>4, <1>6, <2>2, <2>3, <3>1
  <2>4. CASE b # a
    <3>1. ~Amends(a, h, t)
      BY <2>1, <2>4 DEF BookInv, BookTold
    <3>2. ~Touches(g, s, h, t)
      BY <3>1 DEF Amends
    <3>3. amending'[b] = amending[b]
      BY <1>6, <2>4
    <3> QED
      BY <2>1, <2>2, <3>2, <3>3 DEF BookInv, BookTold
  <2> QED
    BY <2>3, <2>4
<1>11. BookTold'
  BY <1>1, <1>9, <1>10 DEF BookTold
<1>12. BookMet'
  BY DEF BookInv, BookMet
<1> QED
  BY <1>1, <1>7, <1>11, <1>12 DEF BookInv

\* AddAddress and RemoveAddress, which may fail before or after the statement.
LEMMA StoreKeeps ==
  ASSUME BookInv, NEW a \in BookAdmins, AddAddress(a) \/ RemoveAddress(a)
  PROVE  BookInv'
<1>1. /\ UNCHANGED <<bookSetup, payout, word>> /\ amending[a].step \in {"add", "remove"}
  BY DEF AddAddress, RemoveAddress
<1>2. amending[a] # NoCall
  BY <1>1 DEF NoCall
<1>3. PICK g \in BookGateways, s \in Spellings : g = amending[a].by /\ s = amending[a].address
  BY <1>2, CallFacts
<1>4. book \in [BookGateways -> Seq(Spellings)] /\ (\A h \in BookGateways : Once(book[h]))
  BY DEF BookInv, BookType
<1>5. CASE UNCHANGED <<book, whitelist>> /\ Becomes(a, "unknown")
  <2>1. \A h \in BookGateways, t \in Spellings : Whitelisted(h, t)' <=> Whitelisted(h, t)
    BY <1>1, <1>5 DEF Whitelisted, EqualFold, SelectInSeq
  <2> QED
    BY <1>1, <1>2, <1>3, <1>4, <1>5, <2>1, ActedKeeps
<1>6. ASSUME NEW x \in {"in", "unknown"}, Becomes(a, x),
             \/ bookSetup.store /\ AddWhitelistAddress(s) /\ UNCHANGED book
             \/ ~bookSetup.store /\ AddEntry(g, s)
      PROVE  BookInv'
  <2>1. /\ book' \in [BookGateways -> Seq(Spellings)] /\ \A h \in BookGateways : Once(book'[h])
        /\ \A h \in BookGateways, t \in Spellings : Whitelisted(h, t)' <=> Whitelisted(h, t) \/ Touches(g, s, h, t)
    BY <1>1, <1>6, AddLists
  <2> QED
    BY <1>1, <1>2, <1>3, <1>6, <2>1, ActedKeeps
<1>7. ASSUME NEW x \in {"out", "unknown"}, Becomes(a, x),
             \/ bookSetup.store /\ RemoveWhitelistAddress(s) /\ UNCHANGED book
             \/ ~bookSetup.store /\ RemoveEntry(g, s)
      PROVE  BookInv'
  <2>1. /\ book' \in [BookGateways -> Seq(Spellings)] /\ \A h \in BookGateways : Once(book'[h])
        /\ \A h \in BookGateways, t \in Spellings : Whitelisted(h, t)' <=> Whitelisted(h, t) /\ ~Touches(g, s, h, t)
    BY <1>1, <1>7, RemoveUnlists
  <2> QED
    BY <1>1, <1>2, <1>3, <1>7, <2>1, ActedKeeps
<1>8. CASE AddAddress(a)
  <2>1. \/ bookSetup.store /\ AddWhitelistAddress(s) /\ UNCHANGED book /\ Becomes(a, "in")
        \/ ~bookSetup.store /\ AddEntry(g, s) /\ Becomes(a, "in")
        \/ UNCHANGED <<book, whitelist>> /\ Becomes(a, "unknown")
        \/ bookSetup.store /\ AddWhitelistAddress(s) /\ UNCHANGED book /\ Becomes(a, "unknown")
    BY <1>3, <1>8 DEF AddAddress
  <2> QED
    BY <1>5, <1>6, <2>1
<1>9. CASE RemoveAddress(a)
  <2>1. \/ bookSetup.store /\ RemoveWhitelistAddress(s) /\ UNCHANGED book /\ Becomes(a, "out")
        \/ ~bookSetup.store /\ RemoveEntry(g, s) /\ Becomes(a, "out")
        \/ UNCHANGED <<book, whitelist>> /\ Becomes(a, "unknown")
        \/ bookSetup.store /\ RemoveWhitelistAddress(s) /\ UNCHANGED book /\ Becomes(a, "unknown")
    BY <1>3, <1>9 DEF RemoveAddress
  <2> QED
    BY <1>5, <1>7, <2>1
<1> QED
  BY <1>8, <1>9

\* An administrator is answered: what the store did, when nobody overlapped.
LEMMA AnswerKeeps ==
  ASSUME BookInv, NEW a \in BookAdmins, AnswerAdmin(a)
  PROVE  BookInv'
<1>1. /\ UNCHANGED <<bookSetup, whitelist, book>> /\ amending[a].step \in {"in", "out", "unknown"}
      /\ amending' = [amending EXCEPT ![a] = NoCall]
      /\ Told(amending[a].by, amending[a].address, IF amending[a].alone THEN amending[a].step ELSE "unknown")
  BY DEF AnswerAdmin
<1>2. amending[a] # NoCall
  BY <1>1 DEF NoCall
<1>3. PICK g \in BookGateways, s \in Spellings : g = amending[a].by /\ s = amending[a].address
  BY <1>2, CallFacts
<1>4. PICK w : w = IF amending[a].alone THEN amending[a].step ELSE "unknown"
  OBVIOUS
<1>5. w \in Words
  BY <1>1, <1>4 DEF Words
<1>6. /\ word' \in [BookGateways -> [Spellings -> Words]]
      /\ \A h \in BookGateways, t \in Spellings : word'[h][t] = IF Touches(g, s, h, t) THEN w ELSE word[h][t]
      /\ payout' \in [BookPayouts -> {NoCall} \cup Requests] /\ BookMet'
  <2>1. Told(g, s, w)
    BY <1>1, <1>3, <1>4
  <2> QED
    BY <1>1, <1>5, <2>1, ToldIs
<1>7. /\ BookGateways' = BookGateways /\ Calls' = Calls /\ Requests' = Requests
      /\ \A h, t, k, u : Touches(h, t, k, u)' <=> Touches(h, t, k, u)
  BY <1>1, BookFrame
<1>8. \A h \in BookGateways, t \in Spellings : Whitelisted(h, t)' <=> Whitelisted(h, t)
  BY <1>1 DEF Whitelisted, EqualFold, SelectInSeq
<1>9. /\ amending' \in [BookAdmins -> {NoCall} \cup Calls] /\ amending'[a] = NoCall
      /\ \A b \in BookAdmins \ {a} : amending'[b] = amending[b]
  BY <1>1 DEF BookInv, BookType
<1>10. \A b \in BookAdmins, h \in BookGateways, t \in Spellings :
        /\ Amends(b, h, t)' <=> b # a /\ Amends(b, h, t)
        /\ Alone(b, h, t)' <=> b # a /\ Alone(b, h, t)
  BY <1>7, <1>9 DEF Amends, Alone
<1>11. ASSUME NEW h \in BookGateways, NEW t \in Spellings
       PROVE  /\ word'[h][t] = "in" => Whitelisted(h, t)'
              /\ word'[h][t] = "out" => ~Whitelisted(h, t)'
              /\ word'[h][t] # "unknown" => \A b \in BookAdmins : ~Amends(b, h, t)'
  <2>1. CASE Touches(g, s, h, t) /\ w # "unknown"
    <3>1. Alone(a, g, s) /\ amending[a].step = w
      BY <1>2, <1>3, <1>4, <2>1 DEF Alone
    <3>2. /\ w = "in" => Whitelisted(g, s)
          /\ w = "out" => ~Whitelisted(g, s)
          /\ \A b \in BookAdmins \ {a} : ~Amends(b, g, s)
      BY <3>1 DEF BookInv, BookTold
    <3>3. Whitelisted(g, s) <=> Whitelisted(h, t)
      BY <2>1, WhitelistedAlike DEF BookInv
    <3>4. ASSUME NEW b \in BookAdmins \ {a} PROVE ~Amends(b, h, t)
      <4> SUFFICES ASSUME amending[b] # NoCall, Touches(amending[b].by, amending[b].address, h, t) PROVE FALSE
        BY DEF Amends
      <4>1. PICK k \in BookGateways, u \in Spellings : k = amending[b].by /\ u = amending[b].address
        BY CallFacts
      <4>2. Touches(h, t, g, s) /\ Touches(k, u, h, t)
        BY <2>1, <4>1, TouchesAlike
      <4>3. Touches(k, u, g, s)
        BY <4>2, TouchesAlike
      <4> QED
        BY <3>2, <4>1, <4>3 DEF Amends
    <3> QED
      BY <1>6, <1>8, <1>10, <2>1, <3>2, <3>3, <3>4
  <2>2. CASE Touches(g, s, h, t) /\ w = "unknown"
    BY <1>6, <2>2
  <2>3. CASE ~Touches(g, s, h, t)
    BY <1>6, <1>8, <1>10, <2>3 DEF BookInv, BookTold
  <2> QED
    BY <2>1, <2>2, <2>3
<1>12. BookTold'
  <2>1. \A b \in BookAdmins, h \in BookGateways, t \in Spellings : Alone(b, h, t)' =>
          /\ amending'[b].step = "in" => Whitelisted(h, t)'
          /\ amending'[b].step = "out" => ~Whitelisted(h, t)'
          /\ \A c \in BookAdmins \ {b} : ~Amends(c, h, t)'
    BY <1>8, <1>9, <1>10 DEF BookInv, BookTold
  <2> QED
    BY <1>7, <1>11, <2>1 DEF BookTold
<1>13. BookType'
  BY <1>1, <1>6, <1>7, <1>9 DEF BookInv, BookType
<1> QED
  BY <1>1, <1>6, <1>7, <1>12, <1>13 DEF BookInv

\* A withdrawal is asked for, and its address looked up: nothing else changes.
LEMMA PayoutKeeps ==
  ASSUME BookInv, NEW p \in BookPayouts,
         (\E g \in BookGateways, s \in Spellings : AskWithdrawal(p, g, s)) \/ CheckWhitelist(p)
  PROVE  BookInv'
<1>1. UNCHANGED <<bookSetup, whitelist, book, amending, word>>
  BY DEF AskWithdrawal, CheckWhitelist
<1>2. /\ BookGateways' = BookGateways /\ Calls' = Calls /\ Requests' = Requests
      /\ \A h, t, k, u : Touches(h, t, k, u)' <=> Touches(h, t, k, u)
  BY <1>1, BookFrame
<1>3. \A h \in BookGateways, t \in Spellings : Whitelisted(h, t)' <=> Whitelisted(h, t)
  BY <1>1 DEF Whitelisted, EqualFold, SelectInSeq
<1>4. \A b \in BookAdmins, h \in BookGateways, t \in Spellings :
        (Amends(b, h, t)' <=> Amends(b, h, t)) /\ (Alone(b, h, t)' <=> Alone(b, h, t))
  BY <1>1, <1>2 DEF Amends, Alone
<1>5. BookTold'
  BY <1>1, <1>2, <1>3, <1>4 DEF BookInv, BookTold
<1>6. /\ payout \in [BookPayouts -> {NoCall} \cup Requests] /\ word \in [BookGateways -> [Spellings -> Words]]
  BY DEF BookInv, BookType
<1>7. PICK q : /\ payout' = [payout EXCEPT ![p] = q] /\ q \in Requests
               /\ q.step = "asked" => word[q.by][q.address] \in q.met
               /\ q.step = "passed" => q.met # {"out"}
               /\ q.step = "not_whitelisted" => q.met # {"in"}
  <2>1. ASSUME NEW g \in BookGateways, NEW s \in Spellings, AskWithdrawal(p, g, s)
        PROVE  \E q : /\ payout' = [payout EXCEPT ![p] = q] /\ q \in Requests
                      /\ q.step = "asked" => word[q.by][q.address] \in q.met
                      /\ q.step = "passed" => q.met # {"out"}
                      /\ q.step = "not_whitelisted" => q.met # {"in"}
    <3>1. PICK w \in Words : w = word[g][s]
      BY <1>6
    <3>2. PICK q : q = [step |-> "asked", by |-> g, address |-> s, met |-> {w}]
      OBVIOUS
    <3>3. q \in Requests /\ q.step = "asked" /\ q.by = g /\ q.address = s /\ w \in q.met
      BY <3>2 DEF Requests
    <3>4. payout' = [payout EXCEPT ![p] = q]
      BY <2>1, <3>1, <3>2 DEF AskWithdrawal
    <3> QED
      BY <3>1, <3>3, <3>4
  <2>2. ASSUME CheckWhitelist(p)
        PROVE  \E q : /\ payout' = [payout EXCEPT ![p] = q] /\ q \in Requests
                      /\ q.step = "asked" => word[q.by][q.address] \in q.met
                      /\ q.step = "passed" => q.met # {"out"}
                      /\ q.step = "not_whitelisted" => q.met # {"in"}
    <3>1. payout[p].step = "asked"
      BY <2>2 DEF CheckWhitelist
    <3>2. PICK g \in BookGateways, s \in Spellings : g = payout[p].by /\ s = payout[p].address
      BY <3>1, RequestFacts
    <3>3. PICK x \in {"passed", "not_whitelisted", "failed"} :
            /\ payout' = [payout EXCEPT ![p] = [payout[p] EXCEPT !.step = x]]
            /\ x = "passed" => Whitelisted(g, s)
            /\ x = "not_whitelisted" => ~Whitelisted(g, s)
      <4>1. CASE payout' = [payout EXCEPT ![p].step = IF Whitelisted(g, s) THEN "passed" ELSE "not_whitelisted"]
        BY <4>1
      <4>2. CASE payout' = [payout EXCEPT ![p].step = "failed"]
        BY <4>2
      <4> QED
        BY <2>2, <3>2, <4>1, <4>2 DEF CheckWhitelist
    <3>4. PICK q : q = [payout[p] EXCEPT !.step = x]
      OBVIOUS
    <3>5. q \in Requests /\ q.step = x /\ q.met = payout[p].met
      <4>1. payout[p] \in Requests
        BY <3>1, RequestFacts
      <4> QED
        BY <3>4, <4>1 DEF Requests
    <3>6. word[g][s] \in payout[p].met
      BY <3>1, <3>2 DEF BookInv, BookMet
    <3>7. (word[g][s] = "in" => Whitelisted(g, s)) /\ (word[g][s] = "out" => ~Whitelisted(g, s))
      BY DEF BookInv, BookTold
    <3>8. (x = "passed" => q.met # {"out"}) /\ (x = "not_whitelisted" => q.met # {"in"})
      BY <3>3, <3>5, <3>6, <3>7
    <3> QED
      BY <3>3, <3>4, <3>5, <3>8
  <2> QED
    BY <2>1, <2>2
<1>8. payout' \in [BookPayouts -> {NoCall} \cup Requests] /\ payout'[p] = q /\ \A r \in BookPayouts \ {p} : payout'[r] = payout[r]
  BY <1>6, <1>7
<1>9. BookMet'
  <2> SUFFICES ASSUME NEW r \in BookPayouts
      PROVE  /\ payout'[r].step = "asked" => word'[payout'[r].by][payout'[r].address] \in payout'[r].met
             /\ payout'[r].step = "passed" => payout'[r].met # {"out"}
             /\ payout'[r].step = "not_whitelisted" => payout'[r].met # {"in"}
    BY DEF BookMet
  <2>1. CASE r = p
    BY <1>1, <1>7, <1>8, <2>1
  <2>2. CASE r # p
    BY <1>1, <1>8, <2>2 DEF BookInv, BookMet
  <2> QED
    BY <2>1, <2>2
<1>10. BookType'
  BY <1>1, <1>2, <1>8 DEF BookInv, BookType
<1> QED
  BY <1>1, <1>2, <1>5, <1>9, <1>10 DEF BookInv

\* A gateway starts again: its list is empty, and nobody waits for it; the
\* table of a database stays.
LEMMA RestartKeeps ==
  ASSUME BookInv, NEW g \in BookGateways, RestartBook(g)
  PROVE  BookInv'
<1>1. /\ UNCHANGED <<bookSetup, whitelist>> /\ book' = [book EXCEPT ![g] = <<>>]
      /\ amending' = [a \in BookAdmins |-> IF amending[a] # NoCall /\ amending[a].by = g THEN NoCall ELSE amending[a]]
      /\ payout' = [p \in BookPayouts |->
           IF payout[p].step = "asked" /\ payout[p].by = g THEN [payout[p] EXCEPT !.step = "failed"] ELSE payout[p]]
      /\ word' = [h \in BookGateways |-> [t \in Spellings |-> IF ~bookSetup.store /\ h = g THEN "out" ELSE word[h][t]]]
  BY DEF RestartBook
<1>2. /\ BookGateways' = BookGateways /\ Calls' = Calls /\ Requests' = Requests
      /\ \A h, t, k, u : Touches(h, t, k, u)' <=> Touches(h, t, k, u)
  BY <1>1, BookFrame
<1>3. /\ book \in [BookGateways -> Seq(Spellings)] /\ word \in [BookGateways -> [Spellings -> Words]]
      /\ payout \in [BookPayouts -> {NoCall} \cup Requests] /\ amending \in [BookAdmins -> {NoCall} \cup Calls]
      /\ \A h \in BookGateways : Once(book[h])
  BY DEF BookInv, BookType
<1>4. PICK l \in Seq(Spellings) : l = <<>> /\ Len(l) = 0
  <2>1. <<>> \in Seq(Spellings) /\ Len(<<>>) = 0
    OBVIOUS
  <2> QED
    BY <2>1
<1>5. /\ book' \in [BookGateways -> Seq(Spellings)] /\ book'[g] = l
      /\ \A h \in BookGateways \ {g} : book'[h] = book[h]
  BY <1>1, <1>3, <1>4
<1>6. Once(l) /\ \A s : ~Listed(l, s)
  BY <1>4 DEF Once, Listed
<1>7. \A h \in BookGateways : Once(book'[h])
  BY <1>3, <1>5, <1>6
<1>8. \A h \in BookGateways, t \in Spellings : IF ~bookSetup.store /\ h = g THEN ~Whitelisted(h, t)' ELSE Whitelisted(h, t)' <=> Whitelisted(h, t)
  <2> TAKE h \in BookGateways, t \in Spellings
  <2>1. EqualFold(h, t)' = First(book'[h], t) /\ EqualFold(h, t) = First(book[h], t)
    BY EqualFoldIs
  <2>2. First(l, t) = 0
    BY <1>6, FirstFinds
  <2>3. CASE bookSetup.store
    BY <1>1, <2>3 DEF Whitelisted
  <2>4. CASE ~bookSetup.store /\ h = g
    BY <1>1, <1>5, <2>1, <2>2, <2>4 DEF Whitelisted
  <2>5. CASE ~bookSetup.store /\ h # g
    BY <1>1, <1>5, <2>1, <2>5 DEF Whitelisted
  <2> QED
    BY <2>3, <2>4, <2>5
<1>9. /\ word' \in [BookGateways -> [Spellings -> Words]]
      /\ \A h \in BookGateways, t \in Spellings : word'[h][t] = IF ~bookSetup.store /\ h = g THEN "out" ELSE word[h][t]
  <2>1. "out" \in Words
    BY DEF Words
  <2> QED
    BY <1>1, <1>3, <2>1
<1>10. /\ amending' \in [BookAdmins -> {NoCall} \cup Calls]
       /\ \A a \in BookAdmins : amending'[a] # NoCall => amending'[a] = amending[a] /\ amending[a] # NoCall /\ amending[a].by # g
  BY <1>1, <1>3
<1>11. \A b \in BookAdmins, h \in BookGateways, t \in Spellings :
         /\ Amends(b, h, t)' => Amends(b, h, t) /\ amending[b].by # g
         /\ Alone(b, h, t)' => Alone(b, h, t) /\ h # g /\ amending'[b] = amending[b]
  BY <1>2, <1>10 DEF Amends, Alone
<1>12. ASSUME NEW h \in BookGateways, NEW t \in Spellings
       PROVE  /\ word'[h][t] = "in" => Whitelisted(h, t)'
              /\ word'[h][t] = "out" => ~Whitelisted(h, t)'
              /\ word'[h][t] # "unknown" => \A b \in BookAdmins : ~Amends(b, h, t)'
  <2>1. CASE ~bookSetup.store /\ h = g
    <3>1. \A b \in BookAdmins : ~Amends(b, h, t)'
      BY <1>11, <2>1 DEF Amends, Touches, Reach
    <3> QED
      BY <1>8, <1>9, <2>1, <3>1
  <2>2. CASE ~(~bookSetup.store /\ h = g)
    BY <1>8, <1>9, <1>11, <2>2 DEF BookInv, BookTold
  <2> QED
    BY <2>1, <2>2
<1>13. BookTold'
  <2>1. \A b \in BookAdmins, h \in BookGateways, t \in Spellings : Alone(b, h, t)' =>
          /\ amending'[b].step = "in" => Whitelisted(h, t)'
          /\ amending'[b].step = "out" => ~Whitelisted(h, t)'
          /\ \A c \in BookAdmins \ {b} : ~Amends(c, h, t)'
    BY <1>8, <1>11 DEF BookInv, BookTold
  <2> QED
    BY <1>2, <1>12, <2>1 DEF BookTold
<1>14. ASSUME NEW p \in BookPayouts
       PROVE  /\ payout'[p] \in {NoCall} \cup Requests
              /\ payout'[p].step = "asked" => word'[payout'[p].by][payout'[p].address] \in payout'[p].met
              /\ payout'[p].step = "passed" => payout'[p].met # {"out"}
              /\ payout'[p].step = "not_whitelisted" => payout'[p].met # {"in"}
  <2>1. CASE payout[p].step = "asked" /\ payout[p].by = g
    <3>1. payout[p] \in Requests
      BY <2>1, RequestFacts
    <3>2. PICK q : q = [payout[p] EXCEPT !.step = "failed"]
      OBVIOUS
    <3>3. q \in Requests /\ q.step = "failed"
      BY <3>1, <3>2 DEF Requests
    <3> QED
      BY <1>1, <2>1, <3>2, <3>3
  <2>2. CASE ~(payout[p].step = "asked" /\ payout[p].by = g)
    <3>1. payout'[p] = payout[p]
      BY <1>1, <2>2
    <3>2. payout[p].step = "asked" => word'[payout[p].by][payout[p].address] = word[payout[p].by][payout[p].address]
      BY <1>9, <2>2, RequestFacts
    <3> QED
      BY <1>3, <3>1, <3>2 DEF BookInv, BookMet
  <2> QED
    BY <2>1, <2>2
<1>15. BookMet' /\ payout' \in [BookPayouts -> {NoCall} \cup Requests]
  BY <1>1, <1>14 DEF BookMet
<1>16. BookType'
  BY <1>1, <1>2, <1>5, <1>9, <1>10, <1>15 DEF BookInv, BookType
<1> QED
  BY <1>2, <1>7, <1>13, <1>15, <1>16 DEF BookInv

\* Every step keeps the invariant.
LEMMA BookNextKeeps ==
  ASSUME BookInv, [BookNext]_bookVars, \A s \in BookSetups : s.admins \subseteq BookAdmins /\ s.payouts \subseteq BookPayouts
  PROVE  BookInv'
<1>1. bookSetup.admins \subseteq BookAdmins /\ bookSetup.payouts \subseteq BookPayouts
  BY DEF BookInv, BookType
<1>2. CASE UNCHANGED bookVars
  <2>1. UNCHANGED <<bookSetup, whitelist, book, amending, payout, word>>
    BY <1>2 DEF bookVars
  <2>2. /\ BookGateways' = BookGateways /\ Calls' = Calls /\ Requests' = Requests
        /\ \A h, t, k, u : Touches(h, t, k, u)' <=> Touches(h, t, k, u)
    BY <2>1, BookFrame
  <2>3. \A h \in BookGateways, t \in Spellings : Whitelisted(h, t)' <=> Whitelisted(h, t)
    BY <2>1 DEF Whitelisted, EqualFold, SelectInSeq
  <2>4. \A b, h, t : (Amends(b, h, t)' <=> Amends(b, h, t)) /\ (Alone(b, h, t)' <=> Alone(b, h, t))
    BY <2>1, <2>2 DEF Amends, Alone
  <2>5. BookTold'
    BY <2>1, <2>2, <2>3, <2>4 DEF BookInv, BookTold
  <2>6. BookType' /\ BookMet'
    BY <2>1, <2>2 DEF BookInv, BookType, BookMet
  <2> QED
    BY <2>1, <2>2, <2>5, <2>6 DEF BookInv
<1>3. ASSUME NEW a \in BookAdmins, NEW g \in BookGateways, NEW s \in Spellings, NEW op \in {"add", "remove"}, Amend(a, g, op, s)
      PROVE  BookInv'
  BY <1>3, AmendKeeps
<1>4. ASSUME NEW a \in BookAdmins, AddAddress(a) \/ RemoveAddress(a) \/ AnswerAdmin(a) PROVE BookInv'
  BY <1>4, StoreKeeps, AnswerKeeps
<1>5. ASSUME NEW p \in BookPayouts, (\E g \in BookGateways, s \in Spellings : AskWithdrawal(p, g, s)) \/ CheckWhitelist(p) PROVE BookInv'
  BY <1>5, PayoutKeeps
<1>6. ASSUME NEW g \in BookGateways, RestartBook(g) PROVE BookInv'
  BY <1>6, RestartKeeps
<1> QED
  BY <1>1, <1>2, <1>3, <1>4, <1>5, <1>6 DEF BookNext

\* For any spellings, gateways and numbers of administrators and withdrawals,
\* with or without a database: an address administrators know to be listed is
\* not refused, and one they know not to be listed does not pass
\* (RequestWithdrawal, AddAddress, RemoveAddress).
THEOREM WithdrawalsHonourList == BookSpec => []WhitelistHonoured
<1>1. \A s \in BookSetups : s.admins \subseteq BookAdmins /\ s.payouts \subseteq BookPayouts
  BY BookAssumption
<1>2. BookInv /\ [BookNext]_bookVars => BookInv'
  BY <1>1, BookNextKeeps
<1>3. BookInv => WhitelistHonoured
  BY DEF BookInv, BookMet, WhitelistHonoured
<1> QED
  BY <1>2, <1>3, BookStart, PTL DEF BookSpec

-----------------------------------------------------------------------------
(***************************************************************************)
(* The pool.  While one gateway writes the row (OneWriter), its mutex lets *)
(* it write back what it read: what it has in hand tells, step by step,    *)
(* how much the wallets have paid that the row does not show.              *)
(***************************************************************************)
PoolRow    == [reserve : [Tokens -> Int], lp : Int, fees : [Tokens -> Int]]
PoolChange == [delta : [Tokens -> Int], fee : [Tokens -> Int], lp : Int]
InProgress ==
  [step : {"settle", "reserves", "fees", "position", "save"}, kind : {"add", "remove", "swap"},
   user : AmmUsers, read : PoolRow, change : PoolChange, position : Int, unread : BOOLEAN]

PoolType ==
  /\ ammSetup \in AmmSetups
  /\ ammPool \in PoolRow
  /\ ammWallet \in [AmmUsers -> [Tokens -> Int]]
  /\ ammShares \in [AmmUsers -> Int]
  /\ ammLost \in [tokens : [Tokens -> Int], lp : Int]
  /\ ammOp \in [ammSetup.gateways \cup {"simulator", "seeder"} -> {Idle} \cup InProgress]
  /\ ammOp["simulator"] = Idle /\ ammOp["seeder"] = Idle

\* What an operation in hand knows of the row and of the position it will write.
Knows(o) ==
  /\ o.step \in {"settle", "reserves"} => o.read = ammPool
  /\ o.step = "fees" => o.kind = "swap" /\ o.read.fees = ammPool.fees
  /\ o.step = "position" => o.kind = "add"
  /\ o.step = "save" => o.kind # "swap" /\ o.position = IF o.unread THEN 0 ELSE ammShares[o.user]
  /\ o.kind = "remove" => o.position = ammShares[o.user]
  /\ o.step # "save" => ~o.unread
  /\ IF o.kind = "swap" THEN o.change.lp = 0 ELSE o.change.fee = Zero /\ (o.unread => o.kind = "add")
  /\ o.kind = "add" /\ o.step # "save" => o.position = 0

PoolKnown == \A g \in ammSetup.gateways : ammOp[g] = Idle \/ Knows(ammOp[g])

SeedLP == IF ammSetup.seeded THEN Seeded(EmptyPool).lp ELSE 0
PoolSums ==
  \A g \in ammSetup.gateways :
    /\ \A t \in Tokens :
         SumOver(Held(t), AmmUsers) + ammPool.reserve[t] + ammPool.fees[t] + Unwritten(g, t) + ammLost.tokens[t]
         = Cardinality(AmmUsers) * AmmStart + (IF ammSetup.seeded THEN SeedReserve ELSE 0)
    /\ ammPool.lp = SeedLP + SumOver(ammShares, AmmUsers) + UnwrittenShares(g) + ammLost.lp

PoolInv == OneWriter => PoolType /\ PoolKnown /\ PoolSums

\* The greatest integer whose square does not exceed x (sqrtBigFloat).
LEMMA SqrtType ==
  ASSUME NEW x \in Nat
  PROVE  Sqrt(x) \in 0..x
<1> DEFINE S == {r \in 0..x : r * r <= x}
           R == {p \in S \X S : p[2] < p[1]}
<1>1. IsFiniteSet(S) /\ S # {}
  <2>1. IsFiniteSet(0..x)
    BY FS_Interval
  <2>2. 0 \in S
    OBVIOUS
  <2> QED
    BY <2>1, <2>2, FS_Subset
<1>2. \A a, b : <<a, b>> \in R <=> a \in S /\ b \in S /\ b < a
  OBVIOUS
<1>3. \A a \in S : a \in Nat /\ a * a <= x /\ a <= x
  OBVIOUS
<1>4. \A a : a \in 0..x /\ a * a <= x => a \in S
  OBVIOUS
<1>5. PICK m \in S : \A n \in S \ {m} : n < m
  <2> HIDE DEF S, R
  <2>1. \A a, b \in S : a # b => <<a, b>> \in R \/ <<b, a>> \in R
    BY <1>2, <1>3
  <2>2. \A a, b, c \in S : <<a, b>> \in R /\ <<b, c>> \in R => <<a, c>> \in R
    BY <1>2, <1>3
  <2>3. \E m \in S : \A n \in S \ {m} : <<m, n>> \in R
    BY <1>1, <2>1, <2>2, LeastExists
  <2> QED
    BY <2>3, <1>2
<1> HIDE DEF S
<1>6. m \in 0..x /\ m * m <= x
  BY <1>3
<1>7. (m + 1) * (m + 1) > x
  <2>1. CASE m + 1 <= x
    <3>1. m + 1 \notin S
      BY <1>5, <1>6
    <3> QED
      BY <3>1, <1>4, <1>6, <2>1
  <2>2. CASE ~(m + 1 <= x)
    <3>1. (m + 1) * (m + 1) >= m + 1
      BY <1>6
    <3> QED
      BY <3>1, <2>2, <1>6
  <2> QED
    BY <2>1, <2>2
<1> QED
  BY <1>6, <1>7 DEF Sqrt

\* A quotient is a whole number of units (textF).
LEMMA QuoType ==
  ASSUME NEW a \in Int, NEW b \in Int, b > 0
  PROVE  Quo(a, b) \in Int
BY DEF Quo

\* A fee rate below one takes no more than there is.
LEMMA FeeBound ==
  ASSUME NEW a \in Nat
  PROVE  FeeOf(a) \in Int /\ FeeOf(a) <= a
<1>1. /\ FeeNum \in Nat /\ FeeDen \in Nat /\ FeeDen > 0 /\ FeeNum < FeeDen
  BY AmmAssumption
<1> DEFINE n == a * FeeNum
           d == a * FeeDen
           q == (2 * n + FeeDen) \div (2 * FeeDen)
<1>2. n \in Nat /\ d \in Nat /\ n <= d
  BY <1>1
<1>3. q \in Int /\ (2 * FeeDen) * q <= 2 * n + FeeDen
  BY <1>1, <1>2
<1>4. q <= a
  <2> SUFFICES ASSUME q >= a + 1 PROVE FALSE
    BY <1>3
  <2>1. (2 * FeeDen) * q >= (2 * FeeDen) * (a + 1)
    BY <1>1, <1>3
  <2>2. (2 * FeeDen) * (a + 1) = 2 * d + 2 * FeeDen
    BY <1>1
  <2> HIDE DEF n, d, q
  <2> QED
    BY <1>1, <1>2, <1>3, <2>1, <2>2
<1> QED
  BY <1>3, <1>4 DEF FeeOf, Quo

-----------------------------------------------------------------------------
\* The seed: as many shares as the root of its product.
LEMMA SeededType ==
  ASSUME NEW p \in PoolRow
  PROVE  Seeded(p) \in PoolRow /\ EmptyPool \in PoolRow
<1>1. SeedReserve \in Nat /\ SeedReserve * SeedReserve \in Nat
  BY AmmAssumption
<1>2. Sqrt(SeedReserve * SeedReserve) \in Int
  BY <1>1, SqrtType
<1> DEFINE r == [t \in Tokens |-> SeedReserve]
<1>3. r \in [Tokens -> Int] /\ Zero \in [Tokens -> Int]
  BY <1>1 DEF Zero
<1> HIDE DEF r
<1>4. [p EXCEPT !.reserve = r, !.lp = Sqrt(SeedReserve * SeedReserve)] \in PoolRow
  BY <1>2, <1>3 DEF PoolRow
<1> QED
  BY <1>3, <1>4 DEF Seeded, EmptyPool, PoolRow, r

\* The amounts of a request are whole numbers of units.
LEMMA DepositType ==
  ASSUME NEW p \in PoolRow, NEW a \in AddRequests, p.lp = 0 \/ p.reserve[0] > 0
  PROVE  DepositOf(p, a) \in PoolChange /\ DepositOf(p, a).fee = Zero
<1>0. a \in [Tokens -> Nat]
  BY AmmAssumption DEF AddRequests
<1>1. a \in [Tokens -> Int] /\ a[0] \in Nat /\ a[1] \in Nat /\ a[0] * a[1] \in Nat
  BY <1>0 DEF Tokens
<1>2. p.reserve[0] \in Int /\ p.reserve[1] \in Int /\ p.lp \in Int
  BY DEF PoolRow, Tokens
<1>3. Zero \in [Tokens -> Int]
  BY DEF Zero
<1>4. CASE p.lp = 0
  <2>1. Sqrt(a[0] * a[1]) \in Int
    BY <1>1, SqrtType
  <2>2. DepositOf(p, a) = Change(a, Zero, Sqrt(a[0] * a[1]))
    BY <1>4 DEF DepositOf
  <2> QED
    BY <1>1, <1>3, <2>1, <2>2 DEF Change, PoolChange
<1>5. CASE p.lp # 0
  <2> DEFINE x == Quo(a[0] * p.reserve[1], p.reserve[0])
             y == Quo(a[0] * p.lp, p.reserve[0])
  <2>1. x \in Int /\ y \in Int
    BY <1>1, <1>2, <1>5, QuoType
  <2> HIDE DEF x, y
  <2>2. Min({a[1], x}) \in Int
    <3>1. \E m \in {a[1], x} : \A n \in {a[1], x} : m <= n
      BY <1>1, <2>1
    <3>2. Min({a[1], x}) \in {a[1], x}
      BY <3>1 DEF Min
    <3> QED
      BY <1>1, <2>1, <3>2
  <2>3. DepositOf(p, a) = Change(Both(0, a[0], Min({a[1], x})), Zero, y)
    BY <1>5 DEF DepositOf, x, y
  <2>4. Both(0, a[0], Min({a[1], x})) \in [Tokens -> Int]
    BY <1>1, <2>2 DEF Both
  <2> QED
    BY <1>3, <2>1, <2>3, <2>4 DEF Change, PoolChange
<1> QED
  BY <1>4, <1>5

LEMMA BurnType ==
  ASSUME NEW p \in PoolRow, NEW s \in RemoveRequests, p.lp > 0
  PROVE  BurnOf(p, s) \in PoolChange /\ BurnOf(p, s).fee = Zero
<1>1. s \in Nat /\ p.lp \in Int /\ \A t \in Tokens : p.reserve[t] \in Int
  BY AmmAssumption DEF RemoveRequests, PoolRow
<1>2. \A t \in Tokens : Quo(s * p.reserve[t], p.lp) \in Int
  BY <1>1, QuoType
<1>3. [t \in Tokens |-> -Quo(s * p.reserve[t], p.lp)] \in [Tokens -> Int]
  BY <1>2
<1>4. Zero \in [Tokens -> Int]
  BY DEF Zero
<1> QED
  BY <1>1, <1>3, <1>4 DEF BurnOf, Change, PoolChange

LEMMA SwapType ==
  ASSUME NEW p \in PoolRow, NEW in \in Tokens, NEW a \in AmmAmounts, Tradable(p)
  PROVE  SwapOf(p, in, a) \in PoolChange /\ SwapOf(p, in, a).lp = 0
<1>1. /\ a \in Nat /\ FeeOf(a) \in Int /\ FeeOf(a) <= a
  BY AmmAssumption, FeeBound
<1>2. /\ p.reserve[in] \in Int /\ p.reserve[in] > 0 /\ p.reserve[1 - in] \in Int
  BY DEF PoolRow, Tradable, Tokens
<1>3. p.reserve[1 - in] * (a - FeeOf(a)) \in Int
  BY <1>1, <1>2
<1>4. AmountOut(p, in, a) \in Int
  BY <1>1, <1>2, <1>3, QuoType DEF AmountOut
<1>5. /\ Both(in, a - FeeOf(a), -AmountOut(p, in, a)) \in [Tokens -> Int]
      /\ Both(in, FeeOf(a), 0) \in [Tokens -> Int]
  BY <1>1, <1>4 DEF Both
<1> QED
  BY <1>5 DEF SwapOf, Change, PoolChange

-----------------------------------------------------------------------------
\* What is in hand is in the gateway's.
LEMMA InTheGateway ==
  ASSUME PoolType, NEW g, ammSetup.gateways = {g}
  PROVE  /\ \A t \in Tokens : SumOver(InHand(t), Writers) = Unwritten(g, t) /\ Unwritten(g, t) \in Int
         /\ SumOver(SharesInHand, Writers) = UnwrittenShares(g) /\ UnwrittenShares(g) \in Int
<1>1. Writers = {g, "simulator"} /\ g \in Writers /\ IsFiniteSet(Writers)
  <2>1. IsFiniteSet({g}) /\ IsFiniteSet({"simulator"})
    BY FS_Singleton
  <2> QED
    BY <2>1, FS_Union DEF Writers
<1>2. ammOp[g] \in {Idle} \cup InProgress
  BY DEF PoolType
<1>3. ammOp["simulator"].step = "idle"
  BY DEF PoolType, Idle
<1>4. \A w \in Writers : w # g => /\ UnwrittenShares(w) = 0
                                 /\ \A t \in Tokens : Unwritten(w, t) = 0
  BY <1>1, <1>3 DEF Unwritten, UnwrittenShares
<1>5. UnwrittenShares(g) \in Int /\ \A t \in Tokens : Unwritten(g, t) \in Int
  BY <1>2 DEF Unwritten, UnwrittenShares, Idle, InProgress, PoolChange
<1>6. \A f : SumOver(f, {g}) = IF f[g] \in Int THEN f[g] ELSE SumOver(f, {g})
  <2> SUFFICES ASSUME NEW f, f[g] \in Int PROVE SumOver(f, {g}) = f[g]
    OBVIOUS
  <2>1. IsFiniteSet({}) /\ g \notin {} /\ {} \cup {g} = {g}
    BY FS_EmptySet
  <2> QED
    BY <2>1, SumAdd, SumEmpty DEF IntOn
<1>7. ASSUME NEW t \in Tokens
      PROVE  SumOver(InHand(t), Writers) = Unwritten(g, t)
  <2>1. \A w \in Writers : InHand(t)[w] = Unwritten(w, t)
    BY DEF InHand
  <2>2. IntOn(InHand(t), Writers) /\ \A w \in Writers \ {g} : InHand(t)[w] = 0
    BY <1>4, <1>5, <2>1 DEF IntOn
  <2> QED
    BY <1>1, <1>5, <1>6, <2>1, <2>2, SumSupport
<1>8. SumOver(SharesInHand, Writers) = UnwrittenShares(g)
  <2>1. \A w \in Writers : SharesInHand[w] = UnwrittenShares(w)
    BY DEF SharesInHand
  <2>2. IntOn(SharesInHand, Writers) /\ \A w \in Writers \ {g} : SharesInHand[w] = 0
    BY <1>4, <1>5, <2>1 DEF IntOn
  <2> QED
    BY <1>1, <1>5, <1>6, <2>1, <2>2, SumSupport
<1> QED
  BY <1>5, <1>7, <1>8

\* One gateway has its own name.
LEMMA TheGateway ==
  ASSUME ammSetup \in AmmSetups, OneWriter
  PROVE  \E g : ammSetup.gateways = {g} /\ g \notin {"simulator", "seeder"}
<1>1. IsFiniteSet(ammSetup.gateways) /\ ammSetup.gateways \cap {"simulator", "seeder"} = {}
  BY AmmAssumption
<1> QED
  BY <1>1, FS_Singleton DEF OneWriter

\* AmmInit: the wallets are full, and the seed is nobody's.
LEMMA PoolStart == AmmInit => PoolInv
<1> SUFFICES ASSUME AmmInit, OneWriter PROVE PoolType /\ PoolKnown /\ PoolSums
  BY DEF PoolInv
<1>1. ammSetup \in AmmSetups
  BY DEF AmmInit
<1>2. PICK g : ammSetup.gateways = {g} /\ g \notin {"simulator", "seeder"}
  BY <1>1, TheGateway
<1>3. IsFiniteSet(AmmUsers) /\ AmmStart \in Nat /\ SeedReserve \in Nat
  BY AmmAssumption
<1>4. EmptyPool \in PoolRow /\ Seeded(EmptyPool) \in PoolRow /\ Zero \in [Tokens -> Int]
  <2>1. EmptyPool \in PoolRow
    BY DEF EmptyPool, PoolRow, Zero
  <2> QED
    BY <2>1, SeededType DEF Zero
<1>5. PoolType
  <2>1. ammPool \in PoolRow
    BY <1>4 DEF AmmInit
  <2>2. ammWallet \in [AmmUsers -> [Tokens -> Int]] /\ ammShares \in [AmmUsers -> Int]
    BY <1>3 DEF AmmInit
  <2>3. ammLost \in [tokens : [Tokens -> Int], lp : Int]
    BY <1>4 DEF AmmInit
  <2> QED
    BY <1>1, <2>1, <2>2, <2>3 DEF AmmInit, PoolType
<1>6. ammOp[g] = Idle
  BY <1>2 DEF AmmInit
<1>7. PoolKnown
  BY <1>2, <1>6 DEF PoolKnown
<1>8. UnwrittenShares(g) = 0 /\ \A t \in Tokens : Unwritten(g, t) = 0
  BY <1>6 DEF UnwrittenShares, Unwritten, Idle
<1>9. ASSUME NEW t \in Tokens
      PROVE  /\ SumOver(Held(t), AmmUsers) = Cardinality(AmmUsers) * AmmStart
             /\ ammPool.reserve[t] = IF ammSetup.seeded THEN SeedReserve ELSE 0
             /\ ammPool.fees[t] = 0 /\ ammLost.tokens[t] = 0
  <2>1. \A u \in AmmUsers : Held(t)[u] = AmmStart
    BY DEF AmmInit, Held
  <2>2. SumOver(Held(t), AmmUsers) = Cardinality(AmmUsers) * AmmStart
    BY <1>3, <2>1, SumConstant
  <2> QED
    BY <2>2 DEF AmmInit, EmptyPool, Seeded, Zero
<1>10. SumOver(ammShares, AmmUsers) = 0
  BY <1>3, SumZero DEF AmmInit
<1>11. ammPool.lp = SeedLP /\ SeedLP \in Int
  BY <1>4 DEF AmmInit, SeedLP, EmptyPool, PoolRow
<1>12. Cardinality(AmmUsers) * AmmStart \in Int
  BY <1>3, FS_CardinalityType
<1>13. PoolSums
  <2>1. ammLost.lp = 0
    BY DEF AmmInit
  <2> QED
    BY <1>2, <1>3, <1>8, <1>9, <1>10, <1>11, <1>12, <2>1 DEF PoolSums
<1> QED
  BY <1>5, <1>7, <1>13

-----------------------------------------------------------------------------
\* What one step of the one gateway has to show, for the operation it has in
\* hand afterwards.
LEMMA GatewayStep ==
  ASSUME PoolType, PoolKnown, PoolSums, NEW g, ammSetup.gateways = {g}, g \notin {"simulator", "seeder"},
         NEW new, new \in {Idle} \cup InProgress, ammOp' = [ammOp EXCEPT ![g] = new], UNCHANGED ammSetup,
         ammPool' \in PoolRow, ammWallet' \in [AmmUsers -> [Tokens -> Int]], ammShares' \in [AmmUsers -> Int],
         ammLost' \in [tokens : [Tokens -> Int], lp : Int],
         new = Idle \/ Knows(new)',
         \A t \in Tokens :
           SumOver(Held(t)', AmmUsers) + ammPool'.reserve[t] + ammPool'.fees[t] + Unwritten(g, t)' + ammLost'.tokens[t]
           = SumOver(Held(t), AmmUsers) + ammPool.reserve[t] + ammPool.fees[t] + Unwritten(g, t) + ammLost.tokens[t],
         ammPool'.lp - SumOver(ammShares', AmmUsers) - UnwrittenShares(g)' - ammLost'.lp
         = ammPool.lp - SumOver(ammShares, AmmUsers) - UnwrittenShares(g) - ammLost.lp
  PROVE  PoolType' /\ PoolKnown' /\ PoolSums'
<1>1. ammOp'[g] = new /\ \A w : w # g => ammOp'[w] = ammOp[w]
  BY DEF PoolType
<1>2. PoolType'
  BY <1>1 DEF PoolType
<1>3. PoolKnown'
  BY <1>1 DEF PoolKnown
<1>4. PoolSums'
  <2>1. \A t \in Tokens :
          SumOver(Held(t), AmmUsers) + ammPool.reserve[t] + ammPool.fees[t] + Unwritten(g, t) + ammLost.tokens[t]
          = Cardinality(AmmUsers) * AmmStart + (IF ammSetup.seeded THEN SeedReserve ELSE 0)
    BY DEF PoolSums
  <2>2. ammPool'.lp = SeedLP' + SumOver(ammShares', AmmUsers) + UnwrittenShares(g)' + ammLost'.lp
    <3>1. ammPool.lp = SeedLP + SumOver(ammShares, AmmUsers) + UnwrittenShares(g) + ammLost.lp
      BY DEF PoolSums
    <3>2. SeedLP' = SeedLP /\ SeedLP \in Int
      <4>1. EmptyPool \in PoolRow
        BY DEF EmptyPool, PoolRow, Zero
      <4>2. Seeded(EmptyPool).lp \in Int
        BY <4>1, SeededType DEF PoolRow
      <4> QED
        BY <4>2 DEF SeedLP
    <3>3. /\ SumOver(ammShares, AmmUsers) \in Int /\ SumOver(ammShares', AmmUsers) \in Int
      BY AmmAssumption, SumType DEF PoolType, IntOn
    <3>4. UnwrittenShares(g) \in Int /\ UnwrittenShares(g)' \in Int
      <4>1. UnwrittenShares(g) \in Int
        BY InTheGateway
      <4>2. UnwrittenShares(g)' \in Int
        BY <1>1 DEF UnwrittenShares, Idle, InProgress, PoolChange
      <4> QED
        BY <4>1, <4>2
    <3>5. ammPool.lp \in Int /\ ammPool'.lp \in Int /\ ammLost.lp \in Int /\ ammLost'.lp \in Int
      BY DEF PoolType, PoolRow
    <3> QED
      BY <3>1, <3>2, <3>3, <3>4, <3>5
  <2>3. ammSetup'.gateways = {g} /\ ammSetup'.seeded = ammSetup.seeded
    OBVIOUS
  <2> QED
    BY <2>1, <2>2, <2>3 DEF PoolSums
<1> QED
  BY <1>2, <1>3, <1>4

\* A request begins: it has read the row, and moved nothing.
LEMMA BeginKeeps ==
  ASSUME PoolType, PoolKnown, PoolSums, NEW g, ammSetup.gateways = {g}, g \notin {"simulator", "seeder"},
         NEW kind \in {"add", "remove", "swap"}, NEW u \in AmmUsers, NEW c \in PoolChange,
         IF kind = "swap" THEN c.lp = 0 ELSE c.fee = Zero,
         Begin(g, kind, u, "settle", c)
  PROVE  PoolType' /\ PoolKnown' /\ PoolSums'
<1>0. PICK new : new = [step |-> "settle", kind |-> kind, user |-> u, read |-> ammPool, change |-> c,
                       position |-> IF kind = "remove" THEN ammShares[u] ELSE 0, unread |-> FALSE]
  OBVIOUS
<1>1. ammOp[g].step = "idle" /\ ammOp' = [ammOp EXCEPT ![g] = new]
      /\ UNCHANGED <<ammSetup, ammPool, ammWallet, ammShares, ammLost>>
  BY <1>0 DEF Begin
<1>2. new \in InProgress
  BY <1>0 DEF PoolType, InProgress
<1>3. Knows(new)'
  BY <1>0, <1>1 DEF Knows
<1>4. new.step = "settle"
  BY <1>0
<1>5. ammOp'[g] = new
  BY <1>1 DEF PoolType
<1>6. /\ UnwrittenShares(g) = 0 /\ UnwrittenShares(g)' = 0
      /\ \A t \in Tokens : Unwritten(g, t) = 0 /\ Unwritten(g, t)' = 0
  BY <1>1, <1>4, <1>5 DEF UnwrittenShares, Unwritten
<1>7. \A t \in Tokens : Held(t)' = Held(t)
  BY <1>1 DEF Held
<1>8. /\ ammPool' \in PoolRow /\ ammWallet' \in [AmmUsers -> [Tokens -> Int]] /\ ammShares' \in [AmmUsers -> Int]
      /\ ammLost' \in [tokens : [Tokens -> Int], lp : Int]
  BY <1>1 DEF PoolType
<1>9. \A t \in Tokens :
        SumOver(Held(t)', AmmUsers) + ammPool'.reserve[t] + ammPool'.fees[t] + Unwritten(g, t)' + ammLost'.tokens[t]
        = SumOver(Held(t), AmmUsers) + ammPool.reserve[t] + ammPool.fees[t] + Unwritten(g, t) + ammLost.tokens[t]
  BY <1>1, <1>6, <1>7
<1>10. ammPool'.lp - SumOver(ammShares', AmmUsers) - UnwrittenShares(g)' - ammLost'.lp
       = ammPool.lp - SumOver(ammShares, AmmUsers) - UnwrittenShares(g) - ammLost.lp
  BY <1>1, <1>6
<1> QED
  BY <1>1, <1>2, <1>3, <1>8, <1>9, <1>10, GatewayStep

\* A request of the gateway.
LEMMA RequestKeeps ==
  ASSUME PoolType, PoolKnown, PoolSums, NEW g, ammSetup.gateways = {g}, g \notin {"simulator", "seeder"},
         AmmRequest(g)
  PROVE  PoolType' /\ PoolKnown' /\ PoolSums'
<1>0. ammPool \in PoolRow
  BY DEF PoolType
<1>1. CASE AddLiquidity(g)
  <2>1. PICK u \in AmmUsers, a \in AddRequests : Begin(g, "add", u, "settle", DepositOf(ammPool, a))
    BY <1>1 DEF AddLiquidity
  <2>2. DepositOf(ammPool, a) \in PoolChange /\ DepositOf(ammPool, a).fee = Zero
    BY <1>0, <1>1, DepositType DEF AddLiquidity
  <2> QED
    BY <2>1, <2>2, BeginKeeps
<1>2. CASE RemoveLiquidity(g)
  <2>1. PICK u \in AmmUsers, s \in RemoveRequests :
          0 < ammPool.lp /\ Begin(g, "remove", u, "settle", BurnOf(ammPool, s))
    BY <1>2 DEF RemoveLiquidity
  <2>2. BurnOf(ammPool, s) \in PoolChange /\ BurnOf(ammPool, s).fee = Zero
    BY <1>0, <2>1, BurnType
  <2> QED
    BY <2>1, <2>2, BeginKeeps
<1>3. CASE ExecuteSwap(g)
  <2>1. PICK u \in AmmUsers, r \in SwapRequests :
          Tradable(ammPool) /\ Begin(g, "swap", u, "settle", SwapOf(ammPool, r.in, r.amount))
    BY <1>3 DEF ExecuteSwap
  <2>2. r.in \in Tokens /\ r.amount \in AmmAmounts
    BY DEF SwapRequests
  <2>3. SwapOf(ammPool, r.in, r.amount) \in PoolChange /\ SwapOf(ammPool, r.in, r.amount).lp = 0
    BY <1>0, <2>1, <2>2, SwapType
  <2> QED
    BY <2>1, <2>3, BeginKeeps
<1> QED
  BY <1>1, <1>2, <1>3 DEF AmmRequest

\* What the gateway has in hand, unless it is idle.
LEMMA InHandNow ==
  ASSUME PoolType, PoolKnown, NEW g \in ammSetup.gateways, ammOp[g].step # "idle"
  PROVE  ammOp[g] \in InProgress /\ Knows(ammOp[g])
<1>1. ammOp[g] \in {Idle} \cup InProgress /\ ammOp[g] # Idle
  BY DEF PoolType, Idle
<1> QED
  BY <1>1 DEF PoolKnown

\* After: the operation goes on at the step, or is over.
LEMMA AfterStep ==
  ASSUME PoolType, NEW g \in ammSetup.gateways, NEW o \in InProgress, ammOp[g] = o, NEW step, After(g, step),
         step \in {"idle", "settle", "reserves", "fees", "position", "save"}
  PROVE  \E new \in {Idle} \cup InProgress :
           /\ ammOp' = [ammOp EXCEPT ![g] = new] /\ ammOp'[g] = new /\ new.step = step
           /\ IF step = "idle" THEN new = Idle ELSE new = [o EXCEPT !.step = step]
<1> DEFINE new == IF step = "idle" THEN Idle ELSE [o EXCEPT !.step = step]
<1>1. new \in {Idle} \cup InProgress /\ new.step = step
  BY DEF Idle, InProgress
<1>2. ammOp' = [ammOp EXCEPT ![g] = new] /\ ammOp'[g] = new
  BY DEF After, PoolType
<1> QED
  BY <1>1, <1>2

\* The transaction over the user's wallets: they pay what is then unwritten.
LEMMA SettleKeeps ==
  ASSUME PoolType, PoolKnown, PoolSums, NEW g, ammSetup.gateways = {g}, g \notin {"simulator", "seeder"},
         SettleSwap(g)
  PROVE  PoolType' /\ PoolKnown' /\ PoolSums'
<1>0. PICK o : o = ammOp[g]
  OBVIOUS
<1>1. o.step = "settle" /\ UNCHANGED <<ammSetup, ammPool, ammShares, ammLost>>
  BY <1>0 DEF SettleSwap
<1>2. o \in InProgress /\ Knows(o)
  BY <1>0, <1>1, InHandNow
<1>3. /\ ammPool' \in PoolRow /\ ammShares' \in [AmmUsers -> Int]
      /\ ammLost' \in [tokens : [Tokens -> Int], lp : Int]
      /\ ammWallet \in [AmmUsers -> [Tokens -> Int]]
  BY <1>1 DEF PoolType
<1>4. UnwrittenShares(g) = 0 /\ \A t \in Tokens : Unwritten(g, t) = 0
  BY <1>0, <1>1 DEF UnwrittenShares, Unwritten
<1>5. CASE ammWallet' = ammWallet /\ After(g, "idle")
  <2>1. PICK new \in {Idle} \cup InProgress :
          ammOp' = [ammOp EXCEPT ![g] = new] /\ ammOp'[g] = new /\ new = Idle
    BY <1>0, <1>2, <1>5, AfterStep
  <2>2. UnwrittenShares(g)' = 0 /\ \A t \in Tokens : Unwritten(g, t)' = 0 /\ Held(t)' = Held(t)
    BY <1>5, <2>1 DEF UnwrittenShares, Unwritten, Idle, Held
  <2>3. \A t \in Tokens :
          SumOver(Held(t)', AmmUsers) + ammPool'.reserve[t] + ammPool'.fees[t] + Unwritten(g, t)' + ammLost'.tokens[t]
          = SumOver(Held(t), AmmUsers) + ammPool.reserve[t] + ammPool.fees[t] + Unwritten(g, t) + ammLost.tokens[t]
    BY <1>1, <1>4, <2>2
  <2>4. ammPool'.lp - SumOver(ammShares', AmmUsers) - UnwrittenShares(g)' - ammLost'.lp
        = ammPool.lp - SumOver(ammShares, AmmUsers) - UnwrittenShares(g) - ammLost.lp
    BY <1>1, <1>4, <2>2
  <2>5. new = Idle \/ Knows(new)'
    BY <2>1
  <2>6. ammWallet' \in [AmmUsers -> [Tokens -> Int]]
    BY <1>3, <1>5
  <2> QED
    BY <1>1, <1>3, <2>1, <2>3, <2>4, <2>5, <2>6, GatewayStep
<1>6. CASE ammWallet' = [ammWallet EXCEPT ![o.user] = WalletAfter(o)] /\ After(g, "reserves")
  <2>0. o.user \in AmmUsers /\ o.change \in PoolChange
    BY <1>2 DEF InProgress
  <2>1. PICK new \in {Idle} \cup InProgress :
          ammOp' = [ammOp EXCEPT ![g] = new] /\ ammOp'[g] = new /\ new = [o EXCEPT !.step = "reserves"]
    BY <1>0, <1>2, <1>6, AfterStep
  <2>2. new.step = "reserves" /\ new.kind = o.kind /\ new.change = o.change /\ new.kind # "simulated"
    BY <1>2, <2>1 DEF InProgress
  <2>3. UnwrittenShares(g)' = 0
    BY <2>1, <2>2 DEF UnwrittenShares
  <2>4. \A t \in Tokens : Unwritten(g, t)' = o.change.delta[t] + o.change.fee[t]
    BY <2>1, <2>2 DEF Unwritten
  <2>5. WalletAfter(o) \in [Tokens -> Int]
        /\ \A t \in Tokens : /\ o.change.delta[t] \in Int /\ o.change.fee[t] \in Int
                             /\ WalletAfter(o)[t] = ammWallet[o.user][t] - o.change.delta[t] - o.change.fee[t]
                             /\ ammWallet[o.user][t] \in Int
    BY <1>3, <2>0 DEF WalletAfter, PoolChange
  <2>6. ammWallet' \in [AmmUsers -> [Tokens -> Int]]
    BY <1>3, <1>6, <2>5
  <2>7. ASSUME NEW t \in Tokens
        PROVE  /\ SumOver(Held(t)', AmmUsers) = SumOver(Held(t), AmmUsers) - o.change.delta[t] - o.change.fee[t]
               /\ SumOver(Held(t), AmmUsers) \in Int
    <3>1. /\ \A u \in AmmUsers : Held(t)[u] = ammWallet[u][t] /\ Held(t)'[u] = ammWallet'[u][t]
      BY DEF Held
    <3>2. IntOn(Held(t), AmmUsers) /\ IntOn(Held(t)', AmmUsers)
      BY <1>3, <2>6, <3>1 DEF IntOn
    <3>3. /\ \A u \in AmmUsers \ {o.user} : Held(t)[u] = Held(t)'[u]
          /\ Held(t)'[o.user] = Held(t)[o.user] - o.change.delta[t] - o.change.fee[t]
          /\ Held(t)[o.user] \in Int
      BY <1>3, <1>6, <2>0, <2>5, <3>1
    <3>4. IsFiniteSet(AmmUsers)
      BY AmmAssumption
    <3>5. SumOver(Held(t)', AmmUsers) = SumOver(Held(t), AmmUsers) - Held(t)[o.user] + Held(t)'[o.user]
      BY <2>0, <3>2, <3>3, <3>4, SumChange
    <3>6. SumOver(Held(t), AmmUsers) \in Int
      BY <3>2, <3>4, SumType
    <3> QED
      BY <2>5, <3>3, <3>5, <3>6
  <2>8. \A t \in Tokens :
          SumOver(Held(t)', AmmUsers) + ammPool'.reserve[t] + ammPool'.fees[t] + Unwritten(g, t)' + ammLost'.tokens[t]
          = SumOver(Held(t), AmmUsers) + ammPool.reserve[t] + ammPool.fees[t] + Unwritten(g, t) + ammLost.tokens[t]
    <3> SUFFICES ASSUME NEW t \in Tokens
                 PROVE  SumOver(Held(t)', AmmUsers) + ammPool'.reserve[t] + ammPool'.fees[t] + Unwritten(g, t)' + ammLost'.tokens[t]
                        = SumOver(Held(t), AmmUsers) + ammPool.reserve[t] + ammPool.fees[t] + Unwritten(g, t) + ammLost.tokens[t]
      OBVIOUS
    <3>1. ammPool.reserve[t] \in Int /\ ammPool.fees[t] \in Int /\ ammLost.tokens[t] \in Int
      BY DEF PoolType, PoolRow
    <3>2. o.change.delta[t] \in Int /\ o.change.fee[t] \in Int
      BY <2>5
    <3>3. Unwritten(g, t) = 0 /\ Unwritten(g, t)' = o.change.delta[t] + o.change.fee[t]
      BY <1>4, <2>4
    <3>4. /\ SumOver(Held(t)', AmmUsers) = SumOver(Held(t), AmmUsers) - o.change.delta[t] - o.change.fee[t]
          /\ SumOver(Held(t), AmmUsers) \in Int
      BY <2>7
    <3>5. ammPool' = ammPool /\ ammLost' = ammLost
      BY <1>1
    <3> QED
      BY <3>1, <3>2, <3>3, <3>4, <3>5
  <2>9. ammPool'.lp - SumOver(ammShares', AmmUsers) - UnwrittenShares(g)' - ammLost'.lp
        = ammPool.lp - SumOver(ammShares, AmmUsers) - UnwrittenShares(g) - ammLost.lp
    BY <1>1, <1>4, <2>3
  <2>10. Knows(new)'
    BY <1>1, <1>2, <2>1 DEF Knows, InProgress
  <2> QED
    BY <1>1, <1>3, <2>1, <2>6, <2>8, <2>9, <2>10, GatewayStep
<1> QED
  BY <1>0, <1>5, <1>6 DEF SettleSwap

\* What users hold, of tokens and of shares, adds up to a number.
LEMMA HeldType ==
  ASSUME PoolType, NEW t \in Tokens
  PROVE  SumOver(Held(t), AmmUsers) \in Int
<1>1. IntOn(Held(t), AmmUsers)
  BY DEF PoolType, Held, IntOn
<1> QED
  BY <1>1, AmmAssumption, SumType

LEMMA SharesType ==
  ASSUME PoolType
  PROVE  SumOver(ammShares, AmmUsers) \in Int
BY AmmAssumption, SumType DEF PoolType, IntOn

\* The row: what it shows is no longer unwritten, but the fees and the shares.
LEMMA ReservesKeep ==
  ASSUME PoolType, PoolKnown, PoolSums, NEW g, ammSetup.gateways = {g}, g \notin {"simulator", "seeder"},
         UpdatePoolReserves(g)
  PROVE  PoolType' /\ PoolKnown' /\ PoolSums'
<1>0. PICK o : o = ammOp[g]
  OBVIOUS
<1>1. o.step = "reserves" /\ UNCHANGED <<ammSetup, ammWallet, ammShares, ammLost>>
  BY <1>0 DEF UpdatePoolReserves
<1>2. o \in InProgress /\ Knows(o)
  BY <1>0, <1>1, InHandNow
<1>3. o.read = ammPool /\ o.change \in PoolChange /\ o.kind \in {"add", "remove", "swap"} /\ ~o.unread
  BY <1>1, <1>2 DEF Knows, InProgress
<1>4. PICK step : step = CASE o.kind = "add" -> "position"
                            [] o.kind = "remove" -> "save"
                            [] o.kind = "swap" /\ o.change.fee # Zero -> "fees"
                            [] OTHER -> "idle"
  OBVIOUS
<1>5. /\ step = "position" <=> o.kind = "add"
      /\ step = "save" <=> o.kind = "remove"
      /\ step = "fees" <=> o.kind = "swap" /\ o.change.fee # Zero
      /\ step = "idle" <=> o.kind = "swap" /\ o.change.fee = Zero
      /\ step \in {"position", "save", "fees", "idle"}
  BY <1>3, <1>4
<1>6. After(g, step)
  BY <1>0, <1>4 DEF UpdatePoolReserves
<1>7. PICK new \in {Idle} \cup InProgress :
        /\ ammOp' = [ammOp EXCEPT ![g] = new] /\ ammOp'[g] = new /\ new.step = step
        /\ IF step = "idle" THEN new = Idle ELSE new = [o EXCEPT !.step = step]
  BY <1>0, <1>2, <1>5, <1>6, AfterStep
<1>8. /\ ammPool' \in PoolRow
      /\ \A t \in Tokens : ammPool'.reserve[t] = ammPool.reserve[t] + o.change.delta[t]
      /\ ammPool'.fees = ammPool.fees /\ ammPool'.lp = ammPool.lp + o.change.lp
  <2>1. ammPool' = [ammPool EXCEPT !.reserve = [t \in Tokens |-> o.read.reserve[t] + o.change.delta[t]],
                                   !.lp = o.read.lp + o.change.lp]
    BY <1>0 DEF UpdatePoolReserves
  <2>2. ammPool \in PoolRow
    BY DEF PoolType
  <2>3. [t \in Tokens |-> o.read.reserve[t] + o.change.delta[t]] \in [Tokens -> Int] /\ o.read.lp + o.change.lp \in Int
    BY <1>3, <2>2 DEF PoolRow, PoolChange
  <2> QED
    BY <1>3, <2>1, <2>2, <2>3 DEF PoolRow
<1>9. /\ ammWallet' \in [AmmUsers -> [Tokens -> Int]] /\ ammShares' \in [AmmUsers -> Int]
      /\ ammLost' \in [tokens : [Tokens -> Int], lp : Int]
  BY <1>1 DEF PoolType
<1>10. UnwrittenShares(g) = 0 /\ \A t \in Tokens : Unwritten(g, t) = o.change.delta[t] + o.change.fee[t]
  BY <1>0, <1>1, <1>3 DEF UnwrittenShares, Unwritten
<1>11. step # "idle" => new.change = o.change
  BY <1>2, <1>7 DEF InProgress
<1>12. \A t \in Tokens : Unwritten(g, t)' = o.change.fee[t]
  <2> SUFFICES ASSUME NEW t \in Tokens PROVE Unwritten(g, t)' = o.change.fee[t]
    OBVIOUS
  <2>1. CASE step = "fees"
    BY <1>7, <1>11, <2>1 DEF Unwritten
  <2>2. CASE step # "fees"
    <3>1. o.change.fee = Zero
      BY <1>2, <1>3, <1>5, <2>2 DEF Knows
    <3>2. Unwritten(g, t)' = 0
      BY <1>5, <1>7, <2>2 DEF Unwritten
    <3> QED
      BY <3>1, <3>2 DEF Zero
  <2> QED
    BY <2>1, <2>2
<1>13. UnwrittenShares(g)' = o.change.lp
  <2>1. CASE o.kind = "swap"
    <3>1. o.change.lp = 0 /\ step \notin {"position", "save"}
      BY <1>2, <1>5, <2>1 DEF Knows
    <3> QED
      BY <1>7, <3>1 DEF UnwrittenShares
  <2>2. CASE o.kind # "swap"
    <3>1. step \in {"position", "save"}
      BY <1>3, <1>5, <2>2
    <3> QED
      BY <1>7, <1>11, <3>1 DEF UnwrittenShares
  <2> QED
    BY <2>1, <2>2
<1>14. new = Idle \/ Knows(new)'
  <2> SUFFICES ASSUME step # "idle" PROVE Knows(new)'
    BY <1>7
  <2>1. new = [o EXCEPT !.step = step]
    BY <1>7
  <2>2. /\ new.step = step /\ new.kind = o.kind /\ new.read = o.read /\ new.change = o.change
        /\ new.user = o.user /\ new.position = o.position /\ new.unread = o.unread
    BY <1>2, <2>1 DEF InProgress
  <2>3. ammShares' = ammShares
    BY <1>1
  <2> QED
    BY <1>1, <1>2, <1>3, <1>5, <1>8, <2>2, <2>3 DEF Knows
<1>15. \A t \in Tokens :
        SumOver(Held(t)', AmmUsers) + ammPool'.reserve[t] + ammPool'.fees[t] + Unwritten(g, t)' + ammLost'.tokens[t]
        = SumOver(Held(t), AmmUsers) + ammPool.reserve[t] + ammPool.fees[t] + Unwritten(g, t) + ammLost.tokens[t]
  <2> SUFFICES ASSUME NEW t \in Tokens
               PROVE  SumOver(Held(t)', AmmUsers) + ammPool'.reserve[t] + ammPool'.fees[t] + Unwritten(g, t)' + ammLost'.tokens[t]
                      = SumOver(Held(t), AmmUsers) + ammPool.reserve[t] + ammPool.fees[t] + Unwritten(g, t) + ammLost.tokens[t]
    OBVIOUS
  <2>1. Held(t)' = Held(t) /\ ammLost' = ammLost
    BY <1>1 DEF Held
  <2>2. SumOver(Held(t), AmmUsers) \in Int
    BY HeldType
  <2>3. ammPool.reserve[t] \in Int /\ ammPool.fees[t] \in Int /\ ammLost.tokens[t] \in Int
    BY DEF PoolType, PoolRow
  <2>4. o.change.delta[t] \in Int /\ o.change.fee[t] \in Int
    BY <1>3 DEF PoolChange
  <2>5. ammPool'.reserve[t] = ammPool.reserve[t] + o.change.delta[t] /\ ammPool'.fees = ammPool.fees
    BY <1>8
  <2>6. Unwritten(g, t) = o.change.delta[t] + o.change.fee[t] /\ Unwritten(g, t)' = o.change.fee[t]
    BY <1>10, <1>12
  <2> QED
    BY <2>1, <2>2, <2>3, <2>4, <2>5, <2>6
<1>16. ammPool'.lp - SumOver(ammShares', AmmUsers) - UnwrittenShares(g)' - ammLost'.lp
       = ammPool.lp - SumOver(ammShares, AmmUsers) - UnwrittenShares(g) - ammLost.lp
  <2>1. ammShares' = ammShares /\ ammLost' = ammLost
    BY <1>1
  <2>2. SumOver(ammShares, AmmUsers) \in Int /\ ammPool.lp \in Int /\ ammLost.lp \in Int /\ o.change.lp \in Int
    BY <1>3, SharesType DEF PoolType, PoolRow, PoolChange
  <2> QED
    BY <1>8, <1>10, <1>13, <2>1, <2>2
<1> QED
  BY <1>1, <1>7, <1>8, <1>9, <1>14, <1>15, <1>16, GatewayStep

\* The fees: there are columns for them (OneWriter).
LEMMA FeesKeep ==
  ASSUME PoolType, PoolKnown, PoolSums, NEW g, ammSetup.gateways = {g}, g \notin {"simulator", "seeder"},
         ammSetup.feeColumns, UpdatePoolProtocolFees(g)
  PROVE  PoolType' /\ PoolKnown' /\ PoolSums'
<1>0. PICK o : o = ammOp[g]
  OBVIOUS
<1>1. o.step = "fees" /\ UNCHANGED <<ammSetup, ammWallet, ammShares, ammLost>> /\ After(g, "idle")
  BY <1>0 DEF UpdatePoolProtocolFees
<1>2. o \in InProgress /\ Knows(o)
  BY <1>0, <1>1, InHandNow
<1>3. o.read.fees = ammPool.fees /\ o.change \in PoolChange
  BY <1>1, <1>2 DEF Knows, InProgress
<1>4. PICK new \in {Idle} \cup InProgress :
        ammOp' = [ammOp EXCEPT ![g] = new] /\ ammOp'[g] = new /\ new = Idle
  BY <1>0, <1>1, <1>2, AfterStep
<1>5. /\ ammPool' \in PoolRow
      /\ \A t \in Tokens : ammPool'.fees[t] = ammPool.fees[t] + o.change.fee[t]
      /\ ammPool'.reserve = ammPool.reserve /\ ammPool'.lp = ammPool.lp
  <2>1. ammPool' = [ammPool EXCEPT !.fees = [t \in Tokens |-> o.read.fees[t] + o.change.fee[t]]]
    BY <1>0 DEF UpdatePoolProtocolFees
  <2>2. ammPool \in PoolRow
    BY DEF PoolType
  <2>3. [t \in Tokens |-> o.read.fees[t] + o.change.fee[t]] \in [Tokens -> Int]
    BY <1>3, <2>2 DEF PoolRow, PoolChange
  <2> QED
    BY <1>3, <2>1, <2>2, <2>3 DEF PoolRow
<1>6. /\ ammWallet' \in [AmmUsers -> [Tokens -> Int]] /\ ammShares' \in [AmmUsers -> Int]
      /\ ammLost' \in [tokens : [Tokens -> Int], lp : Int]
  BY <1>1 DEF PoolType
<1>7. /\ UnwrittenShares(g) = 0 /\ UnwrittenShares(g)' = 0
      /\ \A t \in Tokens : Unwritten(g, t) = o.change.fee[t] /\ Unwritten(g, t)' = 0
  BY <1>0, <1>1, <1>4 DEF UnwrittenShares, Unwritten, Idle
<1>8. \A t \in Tokens :
        SumOver(Held(t)', AmmUsers) + ammPool'.reserve[t] + ammPool'.fees[t] + Unwritten(g, t)' + ammLost'.tokens[t]
        = SumOver(Held(t), AmmUsers) + ammPool.reserve[t] + ammPool.fees[t] + Unwritten(g, t) + ammLost.tokens[t]
  <2> SUFFICES ASSUME NEW t \in Tokens
               PROVE  SumOver(Held(t)', AmmUsers) + ammPool'.reserve[t] + ammPool'.fees[t] + Unwritten(g, t)' + ammLost'.tokens[t]
                      = SumOver(Held(t), AmmUsers) + ammPool.reserve[t] + ammPool.fees[t] + Unwritten(g, t) + ammLost.tokens[t]
    OBVIOUS
  <2>1. Held(t)' = Held(t) /\ ammLost' = ammLost
    BY <1>1 DEF Held
  <2>2. SumOver(Held(t), AmmUsers) \in Int
    BY HeldType
  <2>3. ammPool.reserve[t] \in Int /\ ammPool.fees[t] \in Int /\ ammLost.tokens[t] \in Int
    BY DEF PoolType, PoolRow
  <2>4. o.change.fee[t] \in Int
    BY <1>3 DEF PoolChange
  <2>5. ammPool'.reserve = ammPool.reserve /\ ammPool'.fees[t] = ammPool.fees[t] + o.change.fee[t]
    BY <1>5
  <2>6. Unwritten(g, t) = o.change.fee[t] /\ Unwritten(g, t)' = 0
    BY <1>7
  <2> QED
    BY <2>1, <2>2, <2>3, <2>4, <2>5, <2>6
<1>9. ammPool'.lp - SumOver(ammShares', AmmUsers) - UnwrittenShares(g)' - ammLost'.lp
      = ammPool.lp - SumOver(ammShares, AmmUsers) - UnwrittenShares(g) - ammLost.lp
  BY <1>1, <1>5, <1>7
<1>10. new = Idle \/ Knows(new)'
  BY <1>4
<1> QED
  BY <1>1, <1>4, <1>5, <1>6, <1>8, <1>9, <1>10, GatewayStep

\* The position is read, or its failed read taken for none; nothing moves.
LEMMA PositionKeeps ==
  ASSUME PoolType, PoolKnown, PoolSums, NEW g, ammSetup.gateways = {g}, g \notin {"simulator", "seeder"},
         GetPositionByPool(g)
  PROVE  PoolType' /\ PoolKnown' /\ PoolSums'
<1>0. PICK o : o = ammOp[g]
  OBVIOUS
<1>1. o.step = "position" /\ UNCHANGED <<ammSetup, ammPool, ammWallet, ammShares, ammLost>>
  BY <1>0 DEF GetPositionByPool
<1>2. o \in InProgress /\ Knows(o)
  BY <1>0, <1>1, InHandNow
<1>3. o.kind = "add" /\ o.position = 0 /\ ~o.unread /\ o.user \in AmmUsers
  BY <1>1, <1>2 DEF Knows, InProgress
<1>4. PICK new : /\ ammOp' = [ammOp EXCEPT ![g] = new]
                 /\ \/ new = [o EXCEPT !.step = "save", !.position = ammShares[o.user]]
                    \/ new = [o EXCEPT !.step = "save", !.unread = TRUE]
  BY <1>0 DEF GetPositionByPool
<1>5. ammShares[o.user] \in Int
  BY <1>3 DEF PoolType
<1>6. /\ new \in InProgress /\ new.step = "save" /\ new.kind = o.kind /\ new.change = o.change /\ new.user = o.user
      /\ new.position = IF new.unread THEN 0 ELSE ammShares[o.user]
  BY <1>2, <1>3, <1>4, <1>5 DEF InProgress
<1>7. ammOp'[g] = new
  BY <1>4 DEF PoolType
<1>8. /\ ammPool' \in PoolRow /\ ammWallet' \in [AmmUsers -> [Tokens -> Int]] /\ ammShares' \in [AmmUsers -> Int]
      /\ ammLost' \in [tokens : [Tokens -> Int], lp : Int]
  BY <1>1 DEF PoolType
<1>9. UnwrittenShares(g) = o.change.lp /\ \A t \in Tokens : Unwritten(g, t) = 0
  BY <1>0, <1>1 DEF UnwrittenShares, Unwritten
<1>10. UnwrittenShares(g)' = o.change.lp /\ \A t \in Tokens : Unwritten(g, t)' = 0 /\ Held(t)' = Held(t)
  BY <1>1, <1>6, <1>7 DEF UnwrittenShares, Unwritten, Held
<1>11. \A t \in Tokens :
        SumOver(Held(t)', AmmUsers) + ammPool'.reserve[t] + ammPool'.fees[t] + Unwritten(g, t)' + ammLost'.tokens[t]
        = SumOver(Held(t), AmmUsers) + ammPool.reserve[t] + ammPool.fees[t] + Unwritten(g, t) + ammLost.tokens[t]
  BY <1>1, <1>9, <1>10
<1>12. ammPool'.lp - SumOver(ammShares', AmmUsers) - UnwrittenShares(g)' - ammLost'.lp
       = ammPool.lp - SumOver(ammShares, AmmUsers) - UnwrittenShares(g) - ammLost.lp
  BY <1>1, <1>9, <1>10
<1>13. Knows(new)'
  BY <1>1, <1>2, <1>3, <1>6 DEF Knows
<1> QED
  BY <1>1, <1>4, <1>6, <1>8, <1>11, <1>12, <1>13, GatewayStep

\* The position is written: the shares are the user's, those of an unread
\* position nobody's.
LEMMA SaveKeeps ==
  ASSUME PoolType, PoolKnown, PoolSums, NEW g, ammSetup.gateways = {g}, g \notin {"simulator", "seeder"},
         SavePosition(g)
  PROVE  PoolType' /\ PoolKnown' /\ PoolSums'
<1>0. PICK o : o = ammOp[g]
  OBVIOUS
<1>1. o.step = "save" /\ UNCHANGED <<ammSetup, ammPool, ammWallet>> /\ After(g, "idle")
  BY <1>0 DEF SavePosition
<1>2. o \in InProgress /\ Knows(o)
  BY <1>0, <1>1, InHandNow
<1>3. /\ o.user \in AmmUsers /\ o.change.lp \in Int /\ o.unread \in BOOLEAN
      /\ o.position = IF o.unread THEN 0 ELSE ammShares[o.user]
  BY <1>1, <1>2 DEF Knows, InProgress, PoolChange
<1>4. PICK new \in {Idle} \cup InProgress :
        ammOp' = [ammOp EXCEPT ![g] = new] /\ ammOp'[g] = new /\ new = Idle
  BY <1>0, <1>1, <1>2, AfterStep
<1>5. ammShares \in [AmmUsers -> Int] /\ ammShares[o.user] \in Int /\ ammLost \in [tokens : [Tokens -> Int], lp : Int]
      /\ o.position \in Int
  BY <1>3 DEF PoolType
<1>6. ammShares' = [ammShares EXCEPT ![o.user] = o.position + o.change.lp]
  BY <1>0 DEF SavePosition
<1>7. /\ ammLost' \in [tokens : [Tokens -> Int], lp : Int] /\ ammLost'.tokens = ammLost.tokens
      /\ ammLost'.lp = ammLost.lp + ammShares[o.user] - o.position
  <2>1. CASE o.unread
    <3>1. ammLost' = [ammLost EXCEPT !.lp = @ + ammShares[o.user]]
      BY <1>0, <2>1 DEF SavePosition
    <3> QED
      BY <1>3, <1>5, <2>1, <3>1
  <2>2. CASE ~o.unread
    <3>1. ammLost' = ammLost
      BY <1>0, <2>2 DEF SavePosition
    <3> QED
      BY <1>3, <1>5, <2>2, <3>1
  <2> QED
    BY <2>1, <2>2
<1>8. /\ ammShares' \in [AmmUsers -> Int] /\ SumOver(ammShares, AmmUsers) \in Int
      /\ SumOver(ammShares', AmmUsers) = SumOver(ammShares, AmmUsers) - ammShares[o.user] + o.position + o.change.lp
  <2>1. ammShares' \in [AmmUsers -> Int] /\ ammShares'[o.user] = o.position + o.change.lp
        /\ \A u \in AmmUsers \ {o.user} : ammShares[u] = ammShares'[u]
    BY <1>3, <1>5, <1>6
  <2>2. IntOn(ammShares, AmmUsers) /\ IntOn(ammShares', AmmUsers)
    BY <1>5, <2>1 DEF IntOn
  <2>3. SumOver(ammShares', AmmUsers) = SumOver(ammShares, AmmUsers) - ammShares[o.user] + ammShares'[o.user]
    BY <1>3, <2>1, <2>2, AmmAssumption, SumChange
  <2>4. SumOver(ammShares, AmmUsers) \in Int
    BY SharesType
  <2> QED
    BY <1>3, <1>5, <2>1, <2>3, <2>4
<1>9. ammPool' \in PoolRow /\ ammWallet' \in [AmmUsers -> [Tokens -> Int]]
  BY <1>1 DEF PoolType
<1>10. /\ UnwrittenShares(g) = o.change.lp /\ UnwrittenShares(g)' = 0
       /\ \A t \in Tokens : Unwritten(g, t) = 0 /\ Unwritten(g, t)' = 0 /\ Held(t)' = Held(t)
  BY <1>0, <1>1, <1>4 DEF UnwrittenShares, Unwritten, Idle, Held
<1>11. \A t \in Tokens :
        SumOver(Held(t)', AmmUsers) + ammPool'.reserve[t] + ammPool'.fees[t] + Unwritten(g, t)' + ammLost'.tokens[t]
        = SumOver(Held(t), AmmUsers) + ammPool.reserve[t] + ammPool.fees[t] + Unwritten(g, t) + ammLost.tokens[t]
  BY <1>1, <1>7, <1>10
<1>12. ammPool'.lp - SumOver(ammShares', AmmUsers) - UnwrittenShares(g)' - ammLost'.lp
       = ammPool.lp - SumOver(ammShares, AmmUsers) - UnwrittenShares(g) - ammLost.lp
  <2>1. ammPool' = ammPool /\ ammPool.lp \in Int /\ ammLost.lp \in Int
    BY <1>1 DEF PoolType, PoolRow
  <2> QED
    BY <1>3, <1>5, <1>7, <1>8, <1>10, <2>1
<1>13. new = Idle \/ Knows(new)'
  BY <1>4
<1> QED
  BY <1>1, <1>4, <1>7, <1>8, <1>9, <1>11, <1>12, <1>13, GatewayStep

\* An operation breaks off: what it had not written is lost.
LEMMA BreakOffKeeps ==
  ASSUME PoolType, PoolKnown, PoolSums, NEW g, ammSetup.gateways = {g}, g \notin {"simulator", "seeder"},
         BreakOff(g)
  PROVE  PoolType' /\ PoolKnown' /\ PoolSums'
<1>0. PICK o : o = ammOp[g]
  OBVIOUS
<1>1. o.step # "idle" /\ UNCHANGED <<ammSetup, ammPool, ammWallet, ammShares>> /\ After(g, "idle")
  BY <1>0 DEF BreakOff
<1>2. o \in InProgress
  BY <1>0, <1>1, InHandNow
<1>3. PICK new \in {Idle} \cup InProgress :
        ammOp' = [ammOp EXCEPT ![g] = new] /\ ammOp'[g] = new /\ new = Idle
  BY <1>0, <1>1, <1>2, AfterStep
<1>4. UnwrittenShares(g) \in Int /\ \A t \in Tokens : Unwritten(g, t) \in Int
  BY InTheGateway
<1>5. ammLost \in [tokens : [Tokens -> Int], lp : Int]
  BY DEF PoolType
<1>6. /\ ammLost' \in [tokens : [Tokens -> Int], lp : Int]
      /\ \A t \in Tokens : ammLost'.tokens[t] = ammLost.tokens[t] + Unwritten(g, t)
      /\ ammLost'.lp = ammLost.lp + UnwrittenShares(g)
  BY <1>4, <1>5 DEF BreakOff
<1>7. UnwrittenShares(g)' = 0 /\ \A t \in Tokens : Unwritten(g, t)' = 0 /\ Held(t)' = Held(t)
  BY <1>1, <1>3 DEF UnwrittenShares, Unwritten, Idle, Held
<1>8. /\ ammPool' \in PoolRow /\ ammWallet' \in [AmmUsers -> [Tokens -> Int]] /\ ammShares' \in [AmmUsers -> Int]
  BY <1>1 DEF PoolType
<1>9. \A t \in Tokens :
        SumOver(Held(t)', AmmUsers) + ammPool'.reserve[t] + ammPool'.fees[t] + Unwritten(g, t)' + ammLost'.tokens[t]
        = SumOver(Held(t), AmmUsers) + ammPool.reserve[t] + ammPool.fees[t] + Unwritten(g, t) + ammLost.tokens[t]
  <2> SUFFICES ASSUME NEW t \in Tokens
               PROVE  SumOver(Held(t)', AmmUsers) + ammPool'.reserve[t] + ammPool'.fees[t] + Unwritten(g, t)' + ammLost'.tokens[t]
                      = SumOver(Held(t), AmmUsers) + ammPool.reserve[t] + ammPool.fees[t] + Unwritten(g, t) + ammLost.tokens[t]
    OBVIOUS
  <2>1. SumOver(Held(t), AmmUsers) \in Int /\ ammPool' = ammPool
    BY <1>1, HeldType
  <2>2. ammPool.reserve[t] \in Int /\ ammPool.fees[t] \in Int /\ ammLost.tokens[t] \in Int
    BY DEF PoolType, PoolRow
  <2>3. /\ Unwritten(g, t) \in Int /\ Unwritten(g, t)' = 0 /\ Held(t)' = Held(t)
        /\ ammLost'.tokens[t] = ammLost.tokens[t] + Unwritten(g, t)
    BY <1>4, <1>6, <1>7
  <2> QED
    BY <2>1, <2>2, <2>3
<1>10. ammPool'.lp - SumOver(ammShares', AmmUsers) - UnwrittenShares(g)' - ammLost'.lp
       = ammPool.lp - SumOver(ammShares, AmmUsers) - UnwrittenShares(g) - ammLost.lp
  <2>1. ammPool' = ammPool /\ ammShares' = ammShares /\ ammPool.lp \in Int /\ ammLost.lp \in Int
    BY <1>1 DEF PoolType, PoolRow
  <2>2. SumOver(ammShares, AmmUsers) \in Int
    BY SharesType
  <2> QED
    BY <1>4, <1>6, <1>7, <2>1, <2>2
<1>11. new = Idle \/ Knows(new)'
  BY <1>3
<1> QED
  BY <1>1, <1>3, <1>6, <1>8, <1>9, <1>10, <1>11, GatewayStep

-----------------------------------------------------------------------------
\* Every step keeps the invariant: nobody but the one gateway does anything.
LEMMA PoolNext == PoolInv /\ [AmmNext]_ammVars => PoolInv'
<1> SUFFICES ASSUME PoolInv, [AmmNext]_ammVars, OneWriter' PROVE PoolType' /\ PoolKnown' /\ PoolSums'
  BY DEF PoolInv
<1>1. ammSetup' = ammSetup
  BY DEF AmmNext, ammVars, AmmRequest, AmmStep, AddLiquidity, RemoveLiquidity, ExecuteSwap, Begin, ApplySimulatedSwap,
         SettleSwap, UpdatePoolReserves, UpdatePoolProtocolFees, GetPositionByPool, SavePosition, BreakOff,
         ListPools, SeedPoolReserves
<1>2. OneWriter /\ PoolType /\ PoolKnown /\ PoolSums
  BY <1>1 DEF OneWriter, PoolInv
<1>3. PICK g : ammSetup.gateways = {g} /\ g \notin {"simulator", "seeder"}
  BY <1>2, TheGateway DEF PoolType
<1>4. ammSetup.others = {} /\ ammSetup.feeColumns
  BY <1>2 DEF OneWriter
<1>5. ammOp["simulator"].step = "idle" /\ ammOp["seeder"].step = "idle"
  BY <1>2 DEF PoolType, Idle
<1>6. CASE UNCHANGED ammVars
  <2>1. PoolType'
    BY <1>2, <1>6 DEF PoolType, ammVars
  <2>2. PoolKnown'
    BY <1>2, <1>6 DEF PoolKnown, Knows, ammVars
  <2>3. PoolSums'
    BY <1>2, <1>6 DEF PoolSums, Held, Unwritten, UnwrittenShares, SeedLP, ammVars
  <2> QED
    BY <2>1, <2>2, <2>3
<1>7. CASE AmmNext
  <2>1. CASE \E w \in ammSetup.gateways : AmmRequest(w)
    BY <1>2, <1>3, <2>1, RequestKeeps
  <2>2. ~ApplySimulatedSwap /\ ~ListPools /\ ~SeedPoolReserves
    BY <1>4, <1>5 DEF ApplySimulatedSwap, ListPools, SeedPoolReserves
  <2>3. CASE \E w \in Writers : AmmStep(w) \/ BreakOff(w)
    <3>1. PICK w \in Writers : AmmStep(w) \/ BreakOff(w)
      BY <2>3
    <3>2. ammOp[w].step # "idle"
      BY <3>1 DEF AmmStep, SettleSwap, UpdatePoolReserves, UpdatePoolProtocolFees, GetPositionByPool, SavePosition, BreakOff
    <3>3. w = g
      BY <1>3, <1>5, <3>2 DEF Writers
    <3>4. CASE SettleSwap(g)
      BY <1>2, <1>3, <3>4, SettleKeeps
    <3>5. CASE UpdatePoolReserves(g)
      BY <1>2, <1>3, <3>5, ReservesKeep
    <3>6. CASE UpdatePoolProtocolFees(g)
      BY <1>2, <1>3, <1>4, <3>6, FeesKeep
    <3>7. CASE GetPositionByPool(g)
      BY <1>2, <1>3, <3>7, PositionKeeps
    <3>8. CASE SavePosition(g)
      BY <1>2, <1>3, <3>8, SaveKeeps
    <3>9. CASE BreakOff(g)
      BY <1>2, <1>3, <3>9, BreakOffKeeps
    <3> QED
      BY <3>1, <3>3, <3>4, <3>5, <3>6, <3>7, <3>8, <3>9 DEF AmmStep
  <2> QED
    BY <1>7, <2>1, <2>2, <2>3 DEF AmmNext
<1> QED
  BY <1>6, <1>7

(***************************************************************************)
(* A pool with one gateway is backed (Swap, AddLiquidity, RemoveLiquidity  *)
(* of amm/service.go): each unit its users paid is in the row, in hand or  *)
(* lost to a failed statement, and each share is somebody's, for any fee   *)
(* rate, amounts, users and faults.                                        *)
(***************************************************************************)
THEOREM PoolStaysBacked == AmmSpec => []PoolBacked
<1>1. PoolInv => PoolBacked
  <2> SUFFICES ASSUME PoolInv, OneWriter PROVE PoolBacked
    BY DEF PoolBacked
  <2>1. PoolType /\ PoolSums
    BY DEF PoolInv
  <2>2. PICK g : ammSetup.gateways = {g}
    BY <2>1, TheGateway DEF PoolType
  <2>3. /\ \A t \in Tokens : SumOver(InHand(t), Writers) = Unwritten(g, t)
        /\ SumOver(SharesInHand, Writers) = UnwrittenShares(g)
    BY <2>1, <2>2, InTheGateway
  <2>4. \A t \in Tokens :
         SumOver(Held(t), AmmUsers) + ammPool.reserve[t] + ammPool.fees[t]
           + SumOver(InHand(t), Writers) + ammLost.tokens[t]
         = Cardinality(AmmUsers) * AmmStart + (IF ammSetup.seeded THEN SeedReserve ELSE 0)
    BY <2>1, <2>2, <2>3 DEF PoolSums
  <2>5. ammPool.lp = SharesOwned + SumOver(SharesInHand, Writers) + ammLost.lp
    <3>1. SharesOwned = SeedLP + SumOver(ammShares, AmmUsers)
      BY DEF SharesOwned, SeedLP, SumOver
    <3> QED
      BY <2>1, <2>2, <2>3, <3>1 DEF PoolSums
  <2> QED
    BY <2>4, <2>5 DEF PoolBacked, SumOver
<1>2. AmmSpec => []PoolInv
  BY PoolStart, PoolNext, PTL DEF AmmSpec
<1> QED
  BY <1>1, <1>2, PTL

-----------------------------------------------------------------------------
(***************************************************************************)
(* The price of a swap.  Whoever else writes the row, an operation writes  *)
(* what it worked out from the row it read.                                *)
(***************************************************************************)
OfASwap(o) ==
  \E in \in Tokens, a \in AmmAmounts : Tradable(o.read) /\ o.change = SwapOf(o.read, in, a)

WorkedOut(o) ==
  /\ o = [step |-> o.step, kind |-> o.kind, user |-> o.user, read |-> o.read, change |-> o.change,
          position |-> o.position, unread |-> o.unread]
  /\ o.read \in PoolRow /\ o.change \in PoolChange
  /\ o.kind \in {"swap", "simulated"} => OfASwap(o)

SwapInv ==
  /\ ammPool \in PoolRow
  /\ ammOp = [w \in ammSetup.gateways \cup {"simulator", "seeder"} |-> ammOp[w]]
  /\ \A w \in ammSetup.gateways \cup {"simulator", "seeder"} :
       ammOp[w] \in {Idle, [step |-> "listed"]} \/ WorkedOut(ammOp[w])

LEMMA SwapStart == AmmInit => SwapInv
<1>1. EmptyPool \in PoolRow /\ Seeded(EmptyPool) \in PoolRow
  <2>1. EmptyPool \in PoolRow
    BY DEF EmptyPool, PoolRow, Zero
  <2> QED
    BY <2>1, SeededType
<1> QED
  BY <1>1 DEF AmmInit, SwapInv

\* One writer's step: the others' work is as it was.
LEMMA OneWorks ==
  ASSUME SwapInv, UNCHANGED ammSetup, ammPool' \in PoolRow, NEW w, NEW new,
         w \in ammSetup.gateways \cup {"simulator", "seeder"}, ammOp' = [ammOp EXCEPT ![w] = new],
         new \in {Idle, [step |-> "listed"]} \/ WorkedOut(new)
  PROVE  SwapInv'
<1> DEFINE all == ammSetup.gateways \cup {"simulator", "seeder"}
<1>1. ammOp' = [x \in all |-> ammOp'[x]]
  BY DEF SwapInv
<1>2. \A x \in all : ammOp'[x] = IF x = w THEN new ELSE ammOp[x]
  BY DEF SwapInv
<1>3. \A x \in all : ammOp'[x] \in {Idle, [step |-> "listed"]} \/ WorkedOut(ammOp'[x])
  BY <1>2 DEF SwapInv
<1> QED
  BY <1>1, <1>3 DEF SwapInv

LEMMA BeginWorksOut ==
  ASSUME SwapInv, NEW w, w \in ammSetup.gateways \cup {"simulator", "seeder"}, NEW kind, NEW u, NEW step, NEW c \in PoolChange,
         kind \in {"swap", "simulated"} => \E in \in Tokens, a \in AmmAmounts : Tradable(ammPool) /\ c = SwapOf(ammPool, in, a),
         Begin(w, kind, u, step, c)
  PROVE  SwapInv'
<1>1. PICK new : new = [step |-> step, kind |-> kind, user |-> u, read |-> ammPool, change |-> c,
                        position |-> IF kind = "remove" THEN ammShares[u] ELSE 0, unread |-> FALSE]
  OBVIOUS
<1>2. ammOp' = [ammOp EXCEPT ![w] = new] /\ UNCHANGED <<ammSetup, ammPool>>
  BY <1>1 DEF Begin
<1>3. new.read = ammPool /\ new.change = c /\ new.kind = kind
  BY <1>1
<1>4. new.kind \in {"swap", "simulated"} => OfASwap(new)
  BY <1>3 DEF OfASwap
<1>5. WorkedOut(new)
  BY <1>1, <1>3, <1>4 DEF WorkedOut, SwapInv
<1>6. ammPool' \in PoolRow
  BY <1>2 DEF SwapInv
<1> QED
  BY <1>2, <1>5, <1>6, OneWorks

LEMMA RequestsWorkOut ==
  ASSUME SwapInv, NEW g \in ammSetup.gateways, AmmRequest(g) PROVE SwapInv'
<1>0. ammPool \in PoolRow
  BY DEF SwapInv
<1>1. CASE AddLiquidity(g)
  <2>1. PICK u \in AmmUsers, a \in AddRequests : Begin(g, "add", u, "settle", DepositOf(ammPool, a))
    BY <1>1 DEF AddLiquidity
  <2>2. DepositOf(ammPool, a) \in PoolChange
    BY <1>0, <1>1, DepositType DEF AddLiquidity
  <2> QED
    BY <2>1, <2>2, BeginWorksOut
<1>2. CASE RemoveLiquidity(g)
  <2>1. PICK u \in AmmUsers, s \in RemoveRequests :
          0 < ammPool.lp /\ Begin(g, "remove", u, "settle", BurnOf(ammPool, s))
    BY <1>2 DEF RemoveLiquidity
  <2>2. BurnOf(ammPool, s) \in PoolChange
    BY <1>0, <2>1, BurnType
  <2> QED
    BY <2>1, <2>2, BeginWorksOut
<1>3. CASE ExecuteSwap(g)
  <2>1. PICK u \in AmmUsers, r \in SwapRequests :
          Tradable(ammPool) /\ Begin(g, "swap", u, "settle", SwapOf(ammPool, r.in, r.amount))
    BY <1>3 DEF ExecuteSwap
  <2>2. r.in \in Tokens /\ r.amount \in AmmAmounts
    BY DEF SwapRequests
  <2>3. SwapOf(ammPool, r.in, r.amount) \in PoolChange
    BY <1>0, <2>1, <2>2, SwapType
  <2> QED
    BY <2>1, <2>2, <2>3, BeginWorksOut
<1> QED
  BY <1>1, <1>2, <1>3 DEF AmmRequest

LEMMA SimulatorWorksOut == ASSUME SwapInv, ApplySimulatedSwap PROVE SwapInv'
<1>1. PICK in \in Tokens, a \in AmmAmounts :
        Begin("simulator", "simulated", CHOOSE u \in AmmUsers : TRUE, "reserves", SwapOf(ammPool, in, a))
  BY DEF ApplySimulatedSwap
<1>2. Tradable(ammPool)
  BY DEF ApplySimulatedSwap
<1>3. SwapOf(ammPool, in, a) \in PoolChange
  BY <1>2, SwapType DEF SwapInv
<1>4. ASSUME NEW u, Begin("simulator", "simulated", u, "reserves", SwapOf(ammPool, in, a)) PROVE SwapInv'
  BY <1>2, <1>3, <1>4, BeginWorksOut
<1> QED
  BY <1>1, <1>4

\* Writing the row from what was read and worked out.
LEMMA RowWritten ==
  ASSUME NEW p \in PoolRow, NEW r \in PoolRow, NEW c \in PoolChange
  PROVE  /\ [p EXCEPT !.reserve = [t \in Tokens |-> r.reserve[t] + c.delta[t]], !.lp = r.lp + c.lp] \in PoolRow
         /\ [p EXCEPT !.fees = [t \in Tokens |-> r.fees[t] + c.fee[t]]] \in PoolRow
<1> DEFINE n == [t \in Tokens |-> r.reserve[t] + c.delta[t]]
           f == [t \in Tokens |-> r.fees[t] + c.fee[t]]
<1>1. n \in [Tokens -> Int] /\ f \in [Tokens -> Int] /\ r.lp + c.lp \in Int
  BY DEF PoolRow, PoolChange
<1> HIDE DEF n, f
<1>2. [p EXCEPT !.reserve = n, !.lp = r.lp + c.lp] \in PoolRow
  BY <1>1 DEF PoolRow
<1>3. [p EXCEPT !.fees = f] \in PoolRow
  BY <1>1 DEF PoolRow
<1> QED
  BY <1>2, <1>3 DEF n, f

LEMMA WorkGoesOn ==
  ASSUME NEW o, WorkedOut(o), NEW step, NEW position, NEW unread
  PROVE  /\ WorkedOut([o EXCEPT !.step = step])
         /\ WorkedOut([o EXCEPT !.step = step, !.position = position])
         /\ WorkedOut([o EXCEPT !.step = step, !.unread = unread])
<1>1. ASSUME NEW n, n = [step |-> step, kind |-> o.kind, user |-> o.user, read |-> o.read, change |-> o.change,
                         position |-> n.position, unread |-> n.unread]
      PROVE  WorkedOut(n)
  <2>1. n.kind = o.kind /\ n.read = o.read /\ n.change = o.change /\ n.user = o.user /\ n.step = step
    BY <1>1
  <2>2. n = [step |-> n.step, kind |-> n.kind, user |-> n.user, read |-> n.read, change |-> n.change,
             position |-> n.position, unread |-> n.unread]
    BY <1>1, <2>1
  <2>3. n.kind \in {"swap", "simulated"} => OfASwap(n)
    BY <2>1 DEF WorkedOut, OfASwap
  <2>4. n.read \in PoolRow /\ n.change \in PoolChange
    BY <2>1 DEF WorkedOut
  <2> QED
    BY <2>2, <2>3, <2>4 DEF WorkedOut
<1>2. o = [step |-> o.step, kind |-> o.kind, user |-> o.user, read |-> o.read, change |-> o.change,
           position |-> o.position, unread |-> o.unread]
  BY DEF WorkedOut
<1>3. WorkedOut([o EXCEPT !.step = step])
  <2>1. [o EXCEPT !.step = step] = [step |-> step, kind |-> o.kind, user |-> o.user, read |-> o.read, change |-> o.change,
                                    position |-> o.position, unread |-> o.unread]
    BY <1>2
  <2> QED
    BY <2>1, <1>1
<1>4. WorkedOut([o EXCEPT !.step = step, !.position = position])
  <2>1. [o EXCEPT !.step = step, !.position = position]
        = [step |-> step, kind |-> o.kind, user |-> o.user, read |-> o.read, change |-> o.change,
           position |-> position, unread |-> o.unread]
    <3>1. PICK m : m = [o EXCEPT !.step = step]
      OBVIOUS
    <3>2. m = [step |-> step, kind |-> o.kind, user |-> o.user, read |-> o.read, change |-> o.change,
               position |-> o.position, unread |-> o.unread]
      BY <1>2, <3>1
    <3>3. [m EXCEPT !.position = position]
          = [step |-> step, kind |-> o.kind, user |-> o.user, read |-> o.read, change |-> o.change,
             position |-> position, unread |-> o.unread]
      BY <3>2
    <3>4. [o EXCEPT !.step = step, !.position = position] = [m EXCEPT !.position = position]
      BY <3>1
    <3> QED
      BY <3>3, <3>4
  <2> QED
    BY <2>1, <1>1
<1>5. WorkedOut([o EXCEPT !.step = step, !.unread = unread])
  <2>1. [o EXCEPT !.step = step, !.unread = unread]
        = [step |-> step, kind |-> o.kind, user |-> o.user, read |-> o.read, change |-> o.change,
           position |-> o.position, unread |-> unread]
    <3>1. PICK m : m = [o EXCEPT !.step = step]
      OBVIOUS
    <3>2. m = [step |-> step, kind |-> o.kind, user |-> o.user, read |-> o.read, change |-> o.change,
               position |-> o.position, unread |-> o.unread]
      BY <1>2, <3>1
    <3>3. [m EXCEPT !.unread = unread]
          = [step |-> step, kind |-> o.kind, user |-> o.user, read |-> o.read, change |-> o.change,
             position |-> o.position, unread |-> unread]
      BY <3>2
    <3>4. [o EXCEPT !.step = step, !.unread = unread] = [m EXCEPT !.unread = unread]
      BY <3>1
    <3> QED
      BY <3>3, <3>4
  <2> QED
    BY <2>1, <1>1
<1> QED
  BY <1>3, <1>4, <1>5

LEMMA StatementsWorkOut ==
  ASSUME SwapInv, NEW w \in Writers, AmmStep(w) \/ BreakOff(w) PROVE SwapInv'
<1>0. w \in ammSetup.gateways \cup {"simulator", "seeder"}
  BY DEF Writers
<1>1. PICK o : o = ammOp[w]
  OBVIOUS
<1>2. WorkedOut(o) \/ BreakOff(w)
  <2>1. o.step \in {"settle", "reserves", "fees", "position", "save"} \/ BreakOff(w)
    BY <1>1 DEF AmmStep, SettleSwap, UpdatePoolReserves, UpdatePoolProtocolFees, GetPositionByPool, SavePosition
  <2> QED
    BY <1>0, <1>1, <2>1 DEF SwapInv, Idle
<1>3. UNCHANGED ammSetup
  BY DEF AmmStep, SettleSwap, UpdatePoolReserves, UpdatePoolProtocolFees, GetPositionByPool, SavePosition, BreakOff
<1>4. ammPool' \in PoolRow
  <2>0. ammPool \in PoolRow
    BY DEF SwapInv
  <2>1. CASE UNCHANGED ammPool
    BY <2>0, <2>1
  <2>2. CASE UpdatePoolReserves(w)
    <3>1. o.read \in PoolRow /\ o.change \in PoolChange
      <4>1. o.step = "reserves"
        BY <1>1, <2>2 DEF UpdatePoolReserves
      <4>2. WorkedOut(o)
        BY <1>0, <1>1, <4>1 DEF SwapInv, Idle
      <4> QED
        BY <4>2 DEF WorkedOut
    <3>2. ammPool' = [ammPool EXCEPT !.reserve = [t \in Tokens |-> o.read.reserve[t] + o.change.delta[t]],
                                     !.lp = o.read.lp + o.change.lp]
      BY <1>1, <2>2 DEF UpdatePoolReserves
    <3> QED
      BY <2>0, <3>1, <3>2, RowWritten
  <2>3. CASE UpdatePoolProtocolFees(w)
    <3>1. o.read \in PoolRow /\ o.change \in PoolChange
      <4>1. o.step = "fees"
        BY <1>1, <2>3 DEF UpdatePoolProtocolFees
      <4>2. WorkedOut(o)
        BY <1>0, <1>1, <4>1 DEF SwapInv, Idle
      <4> QED
        BY <4>2 DEF WorkedOut
    <3>2. ammPool' = ammPool \/ ammPool' = [ammPool EXCEPT !.fees = [t \in Tokens |-> o.read.fees[t] + o.change.fee[t]]]
      BY <1>1, <2>3 DEF UpdatePoolProtocolFees
    <3> QED
      BY <2>0, <3>1, <3>2, RowWritten
  <2> QED
    BY <2>1, <2>2, <2>3 DEF AmmStep, SettleSwap, GetPositionByPool, SavePosition, BreakOff
<1>5. \E new : ammOp' = [ammOp EXCEPT ![w] = new] /\ (new = Idle \/ WorkedOut(new))
  <2>1. ASSUME NEW step, After(w, step), WorkedOut(o) \/ step = "idle"
        PROVE  \E new : ammOp' = [ammOp EXCEPT ![w] = new] /\ (new = Idle \/ WorkedOut(new))
    <3>1. CASE step = "idle"
      BY <2>1, <3>1 DEF After
    <3>2. CASE step # "idle"
      <4>1. ammOp' = [ammOp EXCEPT ![w] = [o EXCEPT !.step = step]]
        BY <1>0, <1>1, <2>1, <3>2 DEF After, SwapInv
      <4>2. WorkedOut([o EXCEPT !.step = step])
        BY <2>1, <3>2, WorkGoesOn
      <4> QED
        BY <4>1, <4>2
    <3> QED
      BY <3>1, <3>2
  <2>2. CASE BreakOff(w)
    BY <2>1, <2>2 DEF BreakOff
  <2>3. CASE ~BreakOff(w) /\ (SettleSwap(w) \/ UpdatePoolReserves(w) \/ UpdatePoolProtocolFees(w) \/ SavePosition(w))
    <3>1. \E step : After(w, step)
      BY <2>3 DEF SettleSwap, UpdatePoolReserves, UpdatePoolProtocolFees, SavePosition
    <3> QED
      BY <1>2, <2>1, <2>3, <3>1
  <2>4. CASE ~BreakOff(w) /\ GetPositionByPool(w)
    <3>1. \/ ammOp' = [ammOp EXCEPT ![w] = [o EXCEPT !.step = "save", !.position = ammShares[o.user]]]
          \/ ammOp' = [ammOp EXCEPT ![w] = [o EXCEPT !.step = "save", !.unread = TRUE]]
      BY <1>1, <2>4 DEF GetPositionByPool
    <3>2. WorkedOut([o EXCEPT !.step = "save", !.position = ammShares[o.user]])
      BY <1>2, <2>4, WorkGoesOn
    <3>3. WorkedOut([o EXCEPT !.step = "save", !.unread = TRUE])
      BY <1>2, <2>4, WorkGoesOn
    <3> QED
      BY <3>1, <3>2, <3>3
  <2> QED
    BY <2>2, <2>3, <2>4 DEF AmmStep
<1> QED
  BY <1>0, <1>3, <1>4, <1>5, OneWorks

LEMMA SeederWorks == ASSUME SwapInv, ListPools \/ SeedPoolReserves PROVE SwapInv'
<1>1. ammPool' \in PoolRow /\ UNCHANGED ammSetup
  BY SeededType DEF SwapInv, ListPools, SeedPoolReserves
<1>2. \E new : ammOp' = [ammOp EXCEPT !["seeder"] = new] /\ new \in {Idle, [step |-> "listed"]}
  BY DEF ListPools, SeedPoolReserves
<1> QED
  BY <1>1, <1>2, OneWorks

LEMMA SwapNextKeeps == SwapInv /\ [AmmNext]_ammVars => SwapInv'
<1>1. SwapInv /\ UNCHANGED ammVars => SwapInv'
  BY DEF SwapInv, ammVars
<1> QED
  BY <1>1, RequestsWorkOut, SimulatorWorksOut, StatementsWorkOut, SeederWorks DEF AmmNext

-----------------------------------------------------------------------------
\* What rounding to the nearest unit leaves of a product.
LEMMA QuoNear ==
  ASSUME NEW a \in Int, NEW b \in Int, b > 0
  PROVE  2 * (a - b * Quo(a, b)) \in -b..b
<1> DEFINE q == (2 * a + b) \div (2 * b)
           r == (2 * a + b) % (2 * b)
<1>1. q \in Int /\ r \in Int /\ 0 <= r /\ r < 2 * b /\ 2 * a + b = (2 * b) * q + r
  OBVIOUS
<1>2. (2 * b) * q = 2 * (b * q) /\ b * q \in Int
  BY <1>1
<1> HIDE DEF q, r
<1>3. 2 * (a - b * q) = r - b
  BY <1>1, <1>2
<1> QED
  BY <1>1, <1>3 DEF Quo, q

\* The product after a swap, with the output rounded.
LEMMA SwapDrift ==
  ASSUME NEW p \in PoolRow, NEW in \in Tokens, NEW a \in AmmAmounts, Tradable(p), NEW n,
         n.reserve = [t \in Tokens |-> p.reserve[t] + SwapOf(p, in, a).delta[t]],
         NEW t \in Tokens, SwapOf(p, in, a).delta[t] > 0
  PROVE  2 * (Product(n) - Product(p)) \in -n.reserve[t]..n.reserve[t]
<1>0. /\ a \in Nat /\ FeeOf(a) \in Int /\ FeeOf(a) <= a
  BY AmmAssumption, FeeBound
<1> DEFINE net == a - FeeOf(a)
           x == p.reserve[in]
           y == p.reserve[1 - in]
           out == Quo(y * net, x + net)
<1>1. /\ x \in Int /\ x > 0 /\ y \in Int /\ y > 0 /\ net \in Nat
  BY <1>0 DEF PoolRow, Tradable, Tokens
<1>2. y * net \in Int /\ y * net >= 0 /\ x + net \in Int /\ x + net > 0
  BY <1>1
<1>3. out \in Int /\ 2 * (y * net - (x + net) * out) \in -(x + net)..(x + net)
  <2> HIDE DEF net, x, y
  <2> QED
    BY <1>2, QuoType, QuoNear
<1>4. out >= 0
  <2>1. Quo(y * net, x + net) >= 0
    <3> HIDE DEF net, x, y
    <3> QED
      BY <1>1, <1>2 DEF Quo
  <2> QED
    BY <2>1
<1>5. /\ SwapOf(p, in, a).delta[in] = net
      /\ SwapOf(p, in, a).delta[1 - in] = -out
      /\ 1 - in \in Tokens /\ 1 - in # in /\ Tokens = {in, 1 - in}
  BY DEF SwapOf, Change, Both, AmountOut, Tokens
<1>6. t = in
  BY <1>3, <1>4, <1>5
<1>7. n.reserve[in] = x + net /\ n.reserve[1 - in] = y - out
  BY <1>1, <1>3, <1>5
<1>8. Product(p) = x * y /\ Product(n) = (x + net) * (y - out)
  <2>1. CASE in = 0
    BY <1>7, <2>1 DEF Product
  <2>2. CASE in = 1
    <3>1. Product(p) = y * x /\ Product(n) = (y - out) * (x + net)
      BY <1>7, <2>2 DEF Product
    <3> HIDE DEF net, x, y, out
    <3> QED
      BY <1>1, <1>2, <1>3, <3>1
  <2> QED
    BY <2>1, <2>2 DEF Tokens
<1>9. (x + net) * (y - out) - x * y = y * net - (x + net) * out
  <2> HIDE DEF net, x, y, out
  <2>1. (x + net) * (y - out) = (x + net) * y - (x + net) * out
    BY <1>1, <1>3
  <2>2. (x + net) * y = x * y + y * net
    BY <1>1
  <2>3. (x + net) * y \in Int /\ x * y \in Int /\ (x + net) * out \in Int
    BY <1>1, <1>3
  <2> QED
    BY <2>1, <2>2, <2>3, <1>2
<1> HIDE DEF net, x, y, out
<1> QED
  BY <1>3, <1>6, <1>7, <1>8, <1>9

\* A swap that is written, by a gateway or by the simulator, leaves the product of
\* the reserves it read within half a unit of the output (AMMService.ExecuteSwap,
\* UpdatePoolReserves): for any fee below one, any reserves and amounts, and
\* whatever else writes the row.
THEOREM SwapsKeepProduct == AmmSpec => SwapKeepsProduct
<1> DEFINE KeepsProduct(w) ==
      UpdatePoolReserves(w) /\ ammOp[w].kind \in {"swap", "simulated"} =>
         LET drift == Product(ammPool') - Product(ammOp[w].read)
         IN  \A in \in Tokens : ammOp[w].change.delta[in] > 0 =>
               2 * drift \in -ammPool'.reserve[in]..ammPool'.reserve[in]
<1>1. SwapInv => \A w \in Writers : KeepsProduct(w)
  <2> SUFFICES ASSUME SwapInv, NEW w \in Writers, UpdatePoolReserves(w), ammOp[w].kind \in {"swap", "simulated"},
                      NEW t \in Tokens, ammOp[w].change.delta[t] > 0
               PROVE  2 * (Product(ammPool') - Product(ammOp[w].read)) \in -ammPool'.reserve[t]..ammPool'.reserve[t]
    OBVIOUS
  <2>1. PICK o : o = ammOp[w]
    OBVIOUS
  <2>2. WorkedOut(o)
    <3>1. o.step = "reserves" /\ w \in ammSetup.gateways \cup {"simulator", "seeder"}
      BY <2>1 DEF UpdatePoolReserves, Writers
    <3> QED
      BY <2>1, <3>1 DEF SwapInv, Idle
  <2>3. PICK in \in Tokens, a \in AmmAmounts : Tradable(o.read) /\ o.change = SwapOf(o.read, in, a)
    BY <2>1, <2>2 DEF WorkedOut, OfASwap
  <2>4. ammPool'.reserve = [s \in Tokens |-> o.read.reserve[s] + o.change.delta[s]]
    BY <2>1 DEF UpdatePoolReserves, SwapInv, PoolRow
  <2>5. o.read \in PoolRow
    BY <2>2 DEF WorkedOut
  <2> QED
    BY <2>1, <2>3, <2>4, <2>5, SwapDrift
<1>2. SwapInv /\ [AmmNext]_ammVars => [\A w \in Writers : KeepsProduct(w)]_ammVars
  BY <1>1
<1> QED
  BY <1>2, SwapStart, SwapNextKeeps, PTL DEF AmmSpec, SwapKeepsProduct

-----------------------------------------------------------------------------
(***************************************************************************)
(* The memory of settled fills.  What a process w did with it, in the      *)
(* history a of accesses, determines the list: the fills by their last     *)
(* access, latest first, and all of those that it had no reason to forget. *)
(***************************************************************************)
Access == [by : Gateways \X Nat, fill : FillIds, at : Nat]
Entry  == [fill : FillIds, at : Nat]

Mine(a, w)      == {n \in DOMAIN a : a[n].by = w}
IsLast(a, w, n) == n \in Mine(a, w) /\ \A m \in Mine(a, w) : a[m].fill = a[n].fill => m <= n
Others(a, w, n) == {a[k].fill : k \in {m \in Mine(a, w) : n <= m}} \ {a[n].fill}

Reflects(l, a, w) ==
  /\ \A p \in DOMAIN l : \E n : IsLast(a, w, n) /\ a[n].fill = l[p].fill /\ a[n].at = l[p].at
  /\ \A p, q \in DOMAIN l : \A m, n :
       p < q /\ IsLast(a, w, m) /\ IsLast(a, w, n) /\ a[m].fill = l[p].fill /\ a[n].fill = l[q].fill => n < m
Recent(a, w, n, now, s) ==
  IsLast(a, w, n) /\ now - a[n].at <= s.ttl /\ Cardinality(Others(a, w, n)) < s.capacity
Keeps(l, a, w, now, s) == \A n : Recent(a, w, n, now, s) => Holds(l, a[n].fill)

\* A list that has at least what l has, and f.
Outlasts(k, l, f) == Holds(k, f) /\ \A h : Holds(l, h) => Holds(k, h)

\* A process's own accesses are few, and so are the fills among them.
LEMMA OthersFinite ==
  ASSUME NEW a \in Seq(Access), NEW w, NEW n
  PROVE  IsFiniteSet(Others(a, w, n)) /\ Cardinality(Others(a, w, n)) \in Nat
<1> DEFINE S == {m \in Mine(a, w) : n <= m}
           T == {a[k].fill : k \in S}
<1>1. IsFiniteSet(DOMAIN a)
  <2>1. DOMAIN a = 1..Len(a) /\ Len(a) \in Nat
    OBVIOUS
  <2> QED
    BY <2>1, FS_Interval
<1>2. IsFiniteSet(S)
  BY <1>1, FS_Subset DEF Mine
<1>3. IsFiniteSet(T)
  <2> DEFINE f == [k \in S |-> a[k].fill]
  <2>1. f \in Surjection(S, T)
    BY DEF Surjection
  <2> QED
    BY <1>2, <2>1, FS_Surjection
<1>4. Others(a, w, n) \in SUBSET T
  BY DEF Others
<1> HIDE DEF T
<1> QED
  BY <1>3, <1>4, FS_Subset, FS_CardinalityType

\* Every fill that a process accessed has a last access.
LEMMA LastExists ==
  ASSUME NEW a \in Seq(Access), NEW w, NEW i \in Mine(a, w)
  PROVE  \E n : IsLast(a, w, n) /\ a[n].fill = a[i].fill /\ i <= n
<1> DEFINE S == {m \in Mine(a, w) : a[m].fill = a[i].fill}
           R == {p \in S \X S : p[2] < p[1]}
<1>1. S \subseteq 1..Len(a) /\ Len(a) \in Nat
  BY DEF Mine
<1>2. \A m \in S : m \in Nat
  BY <1>1
<1>3. IsFiniteSet(S) /\ S # {}
  <2>1. IsFiniteSet(1..Len(a))
    BY <1>1, FS_Interval
  <2> QED
    BY <1>1, <2>1, FS_Subset
<1>4. \A x, y : <<x, y>> \in R <=> x \in S /\ y \in S /\ y < x
  OBVIOUS
<1> HIDE DEF R
<1>5. PICK n \in S : \A m \in S \ {n} : <<n, m>> \in R
  <2>1. \A x, y \in S : x # y => <<x, y>> \in R \/ <<y, x>> \in R
    BY <1>2, <1>4
  <2>2. \A x, y, z \in S : <<x, y>> \in R /\ <<y, z>> \in R => <<x, z>> \in R
    BY <1>2, <1>4
  <2> HIDE DEF S
  <2> QED
    BY <1>3, <2>1, <2>2, LeastExists
<1>6. ASSUME NEW m \in S PROVE m <= n
  <2>1. n \in Nat /\ m \in Nat
    BY <1>2
  <2>2. CASE m # n
    <3>1. <<n, m>> \in R
      BY <1>5, <2>2
    <3>2. m < n
      BY <1>4, <3>1
    <3> QED
      BY <2>1, <3>2
  <2> QED
    BY <2>1, <2>2
<1> QED
  BY <1>2, <1>6 DEF IsLast

\* There is one, and the entry for it says when it was.
LEMMA LastUnique ==
  ASSUME NEW a \in Seq(Access), NEW w, NEW m, NEW n, IsLast(a, w, m), IsLast(a, w, n), a[m].fill = a[n].fill
  PROVE  m = n
<1>1. m \in Mine(a, w) /\ n \in Mine(a, w) /\ m <= n /\ n <= m
  BY DEF IsLast
<1>2. m \in Nat /\ n \in Nat
  BY <1>1 DEF Mine
<1> QED
  BY <1>1, <1>2

\* In a list that reflects the accesses a fill is preceded by fewer others than
\* the process accessed since.
LEMMA FewBefore ==
  ASSUME NEW a \in Seq(Access), NEW w, NEW l \in Seq(Entry), Reflects(l, a, w),
         NEW p \in DOMAIN l, NEW n, IsLast(a, w, n), a[n].fill = l[p].fill
  PROVE  p - 1 <= Cardinality(Others(a, w, n))
<1> DEFINE S == 1..(p - 1)
           f == [k \in S |-> l[k].fill]
<1>1. p \in 1..Len(l) /\ DOMAIN l = 1..Len(l) /\ Len(l) \in Nat
  OBVIOUS
<1>2. \A k \in S : k \in DOMAIN l /\ k < p /\ k \in Nat
  BY <1>1
<1>3. \A k \in S : l[k].fill \in Others(a, w, n)
  <2> SUFFICES ASSUME NEW k \in S PROVE l[k].fill \in Others(a, w, n)
    OBVIOUS
  <2>1. PICK m : IsLast(a, w, m) /\ a[m].fill = l[k].fill
    BY <1>2 DEF Reflects
  <2>2. n < m
    BY <1>2, <2>1 DEF Reflects
  <2>3. m \in Mine(a, w) /\ m \in Nat /\ n \in Nat
    BY <2>1 DEF IsLast, Mine
  <2>4. a[m].fill # a[n].fill
    BY <2>1, <2>2, <2>3, LastUnique
  <2> QED
    BY <2>1, <2>2, <2>3, <2>4 DEF Others
<1>4. \A j, k \in S : f[j] = f[k] => j = k
  <2> SUFFICES ASSUME NEW j \in S, NEW k \in S, j < k, f[j] = f[k] PROVE FALSE
    BY <1>2
  <2>1. PICK m : IsLast(a, w, m) /\ a[m].fill = l[j].fill
    BY <1>2 DEF Reflects
  <2>2. m < m
    BY <1>2, <2>1 DEF Reflects
  <2>3. m \in Nat
    BY <2>1 DEF IsLast, Mine
  <2> QED
    BY <2>2, <2>3
<1>5. f \in Injection(S, Others(a, w, n))
  BY <1>3, <1>4 DEF Injection, IsInjective
<1>6. Cardinality(S) <= Cardinality(Others(a, w, n))
  BY <1>5, OthersFinite, FS_Injection
<1>7. Cardinality(S) = p - 1
  <2>1. p - 1 \in Nat
    BY <1>1
  <2> QED
    BY <2>1, FS_Interval
<1> QED
  BY <1>6, <1>7

\* The list without a fill: the other entries, in their order.
LEMMA WithoutKeeps ==
  ASSUME NEW a \in Seq(Access), NEW w, NEW l \in Seq(Entry), Reflects(l, a, w), NEW f
  PROVE  /\ Without(l, f) \in Seq(Entry) /\ Reflects(Without(l, f), a, w)
         /\ ~Holds(Without(l, f), f)
         /\ \A g : g # f /\ Holds(l, g) => Holds(Without(l, f), g)
<1>1. CASE ~Holds(l, f)
  BY <1>1 DEF Without
<1>2. CASE Holds(l, f)
  <2> DEFINE i == CHOOSE i \in DOMAIN l : l[i].fill = f
             t == Without(l, f)
  <2>1. i \in DOMAIN l /\ l[i].fill = f
    BY <1>2 DEF Holds
  <2>2. t = SubSeq(l, 1, i - 1) \o SubSeq(l, i + 1, Len(l))
    BY <1>2 DEF Without
  <2> HIDE DEF i, t
  <2>3. i \in 1..Len(l) /\ Len(l) \in Nat
    BY <2>1
  <2>4. PICK x : /\ x = SubSeq(l, 1, i - 1) /\ x \in Seq(Entry) /\ Len(x) = i - 1
                 /\ \A p \in 1..(i - 1) : x[p] = l[p]
    <3>1. /\ SubSeq(l, 1, i - 1) \in Seq(Entry) /\ Len(SubSeq(l, 1, i - 1)) = i - 1
          /\ \A p \in 1..(i - 1) : SubSeq(l, 1, i - 1)[p] = l[p]
      BY <2>3, SubSeqProperties
    <3> QED
      BY <3>1
  <2>5. PICK y : /\ y = SubSeq(l, i + 1, Len(l)) /\ y \in Seq(Entry) /\ Len(y) = Len(l) - i
                 /\ \A p \in 1..(Len(l) - i) : y[p] = l[p + i]
    <3>1. /\ SubSeq(l, i + 1, Len(l)) \in Seq(Entry) /\ Len(SubSeq(l, i + 1, Len(l))) = Len(l) - i
          /\ \A p \in 1..(Len(l) - i) : SubSeq(l, i + 1, Len(l))[p] = l[p + i]
      BY <2>3, SubSeqProperties
    <3> QED
      BY <3>1
  <2>6. /\ t = x \o y /\ t \in Seq(Entry) /\ Len(t) = Len(l) - 1
        /\ \A p \in 1..(Len(x) + Len(y)) : t[p] = IF p <= Len(x) THEN x[p] ELSE y[p - Len(x)]
    <3>1. t = x \o y
      BY <2>2, <2>4, <2>5
    <3>2. /\ x \o y \in Seq(Entry) /\ Len(x \o y) = Len(x) + Len(y)
          /\ \A p \in 1..(Len(x) + Len(y)) : (x \o y)[p] = IF p <= Len(x) THEN x[p] ELSE y[p - Len(x)]
      <4>1. x \in Seq(Entry) /\ y \in Seq(Entry)
        BY <2>4, <2>5
      <4> QED
        BY <4>1, ConcatProperties
    <3>3. Len(x) + Len(y) = Len(l) - 1
      <4>1. Len(x) = i - 1 /\ Len(y) = Len(l) - i
        BY <2>4, <2>5
      <4> QED
        BY <2>3, <4>1
    <3> QED
      BY <3>1, <3>2, <3>3
  <2>7. \A p \in 1..(Len(l) - 1) : t[p] = IF p < i THEN l[p] ELSE l[p + 1]
    <3>1. Len(x) = i - 1 /\ Len(y) = Len(l) - i
      BY <2>4, <2>5
    <3>2. \A p \in 1..(Len(l) - 1) : t[p] = IF p <= i - 1 THEN x[p] ELSE y[p - (i - 1)]
      <4>1. Len(x) + Len(y) = Len(l) - 1
        BY <2>3, <3>1
      <4> QED
        BY <2>6, <3>1, <4>1
    <3> SUFFICES ASSUME NEW p \in 1..(Len(l) - 1) PROVE t[p] = IF p < i THEN l[p] ELSE l[p + 1]
      OBVIOUS
    <3>3. CASE p < i
      <4>1. t[p] = x[p] /\ p \in 1..(i - 1)
        BY <2>3, <3>2, <3>3
      <4> QED
        BY <2>4, <3>3, <4>1
    <3>4. CASE ~(p < i)
      <4>1. t[p] = y[p - (i - 1)] /\ p - (i - 1) \in 1..(Len(l) - i)
        BY <2>3, <3>2, <3>4
      <4>2. y[p - (i - 1)] = l[(p - (i - 1)) + i]
        BY <2>5, <4>1
      <4>3. (p - (i - 1)) + i = p + 1
        BY <2>3
      <4> QED
        BY <3>4, <4>1, <4>2, <4>3
    <3> QED
      BY <3>3, <3>4
  <2>8. DOMAIN t = 1..(Len(l) - 1) /\ DOMAIN l = 1..Len(l)
    BY <2>6
  <2> DEFINE to(p) == IF p < i THEN p ELSE p + 1
  <2>9. \A p \in DOMAIN t : to(p) \in DOMAIN l /\ t[p] = l[to(p)] /\ to(p) # i
    BY <2>3, <2>7, <2>8
  <2>10. \A p, q \in DOMAIN t : p < q => to(p) < to(q)
    BY <2>3, <2>8
  <2>11. \A q \in DOMAIN l : q # i => \E p \in DOMAIN t : t[p] = l[q]
    <3> SUFFICES ASSUME NEW q \in DOMAIN l, q # i PROVE \E p \in DOMAIN t : t[p] = l[q]
      OBVIOUS
    <3>1. CASE q < i
      BY <2>3, <2>7, <2>8, <3>1
    <3>2. CASE q > i
      <4>1. q - 1 \in DOMAIN t /\ ~(q - 1 < i) /\ (q - 1) + 1 = q
        BY <2>3, <2>8, <3>2
      <4> QED
        BY <2>7, <2>8, <4>1
    <3> QED
      BY <2>3, <2>8, <3>1, <3>2
  <2>12. Reflects(t, a, w)
    <3>1. \A p \in DOMAIN t : \E n : IsLast(a, w, n) /\ a[n].fill = t[p].fill /\ a[n].at = t[p].at
      <4> SUFFICES ASSUME NEW p \in DOMAIN t
                   PROVE  \E n : IsLast(a, w, n) /\ a[n].fill = t[p].fill /\ a[n].at = t[p].at
        OBVIOUS
      <4>1. to(p) \in DOMAIN l /\ t[p] = l[to(p)]
        BY <2>9
      <4> HIDE DEF to
      <4> QED
        BY <4>1 DEF Reflects
    <3>2. \A p, q \in DOMAIN t : \A m, n :
            p < q /\ IsLast(a, w, m) /\ IsLast(a, w, n) /\ a[m].fill = t[p].fill /\ a[n].fill = t[q].fill => n < m
      <4> SUFFICES ASSUME NEW p \in DOMAIN t, NEW q \in DOMAIN t, NEW m, NEW n,
                          p < q, IsLast(a, w, m), IsLast(a, w, n), a[m].fill = t[p].fill, a[n].fill = t[q].fill
                   PROVE  n < m
        OBVIOUS
      <4>1. to(p) \in DOMAIN l /\ to(q) \in DOMAIN l /\ to(p) < to(q) /\ t[p] = l[to(p)] /\ t[q] = l[to(q)]
        BY <2>9, <2>10
      <4> HIDE DEF to
      <4> QED
        BY <4>1 DEF Reflects
    <3> QED
      BY <3>1, <3>2 DEF Reflects
  <2>13. ~Holds(t, f)
    <3> SUFFICES ASSUME NEW p \in DOMAIN t, t[p].fill = f PROVE FALSE
      BY DEF Holds
    <3>1. to(p) \in DOMAIN l /\ l[to(p)].fill = f /\ to(p) # i
      BY <2>9
    <3> HIDE DEF to
    <3>2. ASSUME NEW j \in DOMAIN l, NEW k \in DOMAIN l, j < k, l[j].fill = f, l[k].fill = f PROVE FALSE
      <4>1. PICK n : IsLast(a, w, n) /\ a[n].fill = f
        BY <3>2 DEF Reflects
      <4>2. n < n
        BY <3>2, <4>1 DEF Reflects
      <4>3. n \in Nat
        BY <4>1 DEF IsLast, Mine
      <4> QED
        BY <4>2, <4>3
    <3>3. to(p) < i \/ i < to(p)
      BY <2>3, <2>8, <3>1
    <3> QED
      BY <2>1, <3>1, <3>2, <3>3
  <2>14. \A g : g # f /\ Holds(l, g) => Holds(t, g)
    BY <2>1, <2>11 DEF Holds
  <2> QED
    BY <2>6, <2>12, <2>13, <2>14 DEF t
<1> QED
  BY <1>1, <1>2

\* The history with one more access.
LEMMA Longer ==
  ASSUME NEW a \in Seq(Access), NEW x \in Access, NEW b, b = Append(a, x)
  PROVE  /\ b \in Seq(Access) /\ Len(b) = Len(a) + 1 /\ DOMAIN b = 1..(Len(a) + 1) /\ DOMAIN a = 1..Len(a)
         /\ Len(a) \in Nat /\ b[Len(a) + 1] = x /\ \A n \in DOMAIN a : b[n] = a[n] /\ n \in DOMAIN b
<1>1. b \in Seq(Access) /\ Len(b) = Len(a) + 1 /\ Len(a) \in Nat
  OBVIOUS
<1>2. DOMAIN b = 1..(Len(a) + 1) /\ DOMAIN a = 1..Len(a)
  BY <1>1
<1>3. b[Len(a) + 1] = x /\ \A n \in 1..Len(a) : b[n] = a[n]
  BY <1>1
<1> QED
  BY <1>1, <1>2, <1>3

\* An access of another process changes nothing for w.
LEMMA Unconcerned ==
  ASSUME NEW a \in Seq(Access), NEW x \in Access, NEW b, b = Append(a, x), NEW w, x.by # w,
         NEW l \in Seq(Entry), NEW now, NEW s, Reflects(l, a, w), Keeps(l, a, w, now, s)
  PROVE  Reflects(l, b, w) /\ Keeps(l, b, w, now, s)
<1>1. /\ DOMAIN b = 1..(Len(a) + 1) /\ DOMAIN a = 1..Len(a) /\ Len(a) \in Nat
      /\ b[Len(a) + 1] = x /\ \A n \in DOMAIN a : b[n] = a[n] /\ n \in DOMAIN b
  BY Longer
<1>2. Mine(b, w) = Mine(a, w)
  <2>1. \A n \in DOMAIN b : n \in DOMAIN a \/ n = Len(a) + 1
    BY <1>1
  <2> QED
    BY <1>1, <2>1 DEF Mine
<1>3. \A n \in Mine(a, w) : b[n] = a[n]
  BY <1>1 DEF Mine
<1>4. \A n : IsLast(b, w, n) <=> IsLast(a, w, n)
  BY <1>2, <1>3 DEF IsLast
<1>5. \A n : IsLast(a, w, n) => b[n] = a[n] /\ Others(b, w, n) = Others(a, w, n)
  BY <1>2, <1>3 DEF IsLast, Others
<1>6. Reflects(l, b, w)
  <2>1. \A p \in DOMAIN l : \E n : IsLast(b, w, n) /\ b[n].fill = l[p].fill /\ b[n].at = l[p].at
    <3> SUFFICES ASSUME NEW p \in DOMAIN l
                 PROVE  \E n : IsLast(b, w, n) /\ b[n].fill = l[p].fill /\ b[n].at = l[p].at
      OBVIOUS
    <3>1. PICK n : IsLast(a, w, n) /\ a[n].fill = l[p].fill /\ a[n].at = l[p].at
      BY DEF Reflects
    <3>2. IsLast(b, w, n) /\ b[n] = a[n]
      BY <1>4, <1>5, <3>1
    <3> QED
      BY <3>1, <3>2
  <2>2. \A p, q \in DOMAIN l : \A m, n :
          p < q /\ IsLast(b, w, m) /\ IsLast(b, w, n) /\ b[m].fill = l[p].fill /\ b[n].fill = l[q].fill => n < m
    <3> SUFFICES ASSUME NEW p \in DOMAIN l, NEW q \in DOMAIN l, NEW m, NEW n,
                        p < q, IsLast(b, w, m), IsLast(b, w, n), b[m].fill = l[p].fill, b[n].fill = l[q].fill
                 PROVE  n < m
      OBVIOUS
    <3>1. IsLast(a, w, m) /\ IsLast(a, w, n) /\ b[m] = a[m] /\ b[n] = a[n]
      BY <1>4, <1>5
    <3> QED
      BY <3>1 DEF Reflects
  <2> QED
    BY <2>1, <2>2 DEF Reflects
<1>7. Keeps(l, b, w, now, s)
  BY <1>4, <1>5 DEF Keeps, Recent
<1> QED
  BY <1>6, <1>7

\* What becomes of last accesses when w accesses a fill.
Grown(a, x, b, w) ==
  /\ IsLast(b, w, Len(a) + 1) /\ b[Len(a) + 1] = x
  /\ \A n : IsLast(b, w, n) /\ n # Len(a) + 1 => IsLast(a, w, n) /\ a[n].fill # x.fill /\ b[n] = a[n] /\ n <= Len(a)
  /\ \A n : IsLast(a, w, n) /\ a[n].fill # x.fill => IsLast(b, w, n) /\ b[n] = a[n] /\ n <= Len(a)
  /\ \A n : IsLast(a, w, n) => Others(a, w, n) \subseteq Others(b, w, n)

LEMMA NewLast ==
  ASSUME NEW a \in Seq(Access), NEW x \in Access, NEW b, b = Append(a, x), NEW w, x.by = w
  PROVE  Grown(a, x, b, w)
<1>1. /\ DOMAIN b = 1..(Len(a) + 1) /\ DOMAIN a = 1..Len(a) /\ Len(a) \in Nat
      /\ b[Len(a) + 1] = x /\ \A n \in DOMAIN a : b[n] = a[n] /\ n \in DOMAIN b
  BY Longer
<1> DEFINE top == Len(a) + 1
<1>2. top \in Mine(b, w) /\ b[top] = x
  BY <1>1 DEF Mine
<1>3. \A n : n \in Mine(b, w) <=> n \in Mine(a, w) \/ n = top
  <2>1. \A n \in DOMAIN b : n \in DOMAIN a \/ n = top
    BY <1>1
  <2> QED
    BY <1>1, <1>2, <2>1 DEF Mine
<1>4. \A n \in Mine(a, w) : b[n] = a[n] /\ n \in Nat /\ n <= Len(a) /\ n < top
  BY <1>1 DEF Mine
<1>5. top \in Nat
  BY <1>1
<1> HIDE DEF top
<1>6. IsLast(b, w, top)
  BY <1>2, <1>3, <1>4, <1>5 DEF IsLast
<1>7. ASSUME NEW n, IsLast(b, w, n), n # top
      PROVE  IsLast(a, w, n) /\ a[n].fill # x.fill /\ b[n] = a[n] /\ n <= Len(a)
  <2>1. n \in Mine(a, w)
    BY <1>3, <1>7 DEF IsLast
  <2>2. a[n].fill # x.fill
    <3>1. ~(top <= n)
      BY <1>4, <1>5, <2>1
    <3> QED
      BY <1>2, <1>4, <1>7, <2>1, <3>1 DEF IsLast
  <2> QED
    BY <1>3, <1>4, <1>7, <2>1, <2>2 DEF IsLast
<1>8. ASSUME NEW n, IsLast(a, w, n), a[n].fill # x.fill
      PROVE  IsLast(b, w, n) /\ b[n] = a[n] /\ n <= Len(a)
  BY <1>2, <1>3, <1>4, <1>8 DEF IsLast
<1>9. ASSUME NEW n, IsLast(a, w, n) PROVE Others(a, w, n) \subseteq Others(b, w, n)
  BY <1>3, <1>4, <1>9 DEF IsLast, Others
<1> QED
  BY <1>2, <1>6, <1>7, <1>8, <1>9 DEF top, Grown

\* A list that keeps at least what it kept, and the fill just accessed.
LEMMA KeepsMore ==
  ASSUME NEW a \in Seq(Access), NEW x \in Access, NEW b, b = Append(a, x), NEW w, x.by = w,
         NEW l, NEW k, NEW now, NEW s, s.capacity \in Nat, Keeps(l, a, w, now, s),
         Outlasts(k, l, x.fill)
  PROVE  Keeps(k, b, w, now, s)
<1> SUFFICES ASSUME NEW n, Recent(b, w, n, now, s) PROVE Holds(k, b[n].fill)
  BY DEF Keeps
<1>1. IsLast(b, w, n) /\ now - b[n].at <= s.ttl /\ Cardinality(Others(b, w, n)) < s.capacity
  BY DEF Recent
<1>0. Grown(a, x, b, w)
  BY NewLast
<1>2. CASE n = Len(a) + 1
  BY <1>2, <1>0 DEF Grown, Outlasts
<1>3. CASE n # Len(a) + 1
  <2>1. IsLast(a, w, n) /\ b[n] = a[n]
    BY <1>1, <1>3, <1>0 DEF Grown
  <2>2. Others(a, w, n) \subseteq Others(b, w, n)
    BY <2>1, <1>0 DEF Grown
  <2>3. Cardinality(Others(a, w, n)) <= Cardinality(Others(b, w, n))
    <3>1. b \in Seq(Access)
      BY Longer
    <3> QED
      BY <2>2, <3>1, OthersFinite, FS_Subset
  <2>4. Cardinality(Others(a, w, n)) \in Nat /\ Cardinality(Others(b, w, n)) \in Nat
    <3>1. b \in Seq(Access)
      BY Longer
    <3> QED
      BY <3>1, OthersFinite
  <2>5. Recent(a, w, n, now, s)
    BY <1>1, <2>1, <2>3, <2>4 DEF Recent
  <2> QED
    BY <2>1, <2>5 DEF Keeps, Outlasts
<1> QED
  BY <1>2, <1>3

\* The record moved to the front.
LEMMA ToFrontReflects ==
  ASSUME NEW a \in Seq(Access), NEW l \in Seq(Entry), NEW w \in Gateways \X Nat, Reflects(l, a, w),
         NEW f \in FillIds, clock \in Nat,
         NEW b, b = Append(a, [by |-> w, fill |-> f, at |-> clock])
  PROVE  /\ ToFront(l, f) \in Seq(Entry) /\ Reflects(ToFront(l, f), b, w)
         /\ Outlasts(ToFront(l, f), l, f)
<1> DEFINE new == [by |-> w, fill |-> f, at |-> clock]
           top == Len(a) + 1
<1>1. PICK r : r = Without(l, f)
  OBVIOUS
<1>2. /\ r \in Seq(Entry) /\ Reflects(r, a, w) /\ ~Holds(r, f)
      /\ \A h : h # f /\ Holds(l, h) => Holds(r, h)
  BY <1>1, WithoutKeeps
<1>3. PICK e : e = [fill |-> f, at |-> clock]
  OBVIOUS
<1>4. e \in Entry /\ e.fill = f /\ e.at = clock
  BY <1>3 DEF Entry
<1>5. PICK t : t = ToFront(l, f)
  OBVIOUS
<1>6. t = <<e>> \o r
  BY <1>1, <1>3, <1>5 DEF ToFront
<1>7. /\ t \in Seq(Entry) /\ Len(t) = Len(r) + 1 /\ Len(r) \in Nat
      /\ t[1] = e /\ \A p \in 1..Len(r) : t[p + 1] = r[p]
  BY <1>2, <1>4, <1>6
<1>8. /\ DOMAIN t = 1..(Len(r) + 1) /\ DOMAIN r = 1..Len(r)
  BY <1>2, <1>7
<1>9. \A p \in DOMAIN t : p = 1 \/ (p - 1 \in DOMAIN r /\ t[p] = r[p - 1])
  <2> SUFFICES ASSUME NEW p \in DOMAIN t, p # 1 PROVE p - 1 \in DOMAIN r /\ t[p] = r[p - 1]
    OBVIOUS
  <2>1. p - 1 \in 1..Len(r) /\ (p - 1) + 1 = p
    BY <1>7, <1>8
  <2> QED
    BY <1>7, <1>8, <2>1
<1>10. new \in Access /\ new.by = w /\ new.fill = f /\ new.at = clock
  BY DEF Access
<1> HIDE DEF new
<1>11. b = Append(a, new)
  BY DEF new
<1>12. Grown(a, new, b, w)
  BY <1>10, <1>11, NewLast
<1>13. /\ IsLast(b, w, top) /\ b[top] = new
       /\ \A n : IsLast(a, w, n) /\ a[n].fill # f => IsLast(b, w, n) /\ b[n] = a[n] /\ n <= Len(a)
       /\ \A n : IsLast(b, w, n) /\ n # top => IsLast(a, w, n) /\ a[n].fill # f /\ b[n] = a[n] /\ n <= Len(a)
  BY <1>10, <1>12 DEF Grown
<1>14. b \in Seq(Access) /\ Len(a) \in Nat
  BY <1>10, <1>11, Longer
<1> HIDE DEF top
<1>15. \A p \in DOMAIN r : r[p].fill # f
  BY <1>2 DEF Holds
<1>16. \A p \in DOMAIN t : \E n : IsLast(b, w, n) /\ b[n].fill = t[p].fill /\ b[n].at = t[p].at
  <2> SUFFICES ASSUME NEW p \in DOMAIN t
               PROVE  \E n : IsLast(b, w, n) /\ b[n].fill = t[p].fill /\ b[n].at = t[p].at
    OBVIOUS
  <2>1. CASE p = 1
    <3>1. t[p] = e /\ IsLast(b, w, top) /\ b[top] = new
      BY <1>7, <1>13, <2>1
    <3> QED
      BY <1>4, <1>10, <3>1
  <2>2. CASE p # 1
    <3>1. p - 1 \in DOMAIN r /\ t[p] = r[p - 1]
      BY <1>9, <2>2
    <3>2. PICK q \in DOMAIN r : t[p] = r[q]
      BY <3>1
    <3>3. PICK n : IsLast(a, w, n) /\ a[n].fill = r[q].fill /\ a[n].at = r[q].at
      BY <1>2 DEF Reflects
    <3>4. IsLast(b, w, n) /\ b[n] = a[n]
      BY <1>13, <1>15, <3>3
    <3> QED
      BY <3>2, <3>3, <3>4
  <2> QED
    BY <2>1, <2>2
<1>17. \A p, q \in DOMAIN t : \A m, n :
         p < q /\ IsLast(b, w, m) /\ IsLast(b, w, n) /\ b[m].fill = t[p].fill /\ b[n].fill = t[q].fill => n < m
  <2> SUFFICES ASSUME NEW p \in DOMAIN t, NEW q \in DOMAIN t, NEW m, NEW n,
                      p < q, IsLast(b, w, m), IsLast(b, w, n), b[m].fill = t[p].fill, b[n].fill = t[q].fill
               PROVE  n < m
    OBVIOUS
  <2>1. q - 1 \in DOMAIN r /\ t[q] = r[q - 1]
    <3>1. q # 1
      BY <1>8
    <3> QED
      BY <1>9, <3>1
  <2>2. b[n].fill # f
    BY <1>15, <2>1
  <2>3. n # top
    BY <1>10, <1>13, <2>2
  <2>4. IsLast(a, w, n) /\ b[n] = a[n] /\ n <= Len(a)
    BY <1>13, <2>3
  <2>5. n \in Nat
    BY <2>4 DEF IsLast, Mine
  <2>6. CASE p = 1
    <3>1. b[m].fill = f
      BY <1>4, <1>7, <2>6
    <3>2. m = top
      BY <1>13, <3>1
    <3> QED
      BY <1>14, <2>4, <2>5, <3>2 DEF top
  <2>7. CASE p # 1
    <3>1. p - 1 \in DOMAIN r /\ t[p] = r[p - 1]
      BY <1>9, <2>7
    <3>2. m # top
      BY <1>10, <1>13, <1>15, <3>1
    <3>3. IsLast(a, w, m) /\ b[m] = a[m]
      BY <1>13, <3>2
    <3>4. p - 1 < q - 1
      BY <1>8
    <3>5. PICK y \in DOMAIN r, z \in DOMAIN r : y < z /\ a[m].fill = r[y].fill /\ a[n].fill = r[z].fill
      BY <2>1, <2>4, <3>1, <3>3, <3>4
    <3> QED
      BY <1>2, <2>4, <3>3, <3>5 DEF Reflects
  <2> QED
    BY <2>6, <2>7
<1>18. Reflects(t, b, w)
  BY <1>16, <1>17 DEF Reflects
<1>19. Holds(t, f)
  <2>1. 1 \in DOMAIN t /\ t[1].fill = f
    BY <1>4, <1>7, <1>8
  <2> QED
    BY <2>1 DEF Holds
<1>20. ASSUME NEW h, Holds(l, h) PROVE Holds(t, h)
  <2>1. CASE h = f
    BY <1>19, <2>1
  <2>2. CASE h # f
    <3>1. PICK p \in DOMAIN r : r[p].fill = h
      BY <1>2, <1>20, <2>2 DEF Holds
    <3>2. p + 1 \in DOMAIN t /\ t[p + 1] = r[p]
      BY <1>7, <1>8
    <3> QED
      BY <3>1, <3>2 DEF Holds
  <2> QED
    BY <2>1, <2>2
<1> QED
  BY <1>5, <1>7, <1>18, <1>19, <1>20 DEF Outlasts

\* Eviction leaves a stretch from the front, with every record that is within
\* the capacity and has not expired.
LEMMA EvictedStretch ==
  ASSUME NEW l \in Seq(Entry), dedupSetup.capacity \in Nat
  PROVE  \E k \in 0..Len(l) :
           /\ Evicted(l) = SubSeq(l, 1, k)
           /\ \A p \in DOMAIN l : p <= dedupSetup.capacity /\ ~Expired(l[p]) => p <= k
<1> DEFINE room == IF Len(l) > dedupSetup.capacity THEN dedupSetup.capacity ELSE Len(l)
           short == SubSeq(l, 1, room)
           live == {i \in DOMAIN short : ~Expired(short[i])}
           k == IF live = {} THEN 0 ELSE CHOOSE i \in live : \A j \in live : j <= i
<1>1. Len(l) \in Nat /\ DOMAIN l = 1..Len(l)
  OBVIOUS
<1>2. room \in 0..Len(l) /\ \A p \in DOMAIN l : p <= dedupSetup.capacity => p <= room
  BY <1>1
<1>3. Evicted(l) = SubSeq(short, 1, k)
  BY DEF Evicted
<1> HIDE DEF room
<1>4. PICK x : x = short /\ x \in Seq(Entry) /\ Len(x) = room /\ \A p \in 1..room : x[p] = l[p]
  <2>1. /\ SubSeq(l, 1, room) \in Seq(Entry) /\ Len(SubSeq(l, 1, room)) = room
        /\ \A p \in 1..room : SubSeq(l, 1, room)[p] = l[p]
    BY <1>1, <1>2
  <2> QED
    BY <2>1
<1> HIDE DEF short
<1>5. live \subseteq 1..room /\ \A p \in 1..room : ~Expired(l[p]) => p \in live
  BY <1>4
<1>6. k \in 0..room /\ \A p \in live : p <= k
  <2>1. CASE live = {}
    BY <1>2, <2>1
  <2>2. CASE live # {}
    <3> HIDE DEF live
    <3>1. \E i \in live : \A j \in live : j <= i
      <4> DEFINE R == {p \in live \X live : p[2] < p[1]}
      <4>1. \A y, z : <<y, z>> \in R <=> y \in live /\ z \in live /\ z < y
        OBVIOUS
      <4> HIDE DEF R
      <4>2. \A y \in live : y \in Nat
        BY <1>2, <1>5
      <4>3. IsFiniteSet(live)
        <5>1. IsFiniteSet(1..room)
          BY <1>2, FS_Interval
        <5> QED
          BY <1>5, <5>1, FS_Subset
      <4>4. \A y, z \in live : y # z => <<y, z>> \in R \/ <<z, y>> \in R
        BY <4>1, <4>2
      <4>5. \A y, z, v \in live : <<y, z>> \in R /\ <<z, v>> \in R => <<y, v>> \in R
        BY <4>1, <4>2
      <4>6. PICK i \in live : \A j \in live \ {i} : <<i, j>> \in R
        BY <2>2, <4>3, <4>4, <4>5, LeastExists
      <4>7. \A j \in live : j <= i
        <5> SUFFICES ASSUME NEW j \in live PROVE j <= i
          OBVIOUS
        <5>1. i \in Nat /\ j \in Nat
          BY <4>2
        <5>2. CASE j # i
          <6>1. <<i, j>> \in R
            BY <4>6, <5>2
          <6>2. j < i
            BY <4>1, <6>1
          <6> QED
            BY <5>1, <6>2
        <5> QED
          BY <5>1, <5>2
      <4> QED
        BY <4>7
    <3>2. k = CHOOSE i \in live : \A j \in live : j <= i
      BY <2>2
    <3>3. k \in live /\ \A j \in live : j <= k
      BY <3>1, <3>2
    <3>4. room \in Nat /\ k \in 1..room
      <4>1. k \in 1..room
        BY <1>5, <3>3
      <4>2. room \in Nat
        BY <1>1, <1>2
      <4> QED
        BY <4>1, <4>2
    <3> QED
      BY <3>3, <3>4
  <2> QED
    BY <2>1, <2>2
<1> HIDE DEF k, live
<1>7. k \in 0..Len(l) /\ \A p \in DOMAIN l : p <= dedupSetup.capacity /\ ~Expired(l[p]) => p <= k
  BY <1>1, <1>2, <1>5, <1>6
<1>8. SubSeq(short, 1, k) = SubSeq(l, 1, k)
  <2>1. /\ SubSeq(x, 1, k) \in Seq(Entry) /\ Len(SubSeq(x, 1, k)) = k
        /\ \A p \in 1..k : SubSeq(x, 1, k)[p] = x[p]
    BY <1>2, <1>4, <1>6
  <2>2. /\ SubSeq(l, 1, k) \in Seq(Entry) /\ Len(SubSeq(l, 1, k)) = k
        /\ \A p \in 1..k : SubSeq(l, 1, k)[p] = l[p]
    BY <1>1, <1>7
  <2>3. \A p \in 1..k : x[p] = l[p]
    BY <1>2, <1>4, <1>6
  <2>4. SubSeq(x, 1, k) = SubSeq(l, 1, k)
    BY <1>2, <1>6, <2>1, <2>2, <2>3
  <2> QED
    BY <1>4, <2>4
<1> QED
  BY <1>3, <1>7, <1>8

\* What a process has not had to forget it finds, and has not let expire.
LEMMA RecentKnown ==
  ASSUME NEW a \in Seq(Access), NEW w, NEW l \in Seq(Entry), Reflects(l, a, w),
         clock \in Nat, dedupSetup.ttl \in Nat,
         Keeps(l, a, w, clock, dedupSetup), NEW n, Recent(a, w, n, clock, dedupSetup)
  PROVE  \E p \in DOMAIN l : l[p].fill = a[n].fill /\ l[p].at = a[n].at /\ ~Expired(l[p])
<1>1. IsLast(a, w, n) /\ clock - a[n].at <= dedupSetup.ttl
  BY DEF Recent
<1>2. PICK p \in DOMAIN l : l[p].fill = a[n].fill
  BY DEF Keeps, Holds
<1>3. PICK m : IsLast(a, w, m) /\ a[m].fill = l[p].fill /\ a[m].at = l[p].at
  BY DEF Reflects
<1>4. m = n
  BY <1>1, <1>2, <1>3, LastUnique
<1>5. ~(clock - l[p].at > dedupSetup.ttl)
  <2>1. l[p].at = a[n].at
    BY <1>3, <1>4
  <2>2. clock - l[p].at <= dedupSetup.ttl
    BY <1>1, <2>1
  <2>3. l[p].at \in Nat
    <3>1. l[p] \in Entry
      OBVIOUS
    <3> QED
      BY <3>1 DEF Entry
  <2> QED
    BY <2>2, <2>3
<1> QED
  BY <1>2, <1>3, <1>4, <1>5 DEF Expired

\* So eviction forgets nothing recent.
LEMMA EvictedKeeps ==
  ASSUME NEW a \in Seq(Access), NEW w, NEW l \in Seq(Entry), Reflects(l, a, w),
         clock \in Nat, dedupSetup.ttl \in Nat, dedupSetup.capacity \in Nat,
         Keeps(l, a, w, clock, dedupSetup)
  PROVE  /\ Evicted(l) \in Seq(Entry) /\ Reflects(Evicted(l), a, w)
         /\ Keeps(Evicted(l), a, w, clock, dedupSetup)
<1>1. PICK k \in 0..Len(l) :
        /\ Evicted(l) = SubSeq(l, 1, k)
        /\ \A p \in DOMAIN l : p <= dedupSetup.capacity /\ ~Expired(l[p]) => p <= k
  BY EvictedStretch
<1>2. Len(l) \in Nat /\ DOMAIN l = 1..Len(l)
  OBVIOUS
<1>3. PICK t : /\ t = Evicted(l) /\ t \in Seq(Entry) /\ DOMAIN t = 1..k
               /\ \A p \in 1..k : t[p] = l[p]
  <2>1. /\ SubSeq(l, 1, k) \in Seq(Entry) /\ Len(SubSeq(l, 1, k)) = k
        /\ \A p \in 1..k : SubSeq(l, 1, k)[p] = l[p]
    BY <1>1, <1>2
  <2>2. DOMAIN SubSeq(l, 1, k) = 1..k
    BY <2>1
  <2> QED
    BY <1>1, <2>1, <2>2
<1>4. \A p \in DOMAIN t : p \in DOMAIN l /\ t[p] = l[p]
  BY <1>1, <1>2, <1>3
<1>5. Reflects(t, a, w)
  BY <1>4 DEF Reflects
<1>6. ASSUME NEW n, Recent(a, w, n, clock, dedupSetup) PROVE Holds(t, a[n].fill)
  <2>1. PICK p \in DOMAIN l : l[p].fill = a[n].fill /\ l[p].at = a[n].at /\ ~Expired(l[p])
    BY <1>6, RecentKnown
  <2>2. IsLast(a, w, n) /\ Cardinality(Others(a, w, n)) < dedupSetup.capacity
    BY <1>6 DEF Recent
  <2>3. p - 1 <= Cardinality(Others(a, w, n))
    BY <2>1, <2>2, FewBefore
  <2>4. p <= dedupSetup.capacity
    <3>1. Cardinality(Others(a, w, n)) \in Nat
      BY OthersFinite
    <3>2. p \in Nat
      BY <1>2
    <3> QED
      BY <2>2, <2>3, <3>1, <3>2
  <2>5. p \in DOMAIN t
    BY <1>1, <1>2, <1>3, <2>1, <2>4
  <2> QED
    BY <1>4, <2>1, <2>5 DEF Holds
<1>7. Keeps(t, a, w, clock, dedupSetup)
  BY <1>6 DEF Keeps
<1> QED
  BY <1>3, <1>5, <1>7

\* Forgetting a fill that was not known loses nothing recent.
LEMMA WithoutForgets ==
  ASSUME NEW a \in Seq(Access), NEW w, NEW l \in Seq(Entry), Reflects(l, a, w),
         clock \in Nat, dedupSetup.ttl \in Nat, Keeps(l, a, w, clock, dedupSetup), NEW f, ~Known(l, f)
  PROVE  /\ Without(l, f) \in Seq(Entry) /\ Reflects(Without(l, f), a, w)
         /\ Keeps(Without(l, f), a, w, clock, dedupSetup)
<1>1. /\ Without(l, f) \in Seq(Entry) /\ Reflects(Without(l, f), a, w)
      /\ ~Holds(Without(l, f), f)
      /\ \A h : h # f /\ Holds(l, h) => Holds(Without(l, f), h)
  BY WithoutKeeps
<1>2. ASSUME NEW n, Recent(a, w, n, clock, dedupSetup) PROVE Holds(Without(l, f), a[n].fill)
  <2>1. PICK p \in DOMAIN l : l[p].fill = a[n].fill /\ ~Expired(l[p])
    BY <1>2, RecentKnown
  <2>2. a[n].fill # f
    BY <2>1 DEF Known
  <2> QED
    BY <1>1, <2>1, <2>2 DEF Holds
<1> QED
  BY <1>1, <1>2 DEF Keeps

\* A hit: the record moved to the front.
LEMMA ToFrontKeeps ==
  ASSUME NEW a \in Seq(Access), NEW l \in Seq(Entry), NEW w \in Gateways \X Nat, Reflects(l, a, w),
         Keeps(l, a, w, clock, dedupSetup), dedupSetup.capacity \in Nat, NEW f \in FillIds, clock \in Nat,
         NEW b, b = Append(a, [by |-> w, fill |-> f, at |-> clock])
  PROVE  /\ ToFront(l, f) \in Seq(Entry) /\ Reflects(ToFront(l, f), b, w)
         /\ Keeps(ToFront(l, f), b, w, clock, dedupSetup)
<1>1. /\ ToFront(l, f) \in Seq(Entry) /\ Reflects(ToFront(l, f), b, w)
      /\ Outlasts(ToFront(l, f), l, f)
  BY ToFrontReflects
<1>2. PICK x : x = [by |-> w, fill |-> f, at |-> clock]
  OBVIOUS
<1>3. x \in Access /\ x.by = w /\ x.fill = f /\ b = Append(a, x)
  BY <1>2 DEF Access
<1>4. Keeps(ToFront(l, f), b, w, clock, dedupSetup)
  BY <1>1, <1>3, KeepsMore
<1> QED
  BY <1>1, <1>4

-----------------------------------------------------------------------------
(* The invariant *)

Working ==
  [step : {"claim", "settle", "unclaim", "add"}, fill : FillIds, claimedAt : Int, asked : Nat, after : Nat]
Settled ==
  [fill : FillIds, by : Gateways \X Nat, claimedAt : Int, answered : BOOLEAN, at : Nat, asked : Nat, after : Nat]

DedupType ==
  /\ dedupSetup \in DedupSetups /\ clock \in Nat
  /\ lru \in [Gateways -> Seq(Entry)] /\ life \in [Gateways -> Nat]
  /\ settling \in [Gateways -> {NotSettling} \cup Working]
  /\ accesses \in Seq(Access) /\ done \in Seq(Settled) /\ claimed \subseteq FillIds \X Nat

\* Each process has what its accesses say, and the history is in order.
Memory ==
  /\ \A g \in Gateways :
       Reflects(lru[g], accesses, Who(g)) /\ Keeps(lru[g], accesses, Who(g), clock, dedupSetup)
  /\ \A m, n \in DOMAIN accesses : m <= n => accesses[m].at <= accesses[n].at
  /\ \A n \in DOMAIN accesses : accesses[n].at <= clock /\ accesses[n].by[2] <= life[accesses[n].by[1]]

\* When w asked for the fill of s, it had had to forget it.
Forgot(a, w, s, d) ==
  /\ s.after <= Len(a)
  /\ ~\E i \in 1..s.after :
        /\ a[i].fill = s.fill /\ a[i].by = w /\ s.asked - a[i].at <= d.ttl
        /\ Cardinality({a[k].fill : k \in {n \in i..s.after : a[n].by = w}} \ {s.fill}) < d.capacity

Forgotten ==
  /\ \A g \in Gateways : settling[g].step # "idle" => Forgot(accesses, Who(g), settling[g], dedupSetup)
  /\ \A j \in DOMAIN done : Forgot(accesses, done[j].by, done[j], dedupSetup)

\* A settlement under way began within the life of a claim, and claimed since if at all.
OnTime(s, g, now, d) ==
  /\ g \in d.processes /\ s.asked <= now /\ now - s.asked <= d.ttl
  /\ s.claimedAt = -1 \/ (s.asked <= s.claimedAt /\ s.claimedAt <= now)
  /\ s.step = "claim" => s.claimedAt = -1
  /\ s.step = "unclaim" => s.claimedAt >= 0
HoldsClaim(s) == s.step \in {"settle", "unclaim"} /\ s.claimedAt >= 0
Reported(e)   == e.claimedAt >= 0 /\ e.answered
InForce(e, c, ttl) == c - e.claimedAt \in 0..ttl

\* Claims are one per fill and have not expired; who holds one has it in the
\* store, alone; what was settled with one keeps others out until it expires.
ClaimsLast ==
  /\ \A c, d \in claimed : c[1] = d[1] => c = d
  /\ \A c \in claimed : c[2] <= clock /\ clock - c[2] <= dedupSetup.ttl
  /\ \A g \in Gateways : settling[g].step # "idle" => OnTime(settling[g], g, clock, dedupSetup)
ClaimsHeld ==
  /\ \A g \in Gateways : HoldsClaim(settling[g]) => <<settling[g].fill, settling[g].claimedAt>> \in claimed
  /\ \A g, h \in Gateways :
       g # h /\ HoldsClaim(settling[g]) /\ HoldsClaim(settling[h]) => settling[g].fill # settling[h].fill
ClaimsHonoured ==
  /\ \A i \in DOMAIN done : Reported(done[i]) =>
       /\ done[i].claimedAt <= clock
       /\ <<done[i].fill, done[i].claimedAt>> \in claimed \/ clock - done[i].claimedAt > dedupSetup.ttl
  /\ \A i \in DOMAIN done : \A g \in Gateways :
       Reported(done[i]) /\ HoldsClaim(settling[g]) /\ settling[g].fill = done[i].fill
         => ~InForce(done[i], settling[g].claimedAt, dedupSetup.ttl)
  /\ \A i, j \in DOMAIN done :
       i < j /\ Reported(done[i]) /\ done[i].fill = done[j].fill => ~InForce(done[i], done[j].claimedAt, dedupSetup.ttl)

ClaimsInv == ClaimsLast /\ ClaimsHeld /\ ClaimsHonoured
DedupInv  == DedupType /\ Memory /\ Forgotten /\ ClaimsInv

\* The setup, and what its assumption says of it.
LEMMA SetupKnown ==
  ASSUME DedupType
  PROVE  /\ dedupSetup.capacity \in Nat /\ dedupSetup.ttl \in Nat \ {0}
         /\ dedupSetup.processes \subseteq Gateways /\ dedupSetup.fills \subseteq FillIds
BY DedupAssumption DEF DedupType

LEMMA DedupInitially == ASSUME DedupInit PROVE DedupInv
<1>1. DedupType
  BY DEF DedupInit, DedupType
<1>2. /\ lru = [g \in Gateways |-> <<>>] /\ accesses = <<>> /\ done = <<>> /\ claimed = {}
      /\ settling = [g \in Gateways |-> NotSettling]
  BY DEF DedupInit
<1>3. DOMAIN accesses = {} /\ DOMAIN done = {} /\ \A g \in Gateways : DOMAIN lru[g] = {}
  BY <1>2
<1>4. Memory
  <2>1. \A g \in Gateways : Reflects(lru[g], accesses, Who(g))
    BY <1>3 DEF Reflects
  <2>2. \A g \in Gateways : Keeps(lru[g], accesses, Who(g), clock, dedupSetup)
    BY <1>3 DEF Keeps, Recent, IsLast, Mine
  <2> QED
    BY <1>3, <2>1, <2>2 DEF Memory
<1>5. \A g \in Gateways : settling[g].step = "idle"
  BY <1>2 DEF NotSettling
<1>6. Forgotten
  BY <1>3, <1>5 DEF Forgotten
<1>7. ClaimsInv
  BY <1>2, <1>3, <1>5 DEF ClaimsInv, ClaimsLast, ClaimsHeld, ClaimsHonoured, HoldsClaim
<1> QED
  BY <1>1, <1>4, <1>6, <1>7 DEF DedupInv

-----------------------------------------------------------------------------
(* The memory, step by step *)

\* A later history says the same of what was forgotten earlier.
LEMMA ForgotLonger ==
  ASSUME NEW a \in Seq(Access), NEW x \in Access, NEW w, NEW s, NEW d, s.after \in Nat, Forgot(a, w, s, d)
  PROVE  Forgot(Append(a, x), w, s, d)
<1>1. PICK b : b = Append(a, x)
  OBVIOUS
<1>2. /\ Len(b) = Len(a) + 1 /\ DOMAIN a = 1..Len(a) /\ Len(a) \in Nat
      /\ \A n \in DOMAIN a : b[n] = a[n]
  BY <1>1, Longer
<1>3. s.after <= Len(a)
  BY DEF Forgot
<1>4. \A n \in 1..s.after : b[n] = a[n]
  BY <1>2, <1>3
<1>5. ASSUME NEW i \in 1..s.after
      PROVE  {b[k].fill : k \in {n \in i..s.after : b[n].by = w}} = {a[k].fill : k \in {n \in i..s.after : a[n].by = w}}
  <2>1. \A n \in i..s.after : n \in 1..s.after
    OBVIOUS
  <2> QED
    BY <1>4, <2>1
<1>6. s.after <= Len(b)
  BY <1>2, <1>3
<1>7. Forgot(b, w, s, d)
  BY <1>4, <1>5, <1>6 DEF Forgot
<1> QED
  BY <1>1, <1>7

\* What the list does not have now, the process did not have to remember.
LEMMA NotKnownForgot ==
  ASSUME DedupType, Memory, NEW g \in Gateways, NEW f \in FillIds, ~Known(lru[g], f),
         NEW s, s.fill = f, s.asked = clock, s.after = Len(accesses)
  PROVE  Forgot(accesses, Who(g), s, dedupSetup)
<1>1. PICK a, l, w : a \in Seq(Access) /\ l \in Seq(Entry) /\ a = accesses /\ l = lru[g] /\ w = Who(g)
  BY DEF DedupType
<1>2. Reflects(l, a, w) /\ Keeps(l, a, w, clock, dedupSetup)
  BY <1>1 DEF Memory
<1>3. clock \in Nat /\ dedupSetup.ttl \in Nat /\ dedupSetup.capacity \in Nat /\ Len(a) \in Nat /\ DOMAIN a = 1..Len(a)
  BY SetupKnown DEF DedupType
<1>4. ASSUME NEW i \in 1..Len(a), a[i].fill = f, a[i].by = w, clock - a[i].at <= dedupSetup.ttl,
             Cardinality({a[k].fill : k \in {n \in i..Len(a) : a[n].by = w}} \ {f}) < dedupSetup.capacity
      PROVE  FALSE
  <2> DEFINE T == {a[k].fill : k \in {n \in i..Len(a) : a[n].by = w}} \ {f}
  <2>1. i \in Mine(a, w)
    BY <1>3, <1>4 DEF Mine
  <2>2. PICK n : IsLast(a, w, n) /\ a[n].fill = a[i].fill /\ i <= n
    BY <1>1, <2>1, LastExists
  <2>3. n \in DOMAIN a /\ n \in Nat /\ n <= Len(a)
    BY <1>3, <2>2 DEF IsLast, Mine
  <2>4. clock - a[n].at <= dedupSetup.ttl
    <3>1. a[i].at <= a[n].at
      BY <1>1, <1>3, <2>2, <2>3 DEF Memory
    <3>2. a[i].at \in Nat /\ a[n].at \in Nat
      <4>1. a[i] \in Access /\ a[n] \in Access
        BY <1>1, <1>3, <2>3
      <4> QED
        BY <4>1 DEF Access
    <3> QED
      BY <1>3, <1>4, <3>1, <3>2
  <2>5. Others(a, w, n) \subseteq T
    BY <1>3, <1>4, <2>2, <2>3 DEF Others, Mine
  <2>6. IsFiniteSet(T) /\ Cardinality(T) \in Nat
    <3>1. T \subseteq Others(a, w, i)
      BY <1>3, <1>4 DEF Others, Mine
    <3> HIDE DEF T
    <3> QED
      BY <1>1, <3>1, OthersFinite, FS_Subset, FS_CardinalityType
  <2>7. Cardinality(Others(a, w, n)) < dedupSetup.capacity
    <3>1. Cardinality(T) < dedupSetup.capacity
      BY <1>4
    <3> HIDE DEF T
    <3>2. Cardinality(Others(a, w, n)) <= Cardinality(T) /\ Cardinality(Others(a, w, n)) \in Nat
      BY <1>1, <2>5, <2>6, OthersFinite, FS_Subset
    <3> QED
      BY <1>3, <2>6, <3>1, <3>2
  <2>8. Recent(a, w, n, clock, dedupSetup)
    BY <2>2, <2>4, <2>7 DEF Recent
  <2>9. \E p \in DOMAIN l : l[p].fill = a[n].fill /\ l[p].at = a[n].at /\ ~Expired(l[p])
    <3>1. a \in Seq(Access) /\ l \in Seq(Entry) /\ Reflects(l, a, w) /\ Keeps(l, a, w, clock, dedupSetup)
      BY <1>1, <1>2
    <3>2. clock \in Nat /\ dedupSetup.ttl \in Nat
      BY <1>3
    <3> QED
      BY <2>8, <3>1, <3>2, RecentKnown
  <2> QED
    BY <1>1, <1>4, <2>2, <2>9 DEF Known
<1>5. s.after <= Len(a)
  BY <1>1, <1>3
<1>6. ~\E i \in 1..s.after :
        /\ a[i].fill = s.fill /\ a[i].by = w /\ s.asked - a[i].at <= dedupSetup.ttl
        /\ Cardinality({a[k].fill : k \in {n \in i..s.after : a[n].by = w}} \ {s.fill}) < dedupSetup.capacity
  <2> SUFFICES ASSUME NEW i \in 1..s.after,
                      a[i].fill = s.fill, a[i].by = w, s.asked - a[i].at <= dedupSetup.ttl,
                      Cardinality({a[k].fill : k \in {n \in i..s.after : a[n].by = w}} \ {s.fill}) < dedupSetup.capacity
               PROVE  FALSE
    OBVIOUS
  <2>1. s.after = Len(a)
    BY <1>1
  <2>2. /\ i \in 1..Len(a) /\ a[i].fill = f /\ clock - a[i].at <= dedupSetup.ttl
        /\ Cardinality({a[k].fill : k \in {n \in i..Len(a) : a[n].by = w}} \ {f}) < dedupSetup.capacity
    BY <2>1
  <2> QED
    BY <1>4, <2>2
<1>7. Forgot(a, w, s, dedupSetup)
  BY <1>5, <1>6 DEF Forgot
<1> QED
  BY <1>1, <1>7

\* A process's list changes, and nobody's history.
LEMMA ListChanged ==
  ASSUME DedupType, Memory, NEW g \in Gateways, NEW l \in Seq(Entry),
         Reflects(l, accesses, Who(g)), Keeps(l, accesses, Who(g), clock, dedupSetup),
         lru' = [lru EXCEPT ![g] = l], UNCHANGED <<dedupSetup, clock, life, accesses>>
  PROVE  Memory' /\ lru' \in [Gateways -> Seq(Entry)]
<1>1. lru' \in [Gateways -> Seq(Entry)] /\ lru'[g] = l /\ \A h \in Gateways : h # g => lru'[h] = lru[h]
  BY DEF DedupType
<1>2. \A h \in Gateways : Who(h)' = Who(h)
  BY DEF Who
<1>3. ASSUME NEW h \in Gateways
      PROVE  Reflects(lru'[h], accesses', Who(h)') /\ Keeps(lru'[h], accesses', Who(h)', clock', dedupSetup')
  <2>1. Reflects(lru'[h], accesses, Who(h)) /\ Keeps(lru'[h], accesses, Who(h), clock, dedupSetup)
    BY <1>1 DEF Memory
  <2> QED
    BY <1>2, <2>1
<1> QED
  BY <1>1, <1>3 DEF Memory

\* A process accesses a fill.
LEMMA FillAccessed ==
  ASSUME DedupType, Memory, NEW g \in Gateways, NEW f \in FillIds, Accessed(g, f),
         NEW l \in Seq(Entry), Reflects(l, accesses', Who(g)), Keeps(l, accesses', Who(g), clock, dedupSetup),
         lru' = [lru EXCEPT ![g] = l], UNCHANGED <<dedupSetup, clock, life>>
  PROVE  Memory' /\ lru' \in [Gateways -> Seq(Entry)] /\ accesses' \in Seq(Access)
<1>1. lru' \in [Gateways -> Seq(Entry)] /\ lru'[g] = l /\ \A h \in Gateways : h # g => lru'[h] = lru[h]
  BY DEF DedupType
<1>2. \A h \in Gateways : Who(h)' = Who(h) /\ Who(h) \in Gateways \X Nat /\ (h # g => Who(h) # Who(g))
  BY DEF Who, DedupType
<1>3. PICK a, x, b : a \in Seq(Access) /\ a = accesses /\ b = accesses' /\ x = [by |-> Who(g), fill |-> f, at |-> clock]
  BY DEF DedupType
<1>4. x \in Access /\ x.by = Who(g) /\ x.at = clock /\ b = Append(a, x)
  BY <1>2, <1>3 DEF Accessed, DedupType, Access
<1>5. /\ b \in Seq(Access) /\ Len(b) = Len(a) + 1 /\ DOMAIN b = 1..(Len(a) + 1) /\ DOMAIN a = 1..Len(a)
      /\ Len(a) \in Nat /\ b[Len(a) + 1] = x /\ \A n \in DOMAIN a : b[n] = a[n] /\ n \in DOMAIN b
  BY <1>3, <1>4, Longer
<1>6. ASSUME NEW h \in Gateways
      PROVE  Reflects(lru'[h], accesses', Who(h)') /\ Keeps(lru'[h], accesses', Who(h)', clock', dedupSetup')
  <2>1. CASE h = g
    BY <1>1, <1>2, <2>1
  <2>2. CASE h # g
    <3>1. x.by # Who(h)
      BY <1>2, <1>4, <2>2
    <3>2. lru[h] \in Seq(Entry) /\ Reflects(lru[h], a, Who(h)) /\ Keeps(lru[h], a, Who(h), clock, dedupSetup)
      BY <1>3 DEF DedupType, Memory
    <3>3. Reflects(lru[h], b, Who(h)) /\ Keeps(lru[h], b, Who(h), clock, dedupSetup)
      BY <1>3, <1>4, <3>1, <3>2, Unconcerned
    <3> QED
      BY <1>1, <1>2, <1>3, <2>2, <3>3
  <2> QED
    BY <2>1, <2>2
<1>7. \A n \in DOMAIN b : n \in DOMAIN a \/ (n = Len(a) + 1 /\ b[n] = x)
  BY <1>5
<1>8. \A n \in DOMAIN a : a[n].at <= clock /\ a[n].by[2] <= life[a[n].by[1]]
  BY <1>3 DEF Memory
<1>9. x.by[2] <= life[x.by[1]] /\ x.at <= clock
  <2>1. x.by[1] = g /\ x.by[2] = life[g] /\ life[g] \in Nat /\ clock \in Nat
    BY <1>4 DEF Who, DedupType
  <2> QED
    BY <1>4, <2>1
<1>10. \A n \in DOMAIN b : b[n].at <= clock /\ b[n].by[2] <= life[b[n].by[1]]
  BY <1>5, <1>7, <1>8, <1>9
<1>11. ASSUME NEW m \in DOMAIN b, NEW n \in DOMAIN b, m <= n PROVE b[m].at <= b[n].at
  <2>1. CASE n = Len(a) + 1
    <3>1. b[n].at = clock
      BY <1>4, <1>5, <2>1
    <3> QED
      BY <1>10, <3>1
  <2>2. CASE n # Len(a) + 1
    <3>1. n \in DOMAIN a
      BY <1>7, <2>2
    <3>2. m \in DOMAIN a
      BY <1>5, <1>11, <3>1
    <3>3. a[m].at <= a[n].at
      BY <1>3, <1>11, <3>1, <3>2 DEF Memory
    <3> QED
      BY <1>5, <3>1, <3>2, <3>3
  <2> QED
    BY <2>1, <2>2
<1>12. Memory'
  BY <1>3, <1>6, <1>10, <1>11 DEF Memory
<1> QED
  BY <1>1, <1>3, <1>5, <1>12

\* A hit.
LEMMA HitKeeps ==
  ASSUME DedupType, Memory, NEW g \in Gateways, NEW f \in FillIds, Accessed(g, f),
         lru' = [lru EXCEPT ![g] = ToFront(lru[g], f)], UNCHANGED <<dedupSetup, clock, life>>
  PROVE  Memory' /\ lru' \in [Gateways -> Seq(Entry)] /\ accesses' \in Seq(Access)
<1>1. accesses \in Seq(Access) /\ lru[g] \in Seq(Entry) /\ clock \in Nat /\ Who(g) \in Gateways \X Nat
  BY DEF DedupType, Who
<1>2. Reflects(lru[g], accesses, Who(g)) /\ Keeps(lru[g], accesses, Who(g), clock, dedupSetup)
  BY DEF Memory
<1>3. accesses' = Append(accesses, [by |-> Who(g), fill |-> f, at |-> clock])
  BY DEF Accessed
<1>4. /\ ToFront(lru[g], f) \in Seq(Entry) /\ Reflects(ToFront(lru[g], f), accesses', Who(g))
      /\ Keeps(ToFront(lru[g], f), accesses', Who(g), clock, dedupSetup)
  BY <1>1, <1>2, <1>3, SetupKnown, ToFrontKeeps
<1>5. PICK l \in Seq(Entry) : l = ToFront(lru[g], f)
  BY <1>4
<1> QED
  BY <1>4, <1>5, FillAccessed

\* An addition.
LEMMA AddFillKeeps ==
  ASSUME DedupType, Memory, NEW g \in Gateways, NEW f \in FillIds, AddFill(g, f),
         UNCHANGED <<dedupSetup, clock, life>>
  PROVE  Memory' /\ lru' \in [Gateways -> Seq(Entry)] /\ accesses' \in Seq(Access)
<1>1. accesses \in Seq(Access) /\ lru[g] \in Seq(Entry) /\ clock \in Nat /\ Who(g) \in Gateways \X Nat
  BY DEF DedupType, Who
<1>2. Reflects(lru[g], accesses, Who(g)) /\ Keeps(lru[g], accesses, Who(g), clock, dedupSetup)
  BY DEF Memory
<1>3. Accessed(g, f) /\ lru' = [lru EXCEPT ![g] = IF Holds(lru[g], f) THEN ToFront(lru[g], f) ELSE Evicted(ToFront(lru[g], f))]
  BY DEF AddFill
<1>4. CASE Holds(lru[g], f)
  <2>1. lru' = [lru EXCEPT ![g] = ToFront(lru[g], f)]
    BY <1>3, <1>4
  <2> QED
    BY <1>3, <2>1, HitKeeps
<1>5. CASE ~Holds(lru[g], f)
  <2>1. PICK b : b = accesses'
    OBVIOUS
  <2>2. b = Append(accesses, [by |-> Who(g), fill |-> f, at |-> clock])
    BY <1>3, <2>1 DEF Accessed
  <2>3. /\ ToFront(lru[g], f) \in Seq(Entry) /\ Reflects(ToFront(lru[g], f), b, Who(g))
        /\ Keeps(ToFront(lru[g], f), b, Who(g), clock, dedupSetup)
    BY <1>1, <1>2, <2>2, SetupKnown, ToFrontKeeps
  <2>4. b \in Seq(Access)
    <3>1. PICK x : x = [by |-> Who(g), fill |-> f, at |-> clock]
      OBVIOUS
    <3>2. x \in Access
      BY <1>1, <3>1 DEF Access
    <3> QED
      BY <1>1, <2>2, <3>1, <3>2, Longer
  <2>5. PICK k \in Seq(Entry) : k = ToFront(lru[g], f)
    BY <2>3
  <2>6. /\ Evicted(k) \in Seq(Entry) /\ Reflects(Evicted(k), b, Who(g))
        /\ Keeps(Evicted(k), b, Who(g), clock, dedupSetup)
    BY <1>1, <2>3, <2>4, <2>5, SetupKnown, EvictedKeeps
  <2>7. PICK l \in Seq(Entry) : l = Evicted(k)
    BY <2>6
  <2>8. /\ lru' = [lru EXCEPT ![g] = l] /\ Reflects(l, accesses', Who(g))
        /\ Keeps(l, accesses', Who(g), clock, dedupSetup)
    BY <1>3, <1>5, <2>1, <2>5, <2>6, <2>7
  <2> QED
    BY <1>3, <2>8, FillAccessed
<1> QED
  BY <1>4, <1>5

\* A settlement changes hands or steps, and remembers as before what it was asked.
LEMMA ForgottenKept ==
  ASSUME DedupType, Forgotten, NEW g \in Gateways, NEW new, settling' = [settling EXCEPT ![g] = new],
         dedupSetup' = dedupSetup, \A h \in Gateways : h # g => life'[h] = life[h],
         accesses' = accesses \/ \E x \in Access : accesses' = Append(accesses, x),
         new.step # "idle" => Forgot(accesses', Who(g)', new, dedupSetup),
         \/ done' = done
         \/ \E e \in Settled : done' = Append(done, e) /\ Forgot(accesses', e.by, e, dedupSetup)
  PROVE  Forgotten'
<1>1. \A w : \A s : s.after \in Nat /\ Forgot(accesses, w, s, dedupSetup) => Forgot(accesses', w, s, dedupSetup)
  <2>1. CASE accesses' = accesses
    BY <2>1
  <2>2. CASE \E x \in Access : accesses' = Append(accesses, x)
    <3>1. PICK x \in Access : accesses' = Append(accesses, x)
      BY <2>2
    <3> SUFFICES ASSUME NEW w, NEW s, s.after \in Nat, Forgot(accesses, w, s, dedupSetup)
                 PROVE  Forgot(accesses', w, s, dedupSetup)
      OBVIOUS
    <3>2. accesses \in Seq(Access)
      BY DEF DedupType
    <3>3. Forgot(Append(accesses, x), w, s, dedupSetup)
      BY <3>2, ForgotLonger
    <3> QED
      BY <3>1, <3>3
  <2> QED
    BY <2>1, <2>2
<1>2. settling'[g] = new /\ \A h \in Gateways : h # g => settling'[h] = settling[h]
  BY DEF DedupType
<1>3. ASSUME NEW h \in Gateways, settling'[h].step # "idle"
      PROVE  Forgot(accesses', Who(h)', settling'[h], dedupSetup')
  <2>1. CASE h = g
    BY <1>2, <1>3, <2>1
  <2>2. CASE h # g
    <3>1. settling[h] \in Working /\ settling[h].after \in Nat
      <4>1. settling[h] \in {NotSettling} \cup Working /\ settling[h].step # "idle"
        BY <1>2, <1>3, <2>2 DEF DedupType
      <4> QED
        BY <4>1 DEF NotSettling, Working
    <3>2. Forgot(accesses, Who(h), settling[h], dedupSetup)
      BY <1>2, <1>3, <2>2 DEF Forgotten
    <3>3. Who(h)' = Who(h)
      BY <2>2 DEF Who
    <3>4. Forgot(accesses', Who(h), settling[h], dedupSetup)
      BY <1>1, <3>1, <3>2
    <3> QED
      BY <1>2, <2>2, <3>3, <3>4
  <2> QED
    BY <2>1, <2>2
<1>4. done \in Seq(Settled)
  BY DEF DedupType
<1>5. \A j \in DOMAIN done : Forgot(accesses', done[j].by, done[j], dedupSetup)
  <2> SUFFICES ASSUME NEW j \in DOMAIN done PROVE Forgot(accesses', done[j].by, done[j], dedupSetup)
    OBVIOUS
  <2>1. done[j] \in Settled
    BY <1>4
  <2>2. done[j].after \in Nat
    BY <2>1 DEF Settled
  <2>3. Forgot(accesses, done[j].by, done[j], dedupSetup)
    BY DEF Forgotten
  <2> QED
    BY <1>1, <2>2, <2>3
<1>6. \A j \in DOMAIN done' : Forgot(accesses', done'[j].by, done'[j], dedupSetup')
  <2>1. CASE done' = done
    BY <1>5, <2>1
  <2>2. CASE \E e \in Settled : done' = Append(done, e) /\ Forgot(accesses', e.by, e, dedupSetup)
    <3>1. PICK e \in Settled : done' = Append(done, e) /\ Forgot(accesses', e.by, e, dedupSetup)
      BY <2>2
    <3>2. \A j \in DOMAIN done' : (j \in DOMAIN done /\ done'[j] = done[j]) \/ done'[j] = e
      BY <1>4, <3>1
    <3> QED
      BY <1>5, <3>1, <3>2
  <2> QED
    BY <2>1, <2>2
<1> QED
  BY <1>3, <1>6 DEF Forgotten

-----------------------------------------------------------------------------
(* The claims, step by step *)

LEMMA SettlingKnown ==
  ASSUME DedupType, NEW g \in Gateways, settling[g].step # "idle"
  PROVE  settling[g] \in Working
<1>1. settling[g] \in {NotSettling} \cup Working
  BY DEF DedupType
<1> QED
  BY <1>1 DEF NotSettling

\* Neither claims nor settlements change: a process goes on, or stops.
LEMMA QuietStep ==
  ASSUME DedupType, ClaimsInv, NEW g \in Gateways, NEW new, settling' = [settling EXCEPT ![g] = new],
         UNCHANGED <<dedupSetup, clock, claimed, done>>,
         new.step # "idle" => OnTime(new, g, clock, dedupSetup),
         HoldsClaim(new) => /\ HoldsClaim(settling[g])
                            /\ new.fill = settling[g].fill /\ new.claimedAt = settling[g].claimedAt
  PROVE  ClaimsInv'
<1>1. settling'[g] = new /\ \A h \in Gateways : h # g => settling'[h] = settling[h]
  BY DEF DedupType
<1>2. \A h \in Gateways : HoldsClaim(settling'[h]) =>
        /\ HoldsClaim(settling[h])
        /\ settling'[h].fill = settling[h].fill /\ settling'[h].claimedAt = settling[h].claimedAt
  BY <1>1
<1>3. ClaimsLast'
  BY <1>1 DEF ClaimsInv, ClaimsLast
<1>4. ClaimsHeld'
  <2>1. \A h \in Gateways : HoldsClaim(settling'[h]) => <<settling'[h].fill, settling'[h].claimedAt>> \in claimed'
    BY <1>2 DEF ClaimsInv, ClaimsHeld
  <2>2. \A h, k \in Gateways :
          h # k /\ HoldsClaim(settling'[h]) /\ HoldsClaim(settling'[k]) => settling'[h].fill # settling'[k].fill
    BY <1>2 DEF ClaimsInv, ClaimsHeld
  <2> QED
    BY <2>1, <2>2 DEF ClaimsHeld
<1>5. ClaimsHonoured'
  <2>1. \A i \in DOMAIN done : \A h \in Gateways :
          Reported(done[i]) /\ HoldsClaim(settling'[h]) /\ settling'[h].fill = done[i].fill
            => ~InForce(done[i], settling'[h].claimedAt, dedupSetup.ttl)
    BY <1>2 DEF ClaimsInv, ClaimsHonoured
  <2> QED
    BY <2>1 DEF ClaimsInv, ClaimsHonoured
<1> QED
  BY <1>3, <1>4, <1>5 DEF ClaimsInv

\* A fill nobody has claimed is claimed.
LEMMA ClaimStep ==
  ASSUME DedupType, ClaimsInv, NEW g \in Gateways, NEW new, settling' = [settling EXCEPT ![g] = new],
         NEW f \in FillIds, ~Claimed(f), claimed' = claimed \cup {<<f, clock>>},
         UNCHANGED <<dedupSetup, clock, done>>,
         new.step # "idle" => OnTime(new, g, clock, dedupSetup),
         HoldsClaim(new) => new.fill = f /\ new.claimedAt = clock
  PROVE  ClaimsInv'
<1>1. settling'[g] = new /\ \A h \in Gateways : h # g => settling'[h] = settling[h]
  BY DEF DedupType
<1>2. \A c \in claimed' : c \in claimed \/ c = <<f, clock>>
  OBVIOUS
<1>3. \A c \in claimed : c[1] # f
  BY DEF Claimed
<1>4. clock \in Nat /\ dedupSetup.ttl \in Nat
  BY SetupKnown DEF DedupType
<1>5. ClaimsLast'
  <2>1. \A c, d \in claimed' : c[1] = d[1] => c = d
    BY <1>2, <1>3 DEF ClaimsInv, ClaimsLast
  <2>2. \A c \in claimed' : c[2] <= clock /\ clock - c[2] <= dedupSetup.ttl
    BY <1>2, <1>4 DEF ClaimsInv, ClaimsLast
  <2> QED
    BY <1>1, <2>1, <2>2 DEF ClaimsInv, ClaimsLast
<1>6. \A h \in Gateways : HoldsClaim(settling[h]) => settling[h].fill # f
  BY <1>3 DEF ClaimsInv, ClaimsHeld
<1>7. ClaimsHeld'
  <2>1. \A h \in Gateways : HoldsClaim(settling'[h]) => <<settling'[h].fill, settling'[h].claimedAt>> \in claimed'
    BY <1>1 DEF ClaimsInv, ClaimsHeld
  <2>2. \A h, k \in Gateways :
          h # k /\ HoldsClaim(settling'[h]) /\ HoldsClaim(settling'[k]) => settling'[h].fill # settling'[k].fill
    BY <1>1, <1>6 DEF ClaimsInv, ClaimsHeld
  <2> QED
    BY <2>1, <2>2 DEF ClaimsHeld
<1>8. ASSUME NEW i \in DOMAIN done, Reported(done[i]), done[i].fill = f PROVE ~InForce(done[i], clock, dedupSetup.ttl)
  <2>1. <<done[i].fill, done[i].claimedAt>> \notin claimed
    BY <1>3, <1>8
  <2>2. clock - done[i].claimedAt > dedupSetup.ttl
    BY <1>8, <2>1 DEF ClaimsInv, ClaimsHonoured
  <2>3. done[i].claimedAt \in Int
    <3>1. done[i] \in Settled
      BY DEF DedupType
    <3> QED
      BY <3>1 DEF Settled
  <2> QED
    BY <1>4, <2>2, <2>3 DEF InForce
<1>9. ClaimsHonoured'
  <2>1. \A i \in DOMAIN done : \A h \in Gateways :
          Reported(done[i]) /\ HoldsClaim(settling'[h]) /\ settling'[h].fill = done[i].fill
            => ~InForce(done[i], settling'[h].claimedAt, dedupSetup.ttl)
    BY <1>1, <1>8 DEF ClaimsInv, ClaimsHonoured
  <2>2. \A i \in DOMAIN done : Reported(done[i]) =>
          /\ done[i].claimedAt <= clock
          /\ <<done[i].fill, done[i].claimedAt>> \in claimed' \/ clock - done[i].claimedAt > dedupSetup.ttl
    BY DEF ClaimsInv, ClaimsHonoured
  <2> QED
    BY <2>1, <2>2 DEF ClaimsInv, ClaimsHonoured
<1> QED
  BY <1>5, <1>7, <1>9 DEF ClaimsInv

\* A settlement is made, and is reported or not.
LEMMA SettledStep ==
  ASSUME DedupType, ClaimsInv, NEW g \in Gateways, NEW new, settling' = [settling EXCEPT ![g] = new],
         settling[g].step = "settle",
         NEW e \in Settled, e.fill = settling[g].fill, e.claimedAt = settling[g].claimedAt, done' = Append(done, e),
         UNCHANGED <<dedupSetup, clock, claimed>>,
         new.step # "idle" => OnTime(new, g, clock, dedupSetup),
         HoldsClaim(new) => /\ ~e.answered /\ HoldsClaim(settling[g])
                            /\ new.fill = settling[g].fill /\ new.claimedAt = settling[g].claimedAt
  PROVE  ClaimsInv'
<1>1. settling'[g] = new /\ \A h \in Gateways : h # g => settling'[h] = settling[h]
  BY DEF DedupType
<1>2. \A h \in Gateways : HoldsClaim(settling'[h]) =>
        /\ HoldsClaim(settling[h])
        /\ settling'[h].fill = settling[h].fill /\ settling'[h].claimedAt = settling[h].claimedAt
  BY <1>1
<1>3. ClaimsLast'
  BY <1>1 DEF ClaimsInv, ClaimsLast
<1>4. ClaimsHeld'
  <2>1. \A h \in Gateways : HoldsClaim(settling'[h]) => <<settling'[h].fill, settling'[h].claimedAt>> \in claimed'
    BY <1>2 DEF ClaimsInv, ClaimsHeld
  <2>2. \A h, k \in Gateways :
          h # k /\ HoldsClaim(settling'[h]) /\ HoldsClaim(settling'[k]) => settling'[h].fill # settling'[k].fill
    BY <1>2 DEF ClaimsInv, ClaimsHeld
  <2> QED
    BY <2>1, <2>2 DEF ClaimsHeld
<1>5. PICK top \in Nat : top = Len(done) + 1
  BY DEF DedupType
<1>6. /\ DOMAIN done' = DOMAIN done \cup {top} /\ done'[top] = e
      /\ \A i \in DOMAIN done : done'[i] = done[i] /\ i < top /\ i \in Nat
  <2>1. done \in Seq(Settled) /\ Len(done) \in Nat /\ DOMAIN done = 1..Len(done)
    BY DEF DedupType
  <2>2. Len(done') = Len(done) + 1 /\ DOMAIN done' = 1..Len(done')
    BY <2>1
  <2> QED
    BY <1>5, <2>1, <2>2
<1>7. e.claimedAt >= 0 => HoldsClaim(settling[g])
  BY DEF HoldsClaim
<1>8. Reported(e) => e.claimedAt <= clock /\ <<e.fill, e.claimedAt>> \in claimed
  <2> SUFFICES ASSUME Reported(e) PROVE e.claimedAt <= clock /\ <<e.fill, e.claimedAt>> \in claimed
    OBVIOUS
  <2>1. <<e.fill, e.claimedAt>> \in claimed
    BY <1>7 DEF ClaimsInv, ClaimsHeld, Reported
  <2> QED
    BY <2>1 DEF ClaimsInv, ClaimsLast
<1>9. \A i \in DOMAIN done' : Reported(done'[i]) =>
        /\ done'[i].claimedAt <= clock
        /\ <<done'[i].fill, done'[i].claimedAt>> \in claimed \/ clock - done'[i].claimedAt > dedupSetup.ttl
  BY <1>6, <1>8 DEF ClaimsInv, ClaimsHonoured
<1>10. ASSUME NEW i \in DOMAIN done', NEW h \in Gateways,
              Reported(done'[i]), HoldsClaim(settling'[h]), settling'[h].fill = done'[i].fill
       PROVE  ~InForce(done'[i], settling'[h].claimedAt, dedupSetup.ttl)
  <2>1. CASE i \in DOMAIN done
    BY <1>2, <1>6, <1>10, <2>1 DEF ClaimsInv, ClaimsHonoured
  <2>2. CASE i = top
    <3>1. Reported(e) /\ HoldsClaim(settling[g]) /\ settling[h].fill = settling[g].fill
      BY <1>2, <1>6, <1>7, <1>10, <2>2 DEF Reported
    <3>2. h # g
      BY <1>1, <1>10, <3>1 DEF Reported
    <3> QED
      BY <1>2, <1>10, <3>1, <3>2 DEF ClaimsInv, ClaimsHeld
  <2> QED
    BY <1>6, <2>1, <2>2
<1>11. ASSUME NEW i \in DOMAIN done', NEW j \in DOMAIN done',
              i < j, Reported(done'[i]), done'[i].fill = done'[j].fill
       PROVE  ~InForce(done'[i], done'[j].claimedAt, dedupSetup.ttl)
  <2>1. i \in DOMAIN done /\ done'[i] = done[i]
    BY <1>6, <1>11
  <2>2. CASE j \in DOMAIN done
    BY <1>6, <1>11, <2>1, <2>2 DEF ClaimsInv, ClaimsHonoured
  <2>3. CASE j = top
    <3>1. CASE HoldsClaim(settling[g])
      BY <1>6, <1>11, <2>1, <2>3, <3>1 DEF ClaimsInv, ClaimsHonoured
    <3>2. CASE ~HoldsClaim(settling[g])
      <4>1. ~(e.claimedAt >= 0) /\ e.claimedAt \in Int
        BY <1>7, <3>2 DEF Settled
      <4>2. done[i].claimedAt \in Int /\ done[i].claimedAt >= 0
        <5>1. done[i] \in Settled
          BY <2>1 DEF DedupType
        <5> QED
          BY <1>11, <2>1, <5>1 DEF Settled, Reported
      <4>3. ~(e.claimedAt - done[i].claimedAt \in 0..dedupSetup.ttl)
        BY <4>1, <4>2
      <4> QED
        BY <1>6, <2>1, <2>3, <4>3 DEF InForce
    <3> QED
      BY <3>1, <3>2
  <2> QED
    BY <1>6, <2>2, <2>3
<1>12. ClaimsHonoured'
  BY <1>9, <1>10, <1>11 DEF ClaimsHonoured
<1> QED
  BY <1>3, <1>4, <1>12 DEF ClaimsInv

\* A claim is given up: it is the process's own, and nothing rests on it.
LEMMA GivenUpStep ==
  ASSUME DedupType, ClaimsInv, NEW g \in Gateways, settling' = [settling EXCEPT ![g] = NotSettling],
         settling[g].step = "unclaim", claimed' = {c \in claimed : c[1] # settling[g].fill},
         UNCHANGED <<dedupSetup, clock, done>>
  PROVE  ClaimsInv'
<1>1. settling'[g] = NotSettling /\ \A h \in Gateways : h # g => settling'[h] = settling[h]
  BY DEF DedupType
<1>2. ~HoldsClaim(settling'[g]) /\ settling'[g].step = "idle"
  BY <1>1 DEF NotSettling, HoldsClaim
<1>3. HoldsClaim(settling[g]) /\ settling[g].claimedAt \in Int
  <2>1. settling[g].claimedAt >= 0
    BY DEF ClaimsInv, ClaimsLast, OnTime
  <2>2. settling[g] \in Working
    BY SettlingKnown
  <2> QED
    BY <2>1, <2>2 DEF HoldsClaim, Working
<1>4. <<settling[g].fill, settling[g].claimedAt>> \in claimed
  BY <1>3 DEF ClaimsInv, ClaimsHeld
<1>5. ClaimsLast'
  BY <1>1, <1>2 DEF ClaimsInv, ClaimsLast
<1>6. ClaimsHeld'
  <2>1. \A h \in Gateways : HoldsClaim(settling'[h]) => h # g /\ settling'[h] = settling[h] /\ settling[h].fill # settling[g].fill
    BY <1>1, <1>2, <1>3 DEF ClaimsInv, ClaimsHeld
  <2>2. \A h \in Gateways : HoldsClaim(settling'[h]) => <<settling'[h].fill, settling'[h].claimedAt>> \in claimed'
    BY <2>1 DEF ClaimsInv, ClaimsHeld
  <2>3. \A h, k \in Gateways :
          h # k /\ HoldsClaim(settling'[h]) /\ HoldsClaim(settling'[k]) => settling'[h].fill # settling'[k].fill
    BY <2>1 DEF ClaimsInv, ClaimsHeld
  <2> QED
    BY <2>2, <2>3 DEF ClaimsHeld
<1>7. ASSUME NEW i \in DOMAIN done, Reported(done[i]), <<done[i].fill, done[i].claimedAt>> \in claimed
      PROVE  done[i].fill # settling[g].fill
  <2> SUFFICES ASSUME done[i].fill = settling[g].fill PROVE FALSE
    OBVIOUS
  <2>1. <<done[i].fill, done[i].claimedAt>> = <<settling[g].fill, settling[g].claimedAt>>
    BY <1>4, <1>7 DEF ClaimsInv, ClaimsLast
  <2>2. done[i].claimedAt = settling[g].claimedAt
    BY <2>1
  <2>3. InForce(done[i], settling[g].claimedAt, dedupSetup.ttl)
    <3>1. settling[g].claimedAt - done[i].claimedAt = 0 /\ dedupSetup.ttl \in Nat
      BY <1>3, <2>2, SetupKnown
    <3> QED
      BY <3>1 DEF InForce
  <2> QED
    BY <1>3, <1>7, <2>3 DEF ClaimsInv, ClaimsHonoured
<1>8. ClaimsHonoured'
  <2>1. \A i \in DOMAIN done : Reported(done[i]) =>
          /\ done[i].claimedAt <= clock
          /\ <<done[i].fill, done[i].claimedAt>> \in claimed' \/ clock - done[i].claimedAt > dedupSetup.ttl
    BY <1>7 DEF ClaimsInv, ClaimsHonoured
  <2>2. \A i \in DOMAIN done : \A h \in Gateways :
          Reported(done[i]) /\ HoldsClaim(settling'[h]) /\ settling'[h].fill = done[i].fill
            => ~InForce(done[i], settling'[h].claimedAt, dedupSetup.ttl)
    BY <1>1, <1>2 DEF ClaimsInv, ClaimsHonoured
  <2> QED
    BY <2>1, <2>2 DEF ClaimsInv, ClaimsHonoured
<1> QED
  BY <1>5, <1>6, <1>8 DEF ClaimsInv

\* Time passes; nobody stalls as long as a claim lasts.
LEMMA ClaimsAge ==
  ASSUME DedupType, ClaimsInv, DedupTick
  PROVE  ClaimsInv'
<1>1. /\ clock' = clock + 1 /\ claimed' = {c \in claimed : clock' - c[2] <= dedupSetup.ttl}
      /\ NobodyStallsADay /\ UNCHANGED <<dedupSetup, settling, done>>
  BY DEF DedupTick
<1>2. PICK now : now = clock'
  OBVIOUS
<1>3. /\ now = clock + 1 /\ claimed' = {c \in claimed : now - c[2] <= dedupSetup.ttl}
      /\ clock \in Nat /\ dedupSetup.ttl \in Nat
  BY <1>1, <1>2, SetupKnown DEF DedupType
<1>4. \A c \in claimed : c[2] \in Nat
  BY DEF DedupType
<1>5. ASSUME NEW g \in Gateways, settling[g].step # "idle"
      PROVE  /\ OnTime(settling[g], g, now, dedupSetup)
             /\ settling[g].claimedAt >= 0 => now - settling[g].claimedAt <= dedupSetup.ttl
  <2>1. settling[g] \in Working /\ OnTime(settling[g], g, clock, dedupSetup)
    BY <1>5, SettlingKnown DEF ClaimsInv, ClaimsLast
  <2>2. clock - settling[g].asked < dedupSetup.ttl
    <3>1. settling[g] # NotSettling /\ g \in dedupSetup.processes
      BY <1>5, <2>1 DEF NotSettling, OnTime
    <3> QED
      BY <1>1, <3>1 DEF NobodyStallsADay
  <2>3. settling[g].asked \in Nat /\ settling[g].claimedAt \in Int
    BY <2>1 DEF Working
  <2>4. /\ settling[g].asked <= now /\ now - settling[g].asked <= dedupSetup.ttl
        /\ settling[g].claimedAt = -1 \/ (settling[g].asked <= settling[g].claimedAt /\ settling[g].claimedAt <= now)
    BY <1>3, <2>1, <2>2, <2>3 DEF OnTime
  <2>5. settling[g].claimedAt >= 0 => now - settling[g].claimedAt <= dedupSetup.ttl
    BY <1>3, <2>3, <2>4
  <2> QED
    BY <2>1, <2>4, <2>5 DEF OnTime
<1>6. ClaimsLast'
  <2>1. \A c \in claimed' : c[2] <= now /\ now - c[2] <= dedupSetup.ttl
    BY <1>3, <1>4 DEF ClaimsInv, ClaimsLast
  <2>2. \A c, d \in claimed' : c[1] = d[1] => c = d
    BY <1>3 DEF ClaimsInv, ClaimsLast
  <2>3. \A g \in Gateways : settling'[g].step # "idle" => OnTime(settling'[g], g, now, dedupSetup')
    BY <1>1, <1>5
  <2> QED
    BY <1>1, <1>2, <2>1, <2>2, <2>3 DEF ClaimsLast
<1>7. ClaimsHeld'
  <2>1. ASSUME NEW g \in Gateways, HoldsClaim(settling[g])
        PROVE  <<settling[g].fill, settling[g].claimedAt>> \in claimed'
    <3>1. settling[g].step # "idle" /\ settling[g].claimedAt >= 0
      BY <2>1 DEF HoldsClaim
    <3>2. <<settling[g].fill, settling[g].claimedAt>> \in claimed
      BY <2>1 DEF ClaimsInv, ClaimsHeld
    <3> QED
      BY <1>3, <1>5, <3>1, <3>2
  <2> QED
    BY <1>1, <2>1 DEF ClaimsInv, ClaimsHeld
<1>8. ClaimsHonoured'
  <2>1. ASSUME NEW i \in DOMAIN done, Reported(done[i])
        PROVE  /\ done[i].claimedAt <= now
               /\ <<done[i].fill, done[i].claimedAt>> \in claimed' \/ now - done[i].claimedAt > dedupSetup.ttl
    <3>1. done[i].claimedAt \in Int
      <4>1. done[i] \in Settled
        BY DEF DedupType
      <4> QED
        BY <4>1 DEF Settled
    <3>2. /\ done[i].claimedAt <= clock
          /\ <<done[i].fill, done[i].claimedAt>> \in claimed \/ clock - done[i].claimedAt > dedupSetup.ttl
      BY <2>1 DEF ClaimsInv, ClaimsHonoured
    <3> QED
      BY <1>3, <3>1, <3>2
  <2>2. \A i \in DOMAIN done' : Reported(done'[i]) =>
          /\ done'[i].claimedAt <= clock'
          /\ <<done'[i].fill, done'[i].claimedAt>> \in claimed' \/ clock' - done'[i].claimedAt > dedupSetup'.ttl
    BY <1>1, <1>2, <2>1
  <2> QED
    BY <1>1, <2>2 DEF ClaimsInv, ClaimsHonoured
<1> QED
  BY <1>6, <1>7, <1>8 DEF ClaimsInv

-----------------------------------------------------------------------------
(* The steps of SettleFill *)

LEMMA SettleFillStep ==
  ASSUME DedupInv, NEW g \in dedupSetup.processes, NEW f \in dedupSetup.fills, SettleFill(g, f)
  PROVE  DedupInv'
<1>1. DedupType /\ Memory /\ Forgotten /\ ClaimsInv
  BY DEF DedupInv
<1>2. g \in Gateways /\ f \in FillIds
  BY <1>1, SetupKnown
<1>3. settling[g] = NotSettling /\ UNCHANGED <<dedupSetup, clock, claimed, life, done>>
  BY DEF SettleFill
<1>4. CASE Known(lru[g], f)
  <2>1. lru' = [lru EXCEPT ![g] = ToFront(lru[g], f)] /\ Accessed(g, f) /\ settling' = settling
    BY <1>4 DEF SettleFill
  <2>2. Memory' /\ lru' \in [Gateways -> Seq(Entry)] /\ accesses' \in Seq(Access)
    BY <1>1, <1>2, <1>3, <2>1, HitKeeps
  <2>3. DedupType'
    BY <1>1, <1>3, <2>1, <2>2 DEF DedupType
  <2>4. settling' = [settling EXCEPT ![g] = NotSettling]
    BY <1>1, <1>2, <1>3, <2>1 DEF DedupType
  <2>5. Forgotten'
    <3>1. \E x \in Access : accesses' = Append(accesses, x)
      <4>1. [by |-> Who(g), fill |-> f, at |-> clock] \in Access
        BY <1>1, <1>2 DEF DedupType, Access, Who
      <4> QED
        BY <2>1, <4>1 DEF Accessed
    <3>2. NotSettling.step = "idle"
      BY DEF NotSettling
    <3> QED
      BY <1>1, <1>2, <1>3, <2>4, <3>1, <3>2, ForgottenKept
  <2>6. ClaimsInv'
    <3>1. NotSettling.step = "idle" /\ ~HoldsClaim(NotSettling)
      BY DEF NotSettling, HoldsClaim
    <3> QED
      BY <1>1, <1>2, <1>3, <2>4, <3>1, QuietStep
  <2> QED
    BY <2>2, <2>3, <2>5, <2>6 DEF DedupInv
<1>5. CASE ~Known(lru[g], f)
  <2>1. PICK new : new = [step |-> IF dedupSetup.shared THEN "claim" ELSE "settle", fill |-> f, claimedAt |-> -1,
                          asked |-> clock, after |-> Len(accesses)]
    OBVIOUS
  <2>2. lru' = [lru EXCEPT ![g] = Without(lru[g], f)] /\ settling' = [settling EXCEPT ![g] = new] /\ accesses' = accesses
    BY <1>5, <2>1 DEF SettleFill
  <2>3. clock \in Nat /\ Len(accesses) \in Nat
    BY <1>1 DEF DedupType
  <2>4. new \in Working /\ new.fill = f /\ new.asked = clock /\ new.after = Len(accesses) /\ new.claimedAt = -1
    BY <1>2, <2>1, <2>3 DEF Working
  <2>5. PICK l \in Seq(Entry) :
          l = Without(lru[g], f) /\ Reflects(l, accesses, Who(g)) /\ Keeps(l, accesses, Who(g), clock, dedupSetup)
    <3>1. accesses \in Seq(Access) /\ lru[g] \in Seq(Entry)
      BY <1>1, <1>2 DEF DedupType
    <3>2. Reflects(lru[g], accesses, Who(g)) /\ Keeps(lru[g], accesses, Who(g), clock, dedupSetup)
      BY <1>1, <1>2 DEF Memory
    <3>3. /\ Without(lru[g], f) \in Seq(Entry) /\ Reflects(Without(lru[g], f), accesses, Who(g))
          /\ Keeps(Without(lru[g], f), accesses, Who(g), clock, dedupSetup)
      BY <1>1, <1>5, <2>3, <3>1, <3>2, SetupKnown, WithoutForgets
    <3> QED
      BY <3>3
  <2>6. Memory' /\ lru' \in [Gateways -> Seq(Entry)]
    BY <1>1, <1>2, <1>3, <2>2, <2>5, ListChanged
  <2>7. DedupType'
    BY <1>1, <1>2, <1>3, <2>2, <2>4, <2>6 DEF DedupType
  <2>8. Forgotten'
    <3>1. Forgot(accesses, Who(g), new, dedupSetup)
      BY <1>1, <1>2, <1>5, <2>4, NotKnownForgot
    <3>2. Forgot(accesses', Who(g)', new, dedupSetup)
      BY <1>3, <2>2, <3>1 DEF Who
    <3> QED
      BY <1>1, <1>2, <1>3, <2>2, <3>2, ForgottenKept
  <2>9. ClaimsInv'
    <3>1. OnTime(new, g, clock, dedupSetup)
      <4>1. clock - clock = 0 /\ clock <= clock /\ dedupSetup.ttl \in Nat /\ 0 <= dedupSetup.ttl
        BY <1>1, <2>3, SetupKnown
      <4>2. new.step # "unclaim"
        BY <2>1
      <4> QED
        BY <2>4, <4>1, <4>2 DEF OnTime
    <3>2. ~HoldsClaim(new)
      BY <2>4 DEF HoldsClaim
    <3> QED
      BY <1>1, <1>2, <1>3, <2>2, <3>1, <3>2, QuietStep
  <2> QED
    BY <2>6, <2>7, <2>8, <2>9 DEF DedupInv
<1> QED
  BY <1>4, <1>5

\* The fields of a settlement that goes on.
LEMMA GoesOn ==
  ASSUME DedupInv, NEW g \in Gateways, settling[g].step # "idle", NEW new \in Working,
         new.fill = settling[g].fill, new.asked = settling[g].asked, new.after = settling[g].after
  PROVE  Forgot(accesses, Who(g), new, dedupSetup)
<1>1. Forgot(accesses, Who(g), settling[g], dedupSetup)
  BY DEF DedupInv, Forgotten
<1> QED
  BY <1>1 DEF Forgot

\* The store answers: claimed, claimed by another, or an error.
LEMMA SetNXStep ==
  ASSUME DedupInv, NEW g \in dedupSetup.processes, SetNX(g)
  PROVE  DedupInv'
<1>1. DedupType /\ Memory /\ Forgotten /\ ClaimsInv
  BY DEF DedupInv
<1>2. g \in Gateways
  BY <1>1, SetupKnown
<1>3. PICK o : o = settling[g]
  OBVIOUS
<1>4. o.step = "claim" /\ UNCHANGED <<dedupSetup, clock, life, done>>
  BY <1>3 DEF SetNX
<1>5. o \in Working /\ o.fill \in FillIds /\ OnTime(o, g, clock, dedupSetup) /\ o.claimedAt = -1
  <2>1. o \in Working /\ OnTime(o, g, clock, dedupSetup)
    BY <1>1, <1>2, <1>3, <1>4, SettlingKnown DEF ClaimsInv, ClaimsLast
  <2> QED
    BY <1>4, <2>1 DEF OnTime, Working
<1>6. clock \in Nat /\ o.asked <= clock
  BY <1>1, <1>5 DEF DedupType, OnTime
<1>7. CASE Claimed(o.fill) /\ AddFill(g, o.fill) /\ settling' = [settling EXCEPT ![g] = NotSettling] /\ claimed' = claimed
  <2>1. Memory' /\ lru' \in [Gateways -> Seq(Entry)] /\ accesses' \in Seq(Access)
    BY <1>1, <1>2, <1>4, <1>5, <1>7, AddFillKeeps
  <2>2. DedupType'
    BY <1>1, <1>2, <1>4, <1>7, <2>1 DEF DedupType
  <2>3. NotSettling.step = "idle" /\ ~HoldsClaim(NotSettling)
    BY DEF NotSettling, HoldsClaim
  <2>4. Forgotten'
    <3>1. \E x \in Access : accesses' = Append(accesses, x)
      <4>1. [by |-> Who(g), fill |-> o.fill, at |-> clock] \in Access
        BY <1>1, <1>2, <1>5 DEF DedupType, Access, Who
      <4> QED
        BY <1>7, <4>1 DEF AddFill, Accessed
    <3> QED
      BY <1>1, <1>2, <1>4, <1>7, <2>3, <3>1, ForgottenKept
  <2>5. ClaimsInv'
    BY <1>1, <1>2, <1>4, <1>7, <2>3, QuietStep
  <2> QED
    BY <2>1, <2>2, <2>4, <2>5 DEF DedupInv
<1>8. ASSUME NEW new \in Working, settling' = [settling EXCEPT ![g] = new], UNCHANGED <<lru, accesses>>,
             new.step = "settle", new.fill = o.fill, new.asked = o.asked, new.after = o.after,
             \/ new.claimedAt = clock /\ ~Claimed(o.fill) /\ claimed' = claimed \cup {<<o.fill, clock>>}
             \/ /\ new.claimedAt = -1
                /\ claimed' = claimed \/ (~Claimed(o.fill) /\ claimed' = claimed \cup {<<o.fill, clock>>})
      PROVE  DedupInv'
  <2>1. Memory'
    <3>1. Who(g) = Who(g) /\ lru[g] \in Seq(Entry) /\ lru' = [lru EXCEPT ![g] = lru[g]]
      BY <1>1, <1>2, <1>8 DEF DedupType
    <3>2. Reflects(lru[g], accesses, Who(g)) /\ Keeps(lru[g], accesses, Who(g), clock, dedupSetup)
      BY <1>1, <1>2 DEF Memory
    <3> QED
      BY <1>1, <1>2, <1>4, <1>8, <3>1, <3>2, ListChanged
  <2>2. claimed' \subseteq FillIds \X Nat
    BY <1>1, <1>5, <1>6, <1>8 DEF DedupType
  <2>3. DedupType'
    BY <1>1, <1>2, <1>4, <1>8, <2>2 DEF DedupType
  <2>4. Forgotten'
    <3>1. Forgot(accesses, Who(g), new, dedupSetup)
      BY <1>2, <1>3, <1>4, <1>8, GoesOn
    <3>2. Forgot(accesses', Who(g)', new, dedupSetup)
      BY <1>4, <1>8, <3>1 DEF Who
    <3> QED
      BY <1>1, <1>2, <1>4, <1>8, <3>2, ForgottenKept
  <2>5. OnTime(new, g, clock, dedupSetup)
    <3>1. new.asked <= clock /\ clock <= clock
      BY <1>6, <1>8
    <3> QED
      BY <1>5, <1>8, <3>1 DEF OnTime
  <2>6. HoldsClaim(new) => new.fill = o.fill /\ new.claimedAt = clock
    BY <1>8 DEF HoldsClaim
  <2>7. CASE ~Claimed(o.fill) /\ claimed' = claimed \cup {<<o.fill, clock>>}
    <3>1. ClaimsInv'
      BY <1>1, <1>2, <1>4, <1>5, <1>8, <2>5, <2>6, <2>7, ClaimStep
    <3> QED
      BY <2>1, <2>3, <2>4, <3>1 DEF DedupInv
  <2>8. CASE new.claimedAt = -1 /\ claimed' = claimed
    <3>1. ~HoldsClaim(new)
      BY <2>8 DEF HoldsClaim
    <3>2. ClaimsInv'
      BY <1>1, <1>2, <1>4, <1>8, <2>5, <2>8, <3>1, QuietStep
    <3> QED
      BY <2>1, <2>3, <2>4, <3>2 DEF DedupInv
  <2> QED
    BY <1>8, <2>7, <2>8
<1>9. CASE /\ ~Claimed(o.fill) /\ claimed' = claimed \cup {<<o.fill, clock>>}
           /\ settling' = [settling EXCEPT ![g].step = "settle", ![g].claimedAt = clock]
           /\ UNCHANGED <<lru, accesses>>
  <2>1. PICK new : new = [o EXCEPT !.step = "settle", !.claimedAt = clock]
    OBVIOUS
  <2>2. /\ new \in Working /\ new.step = "settle" /\ new.claimedAt = clock
        /\ new.fill = o.fill /\ new.asked = o.asked /\ new.after = o.after
    <3>1. PICK between : between = [o EXCEPT !.step = "settle"]
      OBVIOUS
    <3>2. /\ between \in Working /\ between.step = "settle"
          /\ between.fill = o.fill /\ between.asked = o.asked /\ between.after = o.after
      BY <1>5, <3>1 DEF Working
    <3>3. new = [between EXCEPT !.claimedAt = clock] /\ clock \in Int
      BY <1>6, <2>1, <3>1
    <3> QED
      BY <3>2, <3>3 DEF Working
  <2>3. settling' = [settling EXCEPT ![g] = new]
    BY <1>1, <1>2, <1>3, <1>9, <2>1 DEF DedupType
  <2> QED
    BY <1>8, <1>9, <2>2, <2>3
<1>10. CASE /\ At(g, "settle") /\ UNCHANGED <<lru, accesses>>
            /\ claimed' = claimed \/ (~Claimed(o.fill) /\ claimed' = claimed \cup {<<o.fill, clock>>})
  <2>1. PICK new : new = [o EXCEPT !.step = "settle"]
    OBVIOUS
  <2>2. /\ new \in Working /\ new.step = "settle" /\ new.claimedAt = -1
        /\ new.fill = o.fill /\ new.asked = o.asked /\ new.after = o.after
    BY <1>5, <2>1 DEF Working
  <2>3. settling' = [settling EXCEPT ![g] = new]
    BY <1>1, <1>2, <1>3, <1>10, <2>1 DEF DedupType, At
  <2> QED
    BY <1>8, <1>10, <2>2, <2>3
<1> QED
  BY <1>3, <1>7, <1>9, <1>10 DEF SetNX

\* The transaction: made and reported, made or not without an answer.
LEMMA SettleWalletsStep ==
  ASSUME DedupInv, NEW g \in dedupSetup.processes, SettleWallets(g)
  PROVE  DedupInv'
<1>1. DedupType /\ Memory /\ Forgotten /\ ClaimsInv
  BY DEF DedupInv
<1>2. g \in Gateways
  BY <1>1, SetupKnown
<1>3. PICK o : o = settling[g]
  OBVIOUS
<1>4. o.step = "settle" /\ UNCHANGED <<dedupSetup, clock, lru, claimed, life, accesses>>
  BY <1>3 DEF SettleWallets
<1>5. o \in Working /\ OnTime(o, g, clock, dedupSetup)
  BY <1>1, <1>2, <1>3, <1>4, SettlingKnown DEF ClaimsInv, ClaimsLast
<1>6. Memory'
  <2>1. lru[g] \in Seq(Entry) /\ lru' = [lru EXCEPT ![g] = lru[g]]
    BY <1>1, <1>2, <1>4 DEF DedupType
  <2>2. Reflects(lru[g], accesses, Who(g)) /\ Keeps(lru[g], accesses, Who(g), clock, dedupSetup)
    BY <1>1, <1>2 DEF Memory
  <2> QED
    BY <1>1, <1>2, <1>4, <2>1, <2>2, ListChanged
<1>7. PICK new :
        /\ settling' = [settling EXCEPT ![g] = new]
        /\ \/ Settlement(g, TRUE) /\ new = [o EXCEPT !.step = "add"]
           \/ /\ done' = done \/ Settlement(g, FALSE)
              /\ new = IF o.claimedAt >= 0 THEN [o EXCEPT !.step = "unclaim"] ELSE NotSettling
  <2>1. CASE Settlement(g, TRUE) /\ At(g, "add")
    BY <1>1, <1>2, <1>3, <2>1 DEF At, DedupType
  <2>2. CASE /\ done' = done \/ Settlement(g, FALSE)
             /\ settling' = [settling EXCEPT ![g] = IF @.claimedAt >= 0 THEN [@ EXCEPT !.step = "unclaim"] ELSE NotSettling]
    <3>1. settling' = [settling EXCEPT ![g] = IF o.claimedAt >= 0 THEN [o EXCEPT !.step = "unclaim"] ELSE NotSettling]
      BY <1>3, <2>2
    <3> QED
      BY <2>2, <3>1
  <2> QED
    BY <2>1, <2>2 DEF SettleWallets
<1>8. /\ new \in {NotSettling} \cup Working
      /\ new.step # "idle" => /\ new \in Working /\ new.fill = o.fill /\ new.asked = o.asked /\ new.after = o.after
                              /\ new.claimedAt = o.claimedAt
                              /\ new.step = "add" \/ (new.step = "unclaim" /\ o.claimedAt >= 0)
  <2>1. CASE new = [o EXCEPT !.step = "add"]
    BY <1>5, <2>1 DEF Working
  <2>2. CASE new = [o EXCEPT !.step = "unclaim"] /\ o.claimedAt >= 0
    BY <1>5, <2>2 DEF Working
  <2>3. CASE new = NotSettling
    BY <2>3 DEF NotSettling
  <2> QED
    BY <1>7, <2>1, <2>2, <2>3
<1>9. new.step # "idle" => OnTime(new, g, clock, dedupSetup)
  <2> SUFFICES ASSUME new.step # "idle" PROVE OnTime(new, g, clock, dedupSetup)
    OBVIOUS
  <2>1. /\ new.asked = o.asked /\ new.claimedAt = o.claimedAt /\ new.step # "claim"
        /\ new.step = "unclaim" => o.claimedAt >= 0
    BY <1>8
  <2> QED
    BY <1>5, <2>1 DEF OnTime
<1>10. HoldsClaim(new) => HoldsClaim(settling[g]) /\ new.fill = settling[g].fill /\ new.claimedAt = settling[g].claimedAt
  <2> SUFFICES ASSUME HoldsClaim(new)
               PROVE  HoldsClaim(settling[g]) /\ new.fill = settling[g].fill /\ new.claimedAt = settling[g].claimedAt
    OBVIOUS
  <2>1. new.step # "idle" /\ new.claimedAt >= 0
    BY DEF HoldsClaim
  <2> QED
    BY <1>3, <1>4, <1>8, <2>1 DEF HoldsClaim
<1>11. new.step # "idle" => Forgot(accesses', Who(g)', new, dedupSetup)
  <2> SUFFICES ASSUME new.step # "idle" PROVE Forgot(accesses', Who(g)', new, dedupSetup)
    OBVIOUS
  <2>1. settling[g].step # "idle"
    BY <1>3, <1>4
  <2>2. /\ new \in Working /\ new.fill = settling[g].fill /\ new.asked = settling[g].asked
        /\ new.after = settling[g].after
    BY <1>3, <1>8
  <2>3. Forgot(accesses, Who(g), new, dedupSetup)
    BY <1>2, <2>1, <2>2, GoesOn
  <2> QED
    BY <1>4, <2>3 DEF Who
<1>12. CASE done' = done
  <2>1. DedupType'
    BY <1>1, <1>2, <1>4, <1>7, <1>8, <1>12 DEF DedupType
  <2>2. Forgotten'
    BY <1>1, <1>2, <1>4, <1>7, <1>11, <1>12, ForgottenKept
  <2>3. ClaimsInv'
    BY <1>1, <1>2, <1>4, <1>7, <1>9, <1>10, <1>12, QuietStep
  <2> QED
    BY <1>6, <2>1, <2>2, <2>3 DEF DedupInv
<1>13. ASSUME NEW b \in BOOLEAN, Settlement(g, b), b => ~HoldsClaim(new) PROVE DedupInv'
  <2>1. PICK e : e = [fill |-> o.fill, by |-> Who(g), claimedAt |-> o.claimedAt, answered |-> b,
                      at |-> clock, asked |-> o.asked, after |-> o.after]
    OBVIOUS
  <2>2. done' = Append(done, e)
    BY <1>3, <1>13, <2>1 DEF Settlement
  <2>3. /\ e \in Settled /\ e.fill = o.fill /\ e.claimedAt = o.claimedAt /\ e.answered = b
        /\ e.by = Who(g) /\ e.asked = o.asked /\ e.after = o.after
    <3>1. Who(g) \in Gateways \X Nat /\ clock \in Nat
      BY <1>1, <1>2 DEF DedupType, Who
    <3> QED
      BY <1>5, <2>1, <3>1 DEF Settled, Working
  <2>4. done' \in Seq(Settled)
    BY <1>1, <2>2, <2>3 DEF DedupType
  <2>5. DedupType'
    BY <1>1, <1>2, <1>4, <1>7, <1>8, <2>4 DEF DedupType
  <2>6. Forgotten'
    <3>1. Forgot(accesses, Who(g), settling[g], dedupSetup)
      BY <1>1, <1>2, <1>3, <1>4 DEF Forgotten
    <3>2. Forgot(accesses', e.by, e, dedupSetup)
      <4>1. e.fill = settling[g].fill /\ e.asked = settling[g].asked /\ e.after = settling[g].after
        BY <1>3, <2>3
      <4>2. Forgot(accesses, Who(g), e, dedupSetup)
        BY <3>1, <4>1 DEF Forgot
      <4> QED
        BY <1>4, <2>3, <4>2
    <3> QED
      BY <1>1, <1>2, <1>4, <1>7, <1>11, <2>2, <2>3, <3>2, ForgottenKept
  <2>7. ClaimsInv'
    <3>1. HoldsClaim(new) => ~e.answered
      BY <1>13, <2>3
    <3>2. settling[g].step = "settle" /\ e.fill = settling[g].fill /\ e.claimedAt = settling[g].claimedAt
      BY <1>3, <1>4, <2>3
    <3> QED
      BY <1>1, <1>2, <1>4, <1>7, <1>9, <1>10, <2>2, <2>3, <3>1, <3>2, SettledStep
  <2> QED
    BY <1>6, <2>5, <2>6, <2>7 DEF DedupInv
<1>14. CASE Settlement(g, TRUE) /\ new = [o EXCEPT !.step = "add"]
  <2>1. ~HoldsClaim(new)
    BY <1>5, <1>14 DEF Working, HoldsClaim
  <2> QED
    BY <1>13, <1>14, <2>1
<1>15. CASE Settlement(g, FALSE)
  BY <1>13, <1>15
<1> QED
  BY <1>7, <1>12, <1>14, <1>15

\* A process stops settling, whatever else it does that changes neither
\* settlements nor claims nor anybody else.
LEMMA StopsSettling ==
  ASSUME DedupInv, NEW g \in dedupSetup.processes, settling' = [settling EXCEPT ![g] = NotSettling],
         \A h \in Gateways : h # g => life'[h] = life[h],
         accesses' = accesses \/ \E x \in Access : accesses' = Append(accesses, x),
         UNCHANGED <<dedupSetup, clock, done>>
  PROVE  Forgotten' /\ (claimed' = claimed => ClaimsInv')
<1>1. DedupType /\ Forgotten /\ ClaimsInv /\ g \in Gateways
  BY SetupKnown DEF DedupInv
<1>2. NotSettling.step = "idle" /\ ~HoldsClaim(NotSettling)
  BY DEF NotSettling, HoldsClaim
<1>3. Forgotten'
  BY <1>1, <1>2, ForgottenKept
<1>4. ASSUME claimed' = claimed PROVE ClaimsInv'
  BY <1>1, <1>2, <1>4, QuietStep
<1> QED
  BY <1>3, <1>4

LEMMA UnclaimStep ==
  ASSUME DedupInv, NEW g \in dedupSetup.processes, Unclaim(g)
  PROVE  DedupInv'
<1>1. DedupType /\ Memory /\ ClaimsInv /\ g \in Gateways
  BY SetupKnown DEF DedupInv
<1>2. /\ settling[g].step = "unclaim" /\ settling' = [settling EXCEPT ![g] = NotSettling]
      /\ UNCHANGED <<dedupSetup, clock, lru, life, accesses, done>>
      /\ claimed' = {c \in claimed : c[1] # settling[g].fill} \/ claimed' = claimed
  BY DEF Unclaim
<1>3. Memory'
  <2>1. lru[g] \in Seq(Entry) /\ lru' = [lru EXCEPT ![g] = lru[g]]
    BY <1>1, <1>2 DEF DedupType
  <2>2. Reflects(lru[g], accesses, Who(g)) /\ Keeps(lru[g], accesses, Who(g), clock, dedupSetup)
    BY <1>1 DEF Memory
  <2> QED
    BY <1>1, <1>2, <2>1, <2>2, ListChanged
<1>4. DedupType'
  BY <1>1, <1>2 DEF DedupType
<1>5. Forgotten' /\ (claimed' = claimed => ClaimsInv')
  BY <1>2, StopsSettling
<1>6. claimed' = {c \in claimed : c[1] # settling[g].fill} => ClaimsInv'
  BY <1>1, <1>2, GivenUpStep
<1> QED
  BY <1>2, <1>3, <1>4, <1>5, <1>6 DEF DedupInv

LEMMA AddStep ==
  ASSUME DedupInv, NEW g \in dedupSetup.processes, Add(g)
  PROVE  DedupInv'
<1>1. DedupType /\ Memory /\ ClaimsInv /\ g \in Gateways
  BY SetupKnown DEF DedupInv
<1>2. /\ settling[g].step = "add" /\ AddFill(g, settling[g].fill) /\ settling' = [settling EXCEPT ![g] = NotSettling]
      /\ UNCHANGED <<dedupSetup, clock, claimed, life, done>>
  BY DEF Add
<1>3. PICK f \in FillIds : f = settling[g].fill
  <2>1. settling[g] \in Working
    BY <1>1, <1>2, SettlingKnown
  <2> QED
    BY <2>1 DEF Working
<1>4. Memory' /\ lru' \in [Gateways -> Seq(Entry)] /\ accesses' \in Seq(Access)
  BY <1>1, <1>2, <1>3, AddFillKeeps
<1>5. DedupType'
  BY <1>1, <1>2, <1>4 DEF DedupType
<1>6. \E x \in Access : accesses' = Append(accesses, x)
  <2>1. [by |-> Who(g), fill |-> f, at |-> clock] \in Access
    BY <1>1, <1>3 DEF DedupType, Access, Who
  <2> QED
    BY <1>2, <1>3, <2>1 DEF AddFill, Accessed
<1>7. Forgotten' /\ (claimed' = claimed => ClaimsInv')
  BY <1>2, <1>6, StopsSettling
<1> QED
  BY <1>2, <1>4, <1>5, <1>7 DEF DedupInv

\* A process starts again: nobody of its new name has accessed anything.
LEMMA RestartStep ==
  ASSUME DedupInv, NEW g \in dedupSetup.processes, Restart(g)
  PROVE  DedupInv'
<1>1. DedupType /\ Memory /\ ClaimsInv /\ g \in Gateways
  BY SetupKnown DEF DedupInv
<1>2. /\ lru' = [lru EXCEPT ![g] = <<>>] /\ settling' = [settling EXCEPT ![g] = NotSettling]
      /\ life' = [life EXCEPT ![g] = @ + 1] /\ UNCHANGED <<dedupSetup, clock, claimed, accesses, done>>
  BY DEF Restart
<1>3. /\ life[g] \in Nat /\ life' \in [Gateways -> Nat] /\ life'[g] = life[g] + 1
      /\ \A h \in Gateways : h # g => life'[h] = life[h]
  BY <1>1, <1>2 DEF DedupType
<1>4. DedupType'
  BY <1>1, <1>2, <1>3 DEF DedupType
<1>5. Forgotten' /\ (claimed' = claimed => ClaimsInv')
  BY <1>2, <1>3, StopsSettling
<1>6. \A n \in DOMAIN accesses :
        accesses[n].by \in Gateways \X Nat /\ accesses[n].by[2] <= life[accesses[n].by[1]]
  <2> SUFFICES ASSUME NEW n \in DOMAIN accesses
               PROVE  accesses[n].by \in Gateways \X Nat /\ accesses[n].by[2] <= life[accesses[n].by[1]]
    OBVIOUS
  <2>1. accesses[n] \in Access
    BY <1>1 DEF DedupType
  <2> QED
    BY <1>1, <2>1 DEF Access, Memory
<1>7. Memory'
  <2>1. ASSUME NEW h \in Gateways
        PROVE  Reflects(lru'[h], accesses', Who(h)') /\ Keeps(lru'[h], accesses', Who(h)', clock', dedupSetup')
    <3>1. CASE h = g
      <4>1. lru'[h] = <<>> /\ Who(h)' = <<g, life[g] + 1>>
        BY <1>1, <1>2, <1>3, <3>1 DEF Who, DedupType
      <4>2. Mine(accesses, <<g, life[g] + 1>>) = {}
        <5> SUFFICES ASSUME NEW n \in DOMAIN accesses, accesses[n].by = <<g, life[g] + 1>> PROVE FALSE
          BY DEF Mine
        <5>1. life[g] + 1 <= life[g]
          BY <1>6
        <5> QED
          BY <1>3, <5>1
      <4>3. Reflects(<<>>, accesses, <<g, life[g] + 1>>)
        BY DEF Reflects
      <4>4. Keeps(<<>>, accesses, <<g, life[g] + 1>>, clock, dedupSetup)
        BY <4>2 DEF Keeps, Recent, IsLast
      <4> QED
        BY <1>2, <4>1, <4>3, <4>4
    <3>2. CASE h # g
      <4>1. lru'[h] = lru[h] /\ Who(h)' = Who(h)
        BY <1>1, <1>2, <1>3, <3>2 DEF Who, DedupType
      <4>2. Reflects(lru[h], accesses, Who(h)) /\ Keeps(lru[h], accesses, Who(h), clock, dedupSetup)
        BY <1>1 DEF Memory
      <4> QED
        BY <1>2, <4>1, <4>2
    <3> QED
      BY <3>1, <3>2
  <2>2. ASSUME NEW n \in DOMAIN accesses PROVE accesses[n].by[2] <= life'[accesses[n].by[1]]
    <3>1. PICK h \in Gateways, k \in Nat : accesses[n].by = <<h, k>> /\ k <= life[h]
      BY <1>6
    <3>2. k <= life'[h]
      <4>1. life[h] \in Nat
        BY <1>1 DEF DedupType
      <4> QED
        BY <1>3, <3>1, <4>1
    <3> QED
      BY <3>1, <3>2
  <2> QED
    BY <1>1, <1>2, <2>1, <2>2 DEF Memory
<1> QED
  BY <1>2, <1>4, <1>5, <1>7 DEF DedupInv

LEMMA DedupTickStep ==
  ASSUME DedupInv, DedupTick
  PROVE  DedupInv'
<1>1. DedupType /\ Memory /\ Forgotten /\ ClaimsInv
  BY DEF DedupInv
<1>2. /\ clock' = clock + 1 /\ clock \in Nat /\ claimed' \subseteq claimed
      /\ UNCHANGED <<dedupSetup, lru, settling, life, accesses, done>>
  BY <1>1 DEF DedupTick, DedupType
<1>3. DedupType'
  BY <1>1, <1>2 DEF DedupType
<1>4. ClaimsInv'
  BY <1>1, ClaimsAge
<1>5. \A g \in Gateways : Who(g)' = Who(g)
  BY <1>2 DEF Who
<1>6. Forgotten'
  BY <1>1, <1>2, <1>5 DEF Forgotten
<1>7. \A n \in DOMAIN accesses : accesses[n].at \in Nat
  <2> SUFFICES ASSUME NEW n \in DOMAIN accesses PROVE accesses[n].at \in Nat
    OBVIOUS
  <2>1. accesses[n] \in Access
    BY <1>1 DEF DedupType
  <2> QED
    BY <2>1 DEF Access
<1>8. PICK now : now = clock'
  OBVIOUS
<1>9. ASSUME NEW g \in Gateways PROVE Keeps(lru[g], accesses, Who(g), now, dedupSetup)
  <2> SUFFICES ASSUME NEW n, Recent(accesses, Who(g), n, now, dedupSetup) PROVE Holds(lru[g], accesses[n].fill)
    BY DEF Keeps
  <2>1. /\ IsLast(accesses, Who(g), n) /\ now - accesses[n].at <= dedupSetup.ttl
        /\ Cardinality(Others(accesses, Who(g), n)) < dedupSetup.capacity
    BY DEF Recent
  <2>2. accesses[n].at \in Nat
    BY <1>7, <2>1 DEF IsLast, Mine
  <2>3. clock - accesses[n].at <= dedupSetup.ttl
    <3>1. dedupSetup.ttl \in Nat /\ now = clock + 1
      BY <1>1, <1>2, <1>8, SetupKnown
    <3> QED
      BY <1>2, <2>1, <2>2, <3>1
  <2>4. Recent(accesses, Who(g), n, clock, dedupSetup)
    BY <2>1, <2>3 DEF Recent
  <2>5. Keeps(lru[g], accesses, Who(g), clock, dedupSetup)
    BY <1>1 DEF Memory
  <2> QED
    BY <2>4, <2>5 DEF Keeps
<1>10. ASSUME NEW g \in Gateways
       PROVE  Reflects(lru'[g], accesses', Who(g)') /\ Keeps(lru'[g], accesses', Who(g)', clock', dedupSetup')
  <2>1. Reflects(lru[g], accesses, Who(g)) /\ Keeps(lru[g], accesses, Who(g), now, dedupSetup)
    BY <1>1, <1>9 DEF Memory
  <2> QED
    BY <1>2, <1>5, <1>8, <2>1
<1>11. \A n \in DOMAIN accesses : accesses[n].at <= now
  <2> SUFFICES ASSUME NEW n \in DOMAIN accesses PROVE accesses[n].at <= now
    OBVIOUS
  <2>1. accesses[n].at <= clock /\ accesses[n].at \in Nat
    BY <1>1, <1>7 DEF Memory
  <2> QED
    BY <1>2, <1>8, <2>1
<1>12. Memory'
  BY <1>1, <1>2, <1>8, <1>10, <1>11 DEF Memory
<1> QED
  BY <1>3, <1>4, <1>6, <1>12 DEF DedupInv

\* The invariant of the processes that settle fills.
LEMMA DedupInvariant == DedupSpec => []DedupInv
<1>1. DedupInit => DedupInv
  BY DedupInitially
<1>2. DedupInv /\ [DedupNext]_dedupVars => DedupInv'
  <2> SUFFICES ASSUME DedupInv, [DedupNext]_dedupVars PROVE DedupInv'
    OBVIOUS
  <2>1. CASE UNCHANGED dedupVars
    <3>1. \A g \in Gateways : Who(g)' = Who(g)
      BY <2>1 DEF dedupVars, Who
    <3>2. DedupType' /\ ClaimsInv'
      BY <2>1 DEF dedupVars, DedupInv, DedupType, ClaimsInv, ClaimsLast, ClaimsHeld, ClaimsHonoured
    <3>3. Memory' /\ Forgotten'
      BY <2>1, <3>1 DEF dedupVars, DedupInv, Memory, Forgotten
    <3> QED
      BY <3>2, <3>3 DEF DedupInv
  <2>2. CASE DedupTick
    BY <2>2, DedupTickStep
  <2>3. ASSUME NEW g \in dedupSetup.processes,
               \/ \E f \in dedupSetup.fills : SettleFill(g, f)
               \/ SetNX(g) \/ SettleWallets(g) \/ Unclaim(g) \/ Add(g) \/ Restart(g)
        PROVE  DedupInv'
    BY <2>3, SettleFillStep, SetNXStep, SettleWalletsStep, UnclaimStep, AddStep, RestartStep
  <2> QED
    BY <2>1, <2>2, <2>3 DEF DedupNext
<1> QED
  BY <1>1, <1>2, PTL DEF DedupSpec

\* A process settles a fill again only when it had to forget it: it was not
\* among as many others as it has room for, or too long ago. And with a shared
\* store a settlement that reported its success keeps every other out until its
\* claim expires (Service.SettleFill, fillLRU, redisSharedStore). For any
\* processes, fills, capacity, lifetime, faults of the store and of the
\* database, lost answers and restarts.
THEOREM FillsNotSettledAgain == DedupSpec => []NotSettledAgain
<1>1. DedupInv => NotSettledAgain
  <2> SUFFICES ASSUME DedupInv, NEW i \in DOMAIN done, NEW j \in DOMAIN done, i < j, done[i].fill = done[j].fill
               PROVE  /\ ~Remembered(done[j])
                      /\ ~(done[i].claimedAt >= 0 /\ done[i].answered /\ done[j].claimedAt - done[i].claimedAt \in 0..dedupSetup.ttl)
    BY DEF NotSettledAgain
  <2>1. Forgot(accesses, done[j].by, done[j], dedupSetup)
    BY DEF DedupInv, Forgotten
  <2>2. ~Remembered(done[j])
    BY <2>1 DEF Forgot, Remembered
  <2>3. Reported(done[i]) => ~InForce(done[i], done[j].claimedAt, dedupSetup.ttl)
    BY DEF DedupInv, ClaimsInv, ClaimsHonoured
  <2> QED
    BY <2>2, <2>3 DEF Reported, InForce
<1> QED
  BY <1>1, DedupInvariant, PTL

-----------------------------------------------------------------------------
(***************************************************************************)
(* Prices of outside exchanges.  What a cache holds was heard from its     *)
(* source at the time the cache says; what memory holds could be read from *)
(* some time on; and what the chain picked was fresh when it was asked.    *)
(* Nothing heard or in force is taken back, so that neither a later        *)
(* message nor a restart makes what was served wrong.                      *)
(***************************************************************************)
Heard(cache, source, said, now) ==
  /\ cache.at \in Int /\ cache.at <= now
  /\ cache.at >= 0 => <<source, cache.price, cache.at>> \in said

Read(c, corrections, now) == \E f \in corrections : f.c = c /\ f.since \in Nat /\ f.since <= now

FreshThen(ticker, asked, said) ==
  \E h \in said : h[1] = ticker.source /\ h[2] = ticker.price /\ (h[1] # "amm" => asked - h[3] \in 0..Staleness)

Picked(q, said) == FreshThen(q.ticker, q.at, said)

Served(q, said, corrections) ==
  \E h \in said : \E f \in corrections :
    /\ h[1] = q.source
    /\ h[1] # "amm" => q.asked - h[3] \in 0..Staleness
    /\ f.since <= q.at
    /\ q.last = AdjVal(h[2], f.c)

Asked(q, said, corrections) ==
  /\ q.step = "picked" => Picked(q, said)
  /\ q.step = "served" => Served(q, said, corrections)

PriceInv ==
  /\ feedTime \in Nat
  /\ Heard(mini, "binance-ws", heard, feedTime) /\ Heard(pollTicker, "binance-rest", heard, feedTime)
  /\ <<"amm", AmmQuote, 0>> \in heard
  /\ Read(adjMemory, inForce, feedTime)
  /\ lookup = [r \in PriceReaders |-> lookup[r]]
  /\ \A r \in PriceReaders : Asked(lookup[r], heard, inForce)

\* What was heard stays heard, what was in force was in force.
LEMMA HeardGrows ==
  ASSUME NEW said, NEW said2, said \subseteq said2, NEW rules, NEW rules2, rules \subseteq rules2,
         NEW now \in Nat, NEW later \in Nat, now <= later
  PROVE  /\ \A cache, source : Heard(cache, source, said, now) => Heard(cache, source, said2, later)
         /\ \A c : Read(c, rules, now) => Read(c, rules2, later)
         /\ \A q : Asked(q, said, rules) => Asked(q, said2, rules2)
<1>1. ASSUME NEW cache, NEW source, Heard(cache, source, said, now) PROVE Heard(cache, source, said2, later)
  BY <1>1 DEF Heard
<1>2. ASSUME NEW q, Asked(q, said, rules) PROVE Asked(q, said2, rules2)
  <2>1. q.step = "picked" => Picked(q, said2)
    BY <1>2 DEF Asked, Picked, FreshThen
  <2>2. q.step = "served" => Served(q, said2, rules2)
    BY <1>2 DEF Asked, Served
  <2> QED
    BY <2>1, <2>2 DEF Asked
<1>3. ASSUME NEW c, Read(c, rules, now) PROVE Read(c, rules2, later)
  BY <1>3 DEF Read
<1> QED
  BY <1>1, <1>2, <1>3

LEMMA PriceStart == PriceInit => PriceInv
<1> SUFFICES ASSUME PriceInit PROVE PriceInv
  OBVIOUS
<1>1. feedTime \in Nat /\ <<"amm", AmmQuote, 0>> \in heard
  BY DEF PriceInit
<1>2. Heard(mini, "binance-ws", heard, feedTime) /\ Heard(pollTicker, "binance-rest", heard, feedTime)
  BY DEF PriceInit, Heard, Nil
<1>3. Read(adjMemory, inForce, feedTime)
  <2>1. [c |-> Identity, since |-> 0] \in inForce /\ adjMemory = Identity /\ feedTime = 0
    BY DEF PriceInit
  <2> QED
    BY <2>1 DEF Read
<1>4. lookup = [r \in PriceReaders |-> lookup[r]] /\ \A r \in PriceReaders : Asked(lookup[r], heard, inForce)
  BY DEF PriceInit, NoRequest, Asked
<1> QED
  BY <1>1, <1>2, <1>3, <1>4 DEF PriceInv

\* A step that only adds to what was heard and in force, and moves the clock on.
LEMMA PriceGoesOn ==
  ASSUME PriceInv, feedTime' \in Nat, feedTime <= feedTime', heard \subseteq heard', inForce \subseteq inForce',
         Heard(mini, "binance-ws", heard', feedTime') => Heard(mini', "binance-ws", heard', feedTime'),
         Heard(pollTicker, "binance-rest", heard', feedTime') => Heard(pollTicker', "binance-rest", heard', feedTime'),
         Read(adjMemory, inForce', feedTime') => Read(adjMemory', inForce', feedTime'),
         lookup' = [r \in PriceReaders |-> lookup'[r]],
         \A r \in PriceReaders : lookup'[r] = lookup[r] \/ Asked(lookup'[r], heard', inForce')
  PROVE  PriceInv'
<1>1. /\ \A cache, source : Heard(cache, source, heard, feedTime) => Heard(cache, source, heard', feedTime')
      /\ \A c : Read(c, inForce, feedTime) => Read(c, inForce', feedTime')
      /\ \A q : Asked(q, heard, inForce) => Asked(q, heard', inForce')
  BY HeardGrows DEF PriceInv
<1>2. Heard(mini', "binance-ws", heard', feedTime') /\ Heard(pollTicker', "binance-rest", heard', feedTime')
  BY <1>1 DEF PriceInv
<1>3. Read(adjMemory', inForce', feedTime')
  BY <1>1 DEF PriceInv
<1>4. \A r \in PriceReaders : Asked(lookup'[r], heard', inForce')
  BY <1>1 DEF PriceInv
<1>5. <<"amm", AmmQuote, 0>> \in heard'
  BY DEF PriceInv
<1> QED
  BY <1>2, <1>3, <1>4, <1>5 DEF PriceInv

\* The chain picks what is fresh, or the pool.
LEMMA PickedIsFresh == PriceInv => FreshThen(RawBestTicker, feedTime, heard)
<1> SUFFICES ASSUME PriceInv PROVE FreshThen(RawBestTicker, feedTime, heard)
  OBVIOUS
<1>0. feedTime \in Nat /\ Staleness \in Nat
  BY PriceAssumption DEF PriceInv
<1>1. CASE IsFresh(mini)
  <2>1. <<"binance-ws", mini.price, mini.at>> \in heard /\ mini.at \in Int /\ mini.at <= feedTime
    BY <1>1 DEF PriceInv, Heard, IsFresh
  <2>2. feedTime - mini.at \in 0..Staleness
    BY <1>0, <1>1, <2>1 DEF IsFresh
  <2>3. RawBestTicker.source = "binance-ws" /\ RawBestTicker.price = mini.price
    BY <1>1 DEF RawBestTicker, BuildTicker
  <2> QED
    BY <2>1, <2>2, <2>3 DEF FreshThen
<1>2. CASE ~IsFresh(mini) /\ IsFresh(pollTicker)
  <2>1. <<"binance-rest", pollTicker.price, pollTicker.at>> \in heard /\ pollTicker.at \in Int /\ pollTicker.at <= feedTime
    BY <1>2 DEF PriceInv, Heard, IsFresh
  <2>2. feedTime - pollTicker.at \in 0..Staleness
    BY <1>0, <1>2, <2>1 DEF IsFresh
  <2>3. RawBestTicker.source = "binance-rest" /\ RawBestTicker.price = pollTicker.price
    BY <1>2 DEF RawBestTicker
  <2> QED
    BY <2>1, <2>2, <2>3 DEF FreshThen
<1>3. CASE ~IsFresh(mini) /\ ~IsFresh(pollTicker)
  <2>1. RawBestTicker.source = "amm" /\ RawBestTicker.price = AmmQuote
    BY <1>3 DEF RawBestTicker
  <2>2. <<"amm", AmmQuote, 0>> \in heard
    BY DEF PriceInv
  <2> QED
    BY <2>1, <2>2 DEF FreshThen
<1> QED
  BY <1>1, <1>2, <1>3

LEMMA PickTickerKeeps == ASSUME PriceInv, NEW r \in PriceReaders, PickTicker(r) PROVE PriceInv'
<1>1. UNCHANGED <<feedTime, heard, inForce, mini, pollTicker, adjMemory>>
  BY DEF PickTicker, caches, adjuster
<1>2. FreshThen(RawBestTicker, feedTime, heard)
  BY PickedIsFresh
<1>3. lookup' = [r2 \in PriceReaders |-> lookup'[r2]]
  BY DEF PickTicker, PriceInv
<1>4. ASSUME NEW r2 \in PriceReaders PROVE lookup'[r2] = lookup[r2] \/ Asked(lookup'[r2], heard', inForce')
  <2>1. CASE r2 # r
    BY <2>1 DEF PickTicker, PriceInv
  <2>2. CASE r2 = r
    <3>1. \/ lookup'[r] = NoRequest
          \/ lookup'[r] = [step |-> "picked", ticker |-> RawBestTicker, at |-> feedTime]
      BY DEF PickTicker, PriceInv
    <3>2. CASE lookup'[r] = NoRequest
      BY <2>2, <3>2 DEF Asked, NoRequest
    <3>3. CASE lookup'[r] = [step |-> "picked", ticker |-> RawBestTicker, at |-> feedTime]
      <4>1. Picked(lookup'[r], heard')
        BY <1>1, <1>2, <3>3 DEF Picked
      <4> QED
        BY <2>2, <3>3, <4>1 DEF Asked
    <3> QED
      BY <3>1, <3>2, <3>3
  <2> QED
    BY <2>1, <2>2
<1>5. feedTime \in Nat
  BY DEF PriceInv
<1> QED
  BY <1>1, <1>3, <1>4, <1>5, PriceGoesOn

LEMMA ServeTickerKeeps == ASSUME PriceInv, NEW r \in PriceReaders, ServeTicker(r) PROVE PriceInv'
<1>1. UNCHANGED <<feedTime, heard, inForce, mini, pollTicker, adjMemory>>
  BY DEF ServeTicker, ApplyTicker, adjuster
<1>2. lookup' = [r2 \in PriceReaders |-> lookup'[r2]]
  BY DEF ServeTicker, PriceInv
<1>3. ASSUME NEW r2 \in PriceReaders PROVE lookup'[r2] = lookup[r2] \/ Asked(lookup'[r2], heard', inForce')
  <2>1. CASE r2 # r
    BY <2>1 DEF ServeTicker, PriceInv
  <2>2. CASE r2 = r
    <3> DEFINE q == lookup[r]
    <3>1. lookup'[r] = [step |-> "served", source |-> q.ticker.source, asked |-> q.at, at |-> feedTime,
                        last |-> AdjVal(q.ticker.price, adjMemory), quotes |-> q.ticker.quotes]
      BY DEF ServeTicker, PriceInv
    <3>2. Picked(q, heard)
      BY DEF ServeTicker, PriceInv, Asked
    <3>3. PICK h \in heard : h[1] = q.ticker.source /\ h[2] = q.ticker.price /\ (h[1] # "amm" => q.at - h[3] \in 0..Staleness)
      BY <3>2 DEF Picked, FreshThen
    <3>4. PICK f \in inForce : f.c = adjMemory /\ f.since <= feedTime
      BY DEF PriceInv, Read
    <3>5. lookup'[r].last = AdjVal(h[2], f.c)
      BY <3>1, <3>3, <3>4
    <3>6. Served(lookup'[r], heard', inForce')
      <4>1. /\ lookup'[r].source = q.ticker.source /\ lookup'[r].asked = q.at /\ lookup'[r].at = feedTime
        BY <3>1
      <4> QED
        BY <1>1, <3>3, <3>4, <3>5, <4>1 DEF Served
    <3> QED
      BY <2>2, <3>1, <3>6 DEF Asked
  <2> QED
    BY <2>1, <2>2
<1>4. feedTime \in Nat
  BY DEF PriceInv
<1> QED
  BY <1>1, <1>2, <1>3, <1>4, PriceGoesOn

\* Messages and polls: a cache is written with what is heard as it is written.
LEMMA JustHeard ==
  ASSUME NEW p, NEW source, NEW said, <<source, p, feedTime>> \in said, feedTime \in Nat
  PROVE  Heard(Stamped(p), source, said, feedTime)
  BY DEF Heard, Stamped

LEMMA FeedsKeep == ASSUME PriceInv, HandleMessage \/ PollStore PROVE PriceInv'
<1>0. feedTime \in Nat
  BY DEF PriceInv
<1>1. UNCHANGED <<feedTime, inForce, adjMemory, lookup>> /\ heard \subseteq heard'
  BY DEF HandleMessage, HandleMiniTicker, HandleDepth, PollStore, adjuster
<1>2. lookup' = [r2 \in PriceReaders |-> lookup'[r2]]
  BY <1>1 DEF PriceInv
<1>3. Heard(mini, "binance-ws", heard', feedTime') => Heard(mini', "binance-ws", heard', feedTime')
  <2>1. CASE mini' = mini
    BY <2>1
  <2>2. CASE mini' # mini
    <3>1. HandleMessage /\ HandleMiniTicker(Head(msgCh).price)
      BY <2>2 DEF HandleMessage, HandleDepth, PollStore
    <3>2. mini' = Stamped(Head(msgCh).price) /\ <<"binance-ws", Head(msgCh).price, feedTime>> \in heard'
      BY <3>1 DEF HandleMiniTicker
    <3> QED
      BY <1>0, <1>1, <3>2, JustHeard
  <2> QED
    BY <2>1, <2>2
<1>4. Heard(pollTicker, "binance-rest", heard', feedTime') => Heard(pollTicker', "binance-rest", heard', feedTime')
  <2>1. CASE HandleMessage
    BY <2>1 DEF HandleMessage
  <2>2. CASE PollStore
    <3>1. pollTicker' = Stamped(poll) /\ <<"binance-rest", poll, feedTime>> \in heard'
      BY <2>2 DEF PollStore
    <3> QED
      BY <1>0, <1>1, <3>1, JustHeard
  <2> QED
    BY <2>1, <2>2
<1> QED
  BY <1>0, <1>1, <1>2, <1>3, <1>4, PriceGoesOn

\* An administrator's correction, or a restart, reaches memory as it comes into force.
LEMMA RulesKeep ==
  ASSUME PriceInv, PriceRestart \/ \E a \in PriceAdmins : UpdatePriceAdjust(a) \/ StoreAdjustment(a)
  PROVE  PriceInv'
<1>0. feedTime \in Nat
  BY DEF PriceInv
<1>1. UNCHANGED <<feedTime, heard>>
  BY DEF PriceRestart, UpdatePriceAdjust, StoreAdjustment
<1>2. inForce \subseteq inForce' /\ (Read(adjMemory, inForce', feedTime') => Read(adjMemory', inForce', feedTime'))
  <2>1. ASSUME NEW c, Remember(c) PROVE inForce \subseteq inForce' /\ Read(adjMemory', inForce', feedTime')
    <3>1. adjMemory' = c /\ inForce \subseteq inForce' /\ [c |-> c, since |-> feedTime] \in inForce'
      BY <2>1 DEF Remember
    <3> QED
      BY <1>0, <1>1, <3>1 DEF Read
  <2>2. CASE UNCHANGED <<adjMemory, inForce>>
    BY <2>2
  <2>3. UNCHANGED <<adjMemory, inForce>> \/ \E c : Remember(c)
    BY DEF PriceRestart, UpdatePriceAdjust, StoreAdjustment
  <2> QED
    BY <2>1, <2>2, <2>3
<1>3. lookup' = lookup \/ lookup' = [r2 \in PriceReaders |-> NoRequest]
  BY DEF PriceRestart, UpdatePriceAdjust, StoreAdjustment
<1>4. lookup' = [r2 \in PriceReaders |-> lookup'[r2]]
  BY <1>3 DEF PriceInv
<1>5. \A r2 \in PriceReaders : lookup'[r2] = lookup[r2] \/ Asked(lookup'[r2], heard', inForce')
  BY <1>3 DEF Asked, NoRequest
<1>6. \/ UNCHANGED <<mini, pollTicker>>
      \/ mini' = Nil /\ pollTicker' = Nil
  BY DEF PriceRestart, UpdatePriceAdjust, StoreAdjustment, caches
<1>7. Heard(Nil, "binance-ws", heard', feedTime') /\ Heard(Nil, "binance-rest", heard', feedTime')
  BY <1>0, <1>1 DEF Heard, Nil
<1>8. /\ Heard(mini, "binance-ws", heard', feedTime') => Heard(mini', "binance-ws", heard', feedTime')
      /\ Heard(pollTicker, "binance-rest", heard', feedTime') => Heard(pollTicker', "binance-rest", heard', feedTime')
  BY <1>6, <1>7
<1> QED
  BY <1>0, <1>1, <1>2, <1>4, <1>5, <1>8, PriceGoesOn

\* What is left concerns the connection, the poller's question and the clock.
LEMMA PriceRestKeeps ==
  ASSUME PriceInv, Connect \/ Disconnect \/ SocketMessage \/ PollFetch \/ PriceTick \/ UNCHANGED priceVars PROVE PriceInv'
<1>1. UNCHANGED <<mini, pollTicker, heard, inForce, adjMemory, lookup>>
  BY DEF Connect, Disconnect, SocketMessage, PollFetch, PriceTick, priceVars, caches, adjuster
<1>2. feedTime' \in Nat /\ feedTime <= feedTime'
  <2>1. feedTime \in Nat /\ (feedTime' = feedTime \/ feedTime' = feedTime + 1)
    BY DEF PriceInv, Connect, Disconnect, SocketMessage, PollFetch, PriceTick, priceVars
  <2> QED
    BY <2>1
<1>3. lookup' = [r2 \in PriceReaders |-> lookup'[r2]]
  BY <1>1 DEF PriceInv
<1> QED
  BY <1>1, <1>2, <1>3, PriceGoesOn

\* Every price a request was served had been sent by its source within the
\* staleness allowed when the chain picked it, and was corrected once, by a
\* correction already in force (PriceChain.rawBestTicker, PriceAdjuster.ApplyTicker):
\* for any readers, administrators, corrections, quotes and staleness, whatever
\* connections break and however often the gateway restarts.
THEOREM PricesAdjustedOnce == PriceSpec => []AdjustedOnce
<1>1. PriceInv /\ [PriceNext]_priceVars => PriceInv'
  BY PickTickerKeeps, ServeTickerKeeps, FeedsKeep, RulesKeep, PriceRestKeeps DEF PriceNext
<1>2. PriceInv => AdjustedOnce
  BY DEF PriceInv, Asked, Served, AdjustedOnce
<1> QED
  BY <1>1, <1>2, PriceStart, PTL DEF PriceSpec
=============================================================================
