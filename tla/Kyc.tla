--------------------------------- MODULE Kyc ---------------------------------
(***************************************************************************)
(* Identity checks: users submit documents (internal/api/kyc_handler.go),  *)
(* administrators review them (ReviewKyc of admin_handler.go, Review of    *)
(* internal/store/pg_kyc.go), an approval raises the user's kyc_level, and *)
(* withdrawals take the daily limit of that level through a cache which    *)
(* each gateway has (kycLevelCached of internal/wallet/withdrawal.go).     *)
(*                                                                         *)
(* Documents are files, written before the row; the status and the level   *)
(* are two updates in no transaction.                                      *)
(***************************************************************************)
EXTENDS Integers, FiniteSets

CONSTANTS
  Applicants,         \* users
  KycSetups,          \* records with submissions (ids) and gateways, each with a cache
  KycAdmins, Payers,     \* reviews and withdrawals at work
  CacheTTL, MaxKycTime, KycFaults

ASSUME KycAssumption == CacheTTL \in Nat \ {0} /\ MaxKycTime \in Nat /\ KycFaults \in Nat

VARIABLES
  kycSetup,
  submission,    \* kyc_submissions: "none", or the user and the status
  documents,     \* ids whose documents are on disk
  kycLevel,      \* users.kyc_level
  submitting,    \* each submission's request: its user and step
  review,        \* each review: gateway, submission, action and step
  kycCache,      \* by gateway and user: level and expiry
  payer,         \* each withdrawal's lookup of the level
  kycTime, kycFailed,
  lostInsert     \* history: ids whose row was inserted and the answer lost

kycVars == <<kycSetup, submission, documents, kycLevel, submitting, review, kycCache, payer,
             kycTime, kycFailed, lostInsert>>
kycTables == <<kycSetup, submission, documents, kycLevel>>

Submissions == kycSetup.submissions
KycGateways == kycSetup.gateways

NoRow == [status |-> "none"]
Idle0 == [step |-> "none"]
NoEntry == [level |-> 0, expires |-> 0]
KycFault == kycFailed < KycFaults /\ kycFailed' = kycFailed + 1

-----------------------------------------------------------------------------
(* KycHandler.Submit *)

\* Both files, or an error that leaves none.
WriteDocuments(s) ==
  /\ submitting[s] = Idle0
  /\ \E u \in Applicants : submitting' = [submitting EXCEPT ![s] = [step |-> "written", user |-> u]]
  /\ documents' = documents \cup {s}
  /\ UNCHANGED <<kycSetup, submission, kycLevel, review, kycCache, payer, kycTime, kycFailed, lostInsert>>

\* The row; when the insert reports an error the files are removed, though the
\* row may be there.
InsertSubmission(s) ==
  /\ submitting[s].step = "written"
  /\ submitting' = [submitting EXCEPT ![s].step = "over"]
  /\ LET row == [submission EXCEPT ![s] = [status |-> "pending", user |-> submitting[s].user]] IN
     \/ submission' = row /\ UNCHANGED <<documents, kycFailed, lostInsert>>
     \/ KycFault /\ documents' = documents \ {s} /\ UNCHANGED <<submission, lostInsert>>
     \/ KycFault /\ submission' = row /\ documents' = documents \ {s} /\ lostInsert' = lostInsert \cup {s}
  /\ UNCHANGED <<kycSetup, kycLevel, review, kycCache, payer, kycTime>>

-----------------------------------------------------------------------------
(* ReviewKyc, and Review of the store *)

GetByID(a) ==
  /\ review[a] = Idle0
  /\ \E g \in KycGateways, s \in Submissions, action \in {"approved", "rejected"} :
       /\ submission[s] # NoRow
       /\ review' = [review EXCEPT ![a] = [step |-> "update", gateway |-> g, id |-> s, action |-> action]]
  /\ UNCHANGED <<kycTables, submitting, kycCache, payer, kycTime, kycFailed, lostInsert>>

EndReview(a) == review' = [review EXCEPT ![a] = Idle0]

\* MUTANT for LevelEarned: the update does without its guard.
Mutant_AnyStatus(s) == submission[s] # NoRow
\* WHERE status='pending'
PendingRow(s) == submission[s].status = "pending"

UpdateStatus(a) ==
  LET r == review[a]
      decided == [submission EXCEPT ![r.id].status = r.action]
  IN  /\ r.step = "update"
      /\ \/ /\ PendingRow(r.id) /\ submission' = decided /\ UNCHANGED kycFailed
            /\ IF r.action = "approved" THEN review' = [review EXCEPT ![a].step = "raise"] ELSE EndReview(a)
         \/ ~PendingRow(r.id) /\ EndReview(a) /\ UNCHANGED <<submission, kycFailed>>
         \/ KycFault /\ EndReview(a) /\ (UNCHANGED submission \/ (PendingRow(r.id) /\ submission' = decided))
      /\ UNCHANGED <<kycSetup, documents, kycLevel, submitting, kycCache, payer, kycTime, lostInsert>>

\* A failure here leaves an approved submission of a user at level 0, and a
\* second review is refused.
RaiseLevel(a) ==
  LET u == submission[review[a].id].user
      raised == kycLevel' = [kycLevel EXCEPT ![u] = 1]
  IN  /\ review[a].step = "raise"
      /\ \/ raised /\ review' = [review EXCEPT ![a].step = "invalidate"] /\ UNCHANGED kycFailed
         \/ KycFault /\ EndReview(a) /\ (raised \/ UNCHANGED kycLevel)
      /\ UNCHANGED <<kycSetup, submission, documents, submitting, kycCache, payer, kycTime, lostInsert>>

\* In the cache of the gateway of the review only.
InvalidateKycLevelCache(a) ==
  LET r == review[a]
  IN  /\ r.step = "invalidate" /\ EndReview(a)
      /\ kycCache' = [kycCache EXCEPT ![r.gateway][submission[r.id].user] = NoEntry]
      /\ UNCHANGED <<kycTables, submitting, payer, kycTime, kycFailed, lostInsert>>

-----------------------------------------------------------------------------
(* kycLevelCached: what resolveDailyLimitUSDT of a withdrawal asks *)

Cached(g, u) == kycTime < kycCache[g][u].expires

ReadCache(w) ==
  /\ payer[w].step # "write"
  /\ \E g \in KycGateways, u \in Applicants :
       \/ Cached(g, u) /\ payer' = [payer EXCEPT ![w] = [step |-> "limit", user |-> u, level |-> kycCache[g][u].level]]
       \/ /\ ~Cached(g, u)
          /\ \E level \in {0, kycLevel[u]} :   \* 0 when the lookup fails
               payer' = [payer EXCEPT ![w] = [step |-> "write", gateway |-> g, user |-> u, level |-> level]]
  /\ UNCHANGED <<kycTables, submitting, review, kycCache, kycTime, kycFailed, lostInsert>>

\* It may overwrite what a review has invalidated meanwhile.
WriteCache(w) ==
  LET p == payer[w]
  IN  /\ p.step = "write"
      /\ kycCache' = [kycCache EXCEPT ![p.gateway][p.user] = [level |-> p.level, expires |-> kycTime + CacheTTL]]
      /\ payer' = [payer EXCEPT ![w] = [step |-> "limit", user |-> p.user, level |-> p.level]]
      /\ UNCHANGED <<kycTables, submitting, review, kycTime, kycFailed, lostInsert>>

-----------------------------------------------------------------------------

KycTick ==
  /\ kycTime < MaxKycTime /\ kycTime' = kycTime + 1
  /\ UNCHANGED <<kycTables, submitting, review, kycCache, payer, kycFailed, lostInsert>>

\* A gateway dies: its requests stop where they are, its cache is empty.
KycRestart(g) ==
  /\ KycFault
  /\ kycCache' = [kycCache EXCEPT ![g] = [u \in Applicants |-> NoEntry]]
  /\ review' = [a \in KycAdmins |-> IF review[a] # Idle0 /\ review[a].gateway = g THEN Idle0 ELSE review[a]]
  /\ payer' = [w \in Payers |-> IF payer[w].step = "write" /\ payer[w].gateway = g THEN Idle0 ELSE payer[w]]
  /\ \E there \in SUBSET {s \in Submissions : submitting[s].step = "written"} :
       submitting' = [s \in Submissions |->
         IF s \in there THEN [submitting[s] EXCEPT !.step = "over"] ELSE submitting[s]]
  /\ UNCHANGED <<kycTables, kycTime, lostInsert>>

KycInit ==
  /\ kycSetup \in KycSetups
  /\ submission = [s \in Submissions |-> NoRow] /\ documents = {}
  /\ kycLevel = [u \in Applicants |-> 0]
  /\ submitting = [s \in Submissions |-> Idle0] /\ review = [a \in KycAdmins |-> Idle0]
  /\ kycCache = [g \in KycGateways |-> [u \in Applicants |-> NoEntry]]
  /\ payer = [w \in Payers |-> Idle0]
  /\ kycTime = 0 /\ kycFailed = 0 /\ lostInsert = {}

KycNext ==
  \/ \E s \in Submissions : WriteDocuments(s) \/ InsertSubmission(s)
  \/ \E a \in KycAdmins : GetByID(a) \/ UpdateStatus(a) \/ RaiseLevel(a) \/ InvalidateKycLevelCache(a)
  \/ \E w \in Payers : ReadCache(w) \/ WriteCache(w)
  \/ \E g \in KycGateways : KycRestart(g)
  \/ KycTick

KycSpec == KycInit /\ [][KycNext]_kycVars

-----------------------------------------------------------------------------
(* Properties *)

\* "Two reviewers racing on the same submission cannot both succeed": a level
\* above 0 - in the table, in the cache of any gateway, or in the hands of a
\* withdrawal - is one that an approval, not undone by another review, has
\* earned; and a submission that reviewers see has its documents, but for one
\* whose insert succeeded and reported an error.
LevelEarned ==
  LET Approved(u) == \E s \in Submissions : submission[s] = [status |-> "approved", user |-> u]
  IN  /\ \A u \in Applicants :
           /\ kycLevel[u] > 0 => Approved(u)
           /\ \A g \in KycGateways : kycCache[g][u].level > 0 => Approved(u)
           /\ \A w \in Payers : payer[w] # Idle0 /\ payer[w].user = u /\ payer[w].level > 0 => Approved(u)
      /\ \A s \in Submissions \ lostInsert : submission[s] # NoRow => s \in documents

\* "Approval also raises the user's kyc_level to 1" (pg_kyc.go): once its review
\* is over, an approved submission's user has level 1.  A failing or interrupted
\* second update leaves level 0.
ApprovalRaisesLevel ==
  \A s \in Submissions :
    submission[s].status = "approved" /\ (\A a \in KycAdmins : review[a] # Idle0 => review[a].id # s)
      => kycLevel[submission[s].user] = 1
===============================================================================
