---------------------------- MODULE DepositClaims ----------------------------
(***************************************************************************)
(* Manual deposit claims: a user submits the txid of a transfer; the       *)
(* request that files the claim (internal/api/deposit_claim_handler.go)    *)
(* checks it on chain through several RPC calls while the chain grows      *)
(* (internal/wallet/deposit_verify.go) and approves it on a full match;    *)
(* administrators review what is pending at the same time.  Approval, the  *)
(* credit of the spot wallet and its ledger entry are one transaction      *)
(* (internal/store/pg_deposit_claims.go) whose guarded UPDATE decides who  *)
(* comes first.  Calls and statements may fail, a commit may take effect   *)
(* and still report an error, and the gateway may die.                     *)
(*                                                                         *)
(* Claims, transfers and addresses are small sets; the text of notes and   *)
(* the screenshot on disk are left out.                                    *)
(***************************************************************************)
EXTENDS Integers, Sequences, FiniteSets, FiniteSetsExt

CONSTANTS
  ClaimUsers, Admins,
  ClaimSets,     \* instances: what is claimed, by claim id
  TxOf,          \* the chain transaction a txid denotes: "none" if there is none
  Transfers,     \* the chain's transactions
  DepositAddress,  \* the users' platform deposit addresses, "" before one is made
  MinConf, MaxHead, MaxClaimFaults  \* confirmation floor; bounds: chain height, faults

NoAddress == ""
Networks  == {"eth-mainnet", "base-mainnet"}   \* two of the whitelist, alike otherwise
ASSUME ClaimAssumption ==
  /\ MinConf \in Nat \ {0} /\ MaxHead \in Nat /\ MaxClaimFaults \in Nat
  /\ DepositAddress \in [ClaimUsers -> STRING]
  /\ \A s \in ClaimSets : IsFiniteSet(DOMAIN s) /\ DOMAIN s \cap Admins = {}
  /\ \A s \in ClaimSets : \A c \in DOMAIN s :
       /\ s[c].user \in ClaimUsers /\ s[c].amount \in Nat \ {0}
       /\ s[c].txid \in DOMAIN TxOf
  /\ \A t \in DOMAIN Transfers : Transfers[t].block \in Nat /\ Transfers[t].ok \in BOOLEAN

VARIABLES
  filed,      \* the one of ClaimSets this behaviour is about
  claims,     \* rows of deposit_claims: "absent" until submitted
  request,    \* where the submitting requests are, and what they have learnt
  tx,         \* open database transactions, by request or administrator
  credited,   \* spot balances, as far as claims credited them
  ledger,     \* deposit entries of the transactions table: their claims
  head,       \* height of the chain
  claimFaults

claimVars == <<filed, claims, request, tx, credited, ledger, head, claimFaults>>

Ids      == DOMAIN filed
Absent   == [status |-> "absent", auto |-> FALSE, note |-> "none"]
NoTx     == [step |-> "none"]
Reviewers == Ids \cup Admins        \* a claim's own request is the automatic one

-----------------------------------------------------------------------------
(* The verifier *)

IsValidNetwork(n)        == n \in Networks
IsAutoVerifiableAsset(a) == a \in {"ETH", "USDT", "USDC"}
\* Base has no canonical USDT.
HasContract(n, a)        == ~(n = "base-mainnet" /\ a = "USDT")

Mined(t, n) == t \in DOMAIN Transfers /\ Transfers[t].network = n /\ Transfers[t].block <= head

\* Decided before any call to the chain.
RefusedUnseen(cl) ==
  \/ ~IsValidNetwork(cl.network) \/ DepositAddress[cl.user] = NoAddress \/ ~cl.wellFormed

\* MUTANT for AutoApprovedOnChain: a head that cannot be read counts as deep enough.
Mutant_UnknownIsEnough(conf) == conf \in 0..(MinConf - 1)
TooShallow(conf) == conf < MinConf

Matches(cl, out) == out.to = DepositAddress[cl.user] /\ out.value >= cl.amount
VerifyNative(cl, t) == cl.asset = "ETH" /\ Matches(cl, Transfers[t].native)
VerifyERC20(cl, t) ==
  /\ cl.asset # "ETH" /\ HasContract(cl.network, cl.asset)
  /\ \E lg \in Transfers[t].logs : lg.asset = cl.asset /\ Matches(cl, lg)

-----------------------------------------------------------------------------
(* The submitting request *)

Go(c, step) == request' = [request EXCEPT ![c].step = step]
Fault == claimFaults < MaxClaimFaults /\ claimFaults' = claimFaults + 1

\* The UNIQUE constraint on txid answers a second submission with 409.
Submit(c) ==
  /\ request[c].step = "new"
  /\ IF \E d \in Ids : claims[d].status # "absent" /\ filed[d].txid = filed[c].txid
     THEN Go(c, "done") /\ claims' = claims
     ELSE /\ claims' = [claims EXCEPT ![c].status = "pending"]
          /\ Go(c, IF IsAutoVerifiableAsset(filed[c].asset) THEN "lookup" ELSE "done")
  /\ UNCHANGED <<filed, tx, credited, ledger, head, claimFaults>>

\* The address is read from the database, then the checks that need no chain.
LookupAddress(c) ==
  /\ request[c].step = "lookup"
  /\ \/ Go(c, IF RefusedUnseen(filed[c]) THEN "note" ELSE "receipt") /\ UNCHANGED claimFaults
     \/ Go(c, "note") /\ Fault
  /\ UNCHANGED <<filed, claims, tx, credited, ledger, head>>

\* A failed call: the whole verification is tried once more, then given up.
Retry(c) ==
  /\ Fault
  /\ request' = [request EXCEPT ![c] =
       IF @.retried THEN [@ EXCEPT !.step = "note"]
       ELSE [@ EXCEPT !.step = "receipt", !.retried = TRUE]]

GetReceipt(c) ==
  /\ request[c].step = "receipt"
  /\ LET t == TxOf[filed[c].txid] IN
     \/ Go(c, IF Mined(t, filed[c].network) /\ Transfers[t].ok THEN "head" ELSE "note")
        /\ UNCHANGED claimFaults
     \/ Retry(c)
  /\ UNCHANGED <<filed, claims, tx, credited, ledger, head>>

\* A head that cannot be read makes the confirmations unknown: -1.
BlockNumber(c) ==
  /\ request[c].step = "head"
  /\ LET t == TxOf[filed[c].txid]
         Next(conf) ==
           request' = [request EXCEPT ![c].step = IF TooShallow(conf) THEN "note" ELSE "match"]
     IN  \/ Next(head - Transfers[t].block + 1) /\ UNCHANGED claimFaults
         \/ Next(-1) /\ Fault
  /\ UNCHANGED <<filed, claims, tx, credited, ledger, head>>

\* ETH needs one more call for the transaction itself; tokens match the logs of
\* the receipt.
MatchTransfer(c) ==
  /\ request[c].step = "match"
  /\ LET t == TxOf[filed[c].txid] IN
     \/ /\ Go(c, IF VerifyNative(filed[c], t) \/ VerifyERC20(filed[c], t) THEN "approve" ELSE "note")
        /\ UNCHANGED claimFaults
     \/ filed[c].asset = "ETH" /\ Retry(c)
  /\ UNCHANGED <<filed, claims, tx, credited, ledger, head>>

\* Written whatever the claim's status is by now; its own failure is ignored.
RecordVerifyNote(c) ==
  /\ request[c].step = "note"
  /\ \/ claims' = [claims EXCEPT ![c].note = "manual"] /\ UNCHANGED claimFaults
     \/ claims' = claims /\ Fault
  /\ Go(c, "done")
  /\ UNCHANGED <<filed, tx, credited, ledger, head>>

-----------------------------------------------------------------------------
(* The approving transaction of request or administrator p *)

\* ReviewClaim and AutoApproveClaim begin by reading the row.
Select(p, c, action) ==
  /\ tx[p] = NoTx /\ claims[c].status # "absent"
  /\ tx' = [tx EXCEPT ![p] = [step |-> "update", claim |-> c, action |-> action]]

AutoApproveClaim(c) ==
  /\ request[c].step = "approve"
  /\ Select(c, c, "approved")
  /\ Go(c, "approving")
  /\ UNCHANGED <<filed, claims, credited, ledger, head, claimFaults>>

AdminReview(p) ==
  /\ \E c \in Ids, action \in {"approved", "rejected"} : Select(p, c, action)
  /\ UNCHANGED <<filed, claims, request, credited, ledger, head, claimFaults>>

\* The transaction is over; the automatic reviewer notes a failure.
Ended(p, approved) ==
  /\ tx' = [tx EXCEPT ![p] = NoTx]
  /\ IF p \in Ids THEN Go(p, IF approved THEN "done" ELSE "note") ELSE request' = request

\* MUTANT for CreditedOnce: the update does not ask for a pending claim.
Mutant_Unguarded(c) == claims[c].status # "absent"
Pending(c) == claims[c].status = "pending"

\* UPDATE ... WHERE status = 'pending' waits for the row's lock and then sees
\* what the transaction before it committed.
Update(p) ==
  /\ tx[p].step = "update"
  /\ \A q \in Reviewers : tx[q].step = "commit" => tx[q].claim # tx[p].claim
  /\ IF Pending(tx[p].claim)
     THEN tx' = [tx EXCEPT ![p].step = "commit"] /\ request' = request
     ELSE Ended(p, FALSE)
  /\ UNCHANGED <<filed, claims, credited, ledger, head, claimFaults>>

\* The credit, the ledger entry and the status become visible together.
Committed(p) ==
  LET c == tx[p].claim
      yes == tx[p].action = "approved"
  IN  /\ claims' = [claims EXCEPT ![c] =
           [status |-> tx[p].action, auto |-> p \in Ids, note |-> IF p \in Ids THEN "auto" ELSE @.note]]
      /\ credited' = IF yes THEN [credited EXCEPT ![filed[c].user] = @ + filed[c].amount] ELSE credited
      /\ ledger' = IF yes THEN Append(ledger, c) ELSE ledger

Commit(p) ==
  /\ tx[p].step = "commit"
  /\ Committed(p)
  /\ \/ Ended(p, TRUE) /\ UNCHANGED claimFaults
     \/ Ended(p, FALSE) /\ Fault            \* committed, but the answer was lost
  /\ UNCHANGED <<filed, head>>

\* A statement fails: everything the transaction did is undone.
Rollback(p) ==
  /\ tx[p] # NoTx /\ Fault
  /\ Ended(p, FALSE)
  /\ UNCHANGED <<filed, claims, credited, ledger, head>>

-----------------------------------------------------------------------------
NewBlock == head < MaxHead /\ head' = head + 1
            /\ UNCHANGED <<filed, claims, request, tx, credited, ledger, claimFaults>>

\* The gateway dies: requests and open transactions with it.
GatewayDies ==
  /\ Fault
  /\ request' = [c \in Ids |-> IF request[c].step = "new" THEN request[c] ELSE [request[c] EXCEPT !.step = "done"]]
  /\ tx' = [p \in Reviewers |-> NoTx]
  /\ UNCHANGED <<filed, claims, credited, ledger, head>>

ClaimInit ==
  /\ filed \in ClaimSets
  /\ claims = [c \in Ids |-> Absent]
  /\ request = [c \in Ids |-> [step |-> "new", retried |-> FALSE]]
  /\ tx = [p \in Reviewers |-> NoTx]
  /\ credited = [u \in ClaimUsers |-> 0]
  /\ ledger = <<>>
  /\ head = 0 /\ claimFaults = 0

RequestStep(c) ==
  \/ Submit(c) \/ LookupAddress(c) \/ GetReceipt(c) \/ BlockNumber(c) \/ MatchTransfer(c)
  \/ RecordVerifyNote(c) \/ AutoApproveClaim(c)
TxStep(p) == Update(p) \/ Commit(p)

ClaimNext ==
  \/ \E c \in Ids : RequestStep(c)
  \/ \E p \in Admins : AdminReview(p)
  \/ \E p \in Reviewers : TxStep(p) \/ Rollback(p)
  \/ NewBlock \/ GatewayDies

ClaimSpec == ClaimInit /\ [][ClaimNext]_claimVars

-----------------------------------------------------------------------------
(* Properties *)

\* A claim is credited exactly when it is approved and once however many
\* reviewers, retries and lost answers there were: the balance and the ledger
\* are those of the approved claims, and no two claims share a txid.
Approved == {c \in Ids : claims[c].status = "approved"}
Amounts  == [c \in Ids |-> filed[c].amount]
CreditedOnce ==
  /\ \A u \in ClaimUsers :
       credited[u] = MapThenSumSet(LAMBDA c : Amounts[c], {c \in Approved : filed[c].user = u})
  /\ Len(ledger) = Cardinality(Approved) /\ {ledger[i] : i \in 1..Len(ledger)} = Approved
  /\ \A c, d \in Approved : filed[c].txid = filed[d].txid => c = d

\* What the verifier approved by itself is on the chain: a successful transfer
\* of the asset on the claimed network, to the claimant's own deposit address,
\* of at least the amount, with the confirmations asked for - although the
\* calls that established this were made at different heights, some twice.
AutoApprovedOnChain ==
  \A c \in Approved : claims[c].auto =>
    LET cl == filed[c]
        t  == TxOf[cl.txid]
    IN  /\ Mined(t, cl.network) /\ Transfers[t].ok
        /\ head - Transfers[t].block + 1 >= MinConf
        /\ \E out \in {[asset |-> "ETH", to |-> Transfers[t].native.to, value |-> Transfers[t].native.value]} \cup Transfers[t].logs :
             out.asset = cl.asset /\ out.to = DepositAddress[cl.user] /\ out.value >= cl.amount

\* "txid carries a global UNIQUE constraint so the same on-chain transaction
\* can never be credited twice" (012_deposit_claims.sql).  A txid's letters may be
\* written in either case: the constraint compares strings, the chain numbers.
TransferCreditedOnce ==
  \A c, d \in Approved : claims[c].auto /\ claims[d].auto /\ TxOf[filed[c].txid] = TxOf[filed[d].txid] => c = d
==============================================================================
