------------------------------ MODULE WalletDesk -----------------------------
(***************************************************************************)
(* What changes wallet rows by itself, outside of trades and withdrawals:  *)
(* the deposits administrators credit, the deposit addresses users ask     *)
(* for and their transfers between accounts                                *)
(* (internal/api/wallet_handler.go over internal/wallet/service.go and     *)
(* internal/store/pg_wallet.go), for one asset.  A deposit is four         *)
(* statements of their own; a transfer is one transaction.                 *)
(***************************************************************************)
EXTENDS Integers, FiniteSets, FiniteSetsExt

CONSTANTS
  DeskUsers, DeskAccounts,   \* account types; a deposit goes to "spot"
  DeskSetups,                \* records with jobs, opening, faults
  Addresses                  \* what generation may return

(* A job is [kind |-> "deposit", user, hash, amount], [kind |-> "address",  *)
(* user] or [kind |-> "transfer", user, from, to, amount]; hash "" is none. *)
ASSUME DeskAssumption ==
  /\ "spot" \in DeskAccounts /\ "" \notin Addresses
  /\ \A s \in DeskSetups :
       /\ s.opening \in [DeskUsers -> Nat \cup {-1}]      \* spot balance, -1 without a row
       /\ s.faults \in Nat /\ IsFiniteSet(DOMAIN s.jobs)
       /\ \A j \in DOMAIN s.jobs :
            /\ s.jobs[j].kind \in {"deposit", "address", "transfer"} /\ s.jobs[j].user \in DeskUsers
            /\ s.jobs[j].kind # "address" => s.jobs[j].amount \in Nat \ {0}   \* else refused at once

VARIABLES
  deskSetup,
  rows,        \* wallets, by user and account type: [id, balance, address]
  entries,     \* transactions: [id, owner, amount]
  desk,        \* each job: where its handler is, and what it has read
  givenOut,    \* history: <<user, address>> answered
  deskCredits, \* history: credits that took effect: <<job, whether tried again>>
  deskFaults

deskVars == <<deskSetup, rows, entries, desk, givenOut, deskCredits, deskFaults>>

Jobs == DOMAIN deskSetup.jobs
Job(j) == deskSetup.jobs[j]
Spot(u) == <<u, "spot">>
Missing == [id |-> <<"none">>, balance |-> 0, address |-> ""]
Exists(w) == rows[w] # Missing
To(j, step) == desk' = [desk EXCEPT ![j].step = step]
NoFault == UNCHANGED deskFaults
DeskFault == deskFaults < deskSetup.faults /\ deskFaults' = deskFaults + 1

-----------------------------------------------------------------------------
(* Service.Deposit *)

Fresh(j) == <<"dep", j, desk[j].again>>     \* a uuid
TxId(j) == IF Job(j).hash = "" THEN Fresh(j) ELSE <<"hash", Job(j).hash>>
Taken(j) == \E e \in entries : e.id = TxId(j)

\* GetTx: any error counts as "no such transaction".
GetTx(j) ==
  /\ desk[j].step = "new" /\ Job(j).kind = "deposit"
  /\ \/ Taken(j) /\ To(j, "done") /\ NoFault
     \/ ~Taken(j) /\ To(j, "wallet") /\ NoFault
     \/ Job(j).hash # "" /\ To(j, "wallet") /\ DeskFault
  /\ UNCHANGED <<deskSetup, rows, entries, givenOut, deskCredits>>

WithWallet(j, step, id) == desk' = [desk EXCEPT ![j] = [step |-> step, again |-> @.again, wid |-> id]]

\* GetWallet: any error counts as "no wallet"; a new id is made up then.
GetWallet(j) ==
  /\ desk[j].step = "wallet"
  /\ \/ /\ Exists(Spot(Job(j).user)) /\ NoFault
        /\ WithWallet(j, "credit", rows[Spot(Job(j).user)].id)
     \/ /\ \/ ~Exists(Spot(Job(j).user)) /\ NoFault
           \/ DeskFault
        /\ WithWallet(j, "create", Fresh(j))
  /\ UNCHANGED <<deskSetup, rows, entries, givenOut, deskCredits>>

\* INSERT ... ON CONFLICT DO NOTHING: the row that is there keeps its id.
SaveWallet(j) ==
  LET w == Spot(Job(j).user)
  IN  /\ desk[j].step = "create"
      /\ \/ /\ To(j, "credit") /\ NoFault
            /\ rows' = IF Exists(w) THEN rows ELSE [rows EXCEPT ![w] = [Missing EXCEPT !.id = desk[j].wid]]
         \/ To(j, "done") /\ DeskFault /\ UNCHANGED rows
      /\ UNCHANGED <<deskSetup, entries, givenOut, deskCredits>>

\* UPDATE ... WHERE id: no error when no row has that id.
UpdateBalance(j) ==
  LET w == Spot(Job(j).user)
  IN  /\ desk[j].step = "credit"
      /\ \/ /\ IF rows[w].id = desk[j].wid
               THEN rows' = [rows EXCEPT ![w].balance = @ + Job(j).amount] /\ deskCredits' = deskCredits \cup {<<j, desk[j].again>>}
               ELSE UNCHANGED <<rows, deskCredits>>
            /\ \/ To(j, "record") /\ NoFault
               \/ To(j, "done") /\ DeskFault        \* took effect, the answer is an error
         \/ To(j, "done") /\ DeskFault /\ UNCHANGED <<rows, deskCredits>>
      /\ UNCHANGED <<deskSetup, entries, givenOut>>

\* MUTANT for LedgerBacked: transactions.wallet_id refers to nothing.
Mutant_NoForeignKey(wid) == TRUE
\* transactions.wallet_id REFERENCES wallets(id).
KnownWallet(wid) == \E w \in DOMAIN rows : rows[w].id = wid

\* The row of a hash that is there keeps its owner and amount.
Recorded(e) == IF \E o \in entries : o.id = e.id THEN entries ELSE entries \cup {e}

SaveTx(j) ==
  /\ desk[j].step = "record"
  /\ \/ /\ KnownWallet(desk[j].wid) /\ NoFault
        /\ entries' = Recorded([id |-> TxId(j), owner |-> Spot(Job(j).user), amount |-> Job(j).amount])
     \/ (DeskFault \/ (~KnownWallet(desk[j].wid) /\ NoFault)) /\ UNCHANGED entries
  /\ To(j, "done")
  /\ UNCHANGED <<deskSetup, rows, givenOut, deskCredits>>

\* An administrator who was answered an error, or not at all, tries again.
DepositAgain(j) ==
  /\ desk[j].step = "done" /\ Job(j).kind = "deposit" /\ ~desk[j].again
  /\ desk' = [desk EXCEPT ![j] = [step |-> "new", again |-> TRUE, wid |-> <<"none">>]]
  /\ UNCHANGED <<deskSetup, rows, entries, givenOut, deskCredits, deskFaults>>

-----------------------------------------------------------------------------
(* WalletHandler.GetDepositAddress *)

Answer(j, a) == To(j, "done") /\ givenOut' = givenOut \cup {<<Job(j).user, a>>}

\* An address that is there is answered; an error of the read is not noticed.
FindAddress(j) ==
  LET w == Spot(Job(j).user)
  IN  /\ desk[j].step = "new" /\ Job(j).kind = "address"
      /\ IF rows[w].address # "" THEN (Answer(j, rows[w].address) /\ NoFault) \/ (To(j, "generate") /\ DeskFault /\ UNCHANGED givenOut)
         ELSE To(j, "generate") /\ NoFault /\ UNCHANGED givenOut
      /\ UNCHANGED <<deskSetup, rows, entries, deskCredits>>

\* MUTANT for AddressKept: the candidate is answered instead of what is stored.
Mutant_LocalCandidate(stored, candidate) == candidate
AnswerOf(stored, candidate) == stored

\* A random address, new to everybody.
GenerateAddress == Addresses \ ({rows[w].address : w \in DOMAIN rows} \cup {g[2] : g \in givenOut})

\* AssignDepositAddress: the first address ever written stays.
AssignDepositAddress(j) ==
  LET w == Spot(Job(j).user)
  IN  /\ desk[j].step = "generate"
      /\ \/ \E a \in GenerateAddress :
              LET stored == IF rows[w].address = "" THEN a ELSE rows[w].address
              IN  /\ rows' = [rows EXCEPT ![w] =
                       [id |-> IF Exists(w) THEN @.id ELSE <<"addr", j>>, balance |-> @.balance, address |-> stored]]
                  /\ \/ Answer(j, AnswerOf(stored, a)) /\ NoFault
                     \/ To(j, "done") /\ DeskFault /\ UNCHANGED givenOut    \* the answer of the database is lost
         \/ To(j, "done") /\ DeskFault /\ UNCHANGED <<rows, givenOut>>
      /\ UNCHANGED <<deskSetup, entries, deskCredits>>

-----------------------------------------------------------------------------
(* WalletHandler.Transfer: one Settle with both legs and both entries *)

\* Answered without asking the database.
TransferRefused(j) == Job(j).from = Job(j).to \/ ~({Job(j).from, Job(j).to} \subseteq DeskAccounts)

Transfer(j) ==
  /\ desk[j].step = "new" /\ Job(j).kind = "transfer" /\ To(j, "done")
  /\ LET from == <<Job(j).user, Job(j).from>>
         to   == <<Job(j).user, Job(j).to>>
         made == [w \in DOMAIN rows |-> IF w \in {from, to} /\ ~Exists(w)
                                        THEN [Missing EXCEPT !.id = <<"set", w, j>>] ELSE rows[w]]
         gain(w) == IF w = to THEN Job(j).amount ELSE IF w = from THEN -Job(j).amount ELSE 0
     IN  \/ /\ ~TransferRefused(j) /\ rows[from].balance >= Job(j).amount
            /\ rows' = [w \in DOMAIN rows |-> [made[w] EXCEPT !.balance = @ + gain(w)]]
            /\ entries' = entries \cup {[id |-> <<"tf", j, 1>>, owner |-> from, amount |-> -Job(j).amount],
                                        [id |-> <<"tf", j, 2>>, owner |-> to, amount |-> Job(j).amount]}
            /\ NoFault
         \/ /\ TransferRefused(j) \/ rows[from].balance < Job(j).amount
            /\ NoFault /\ UNCHANGED <<rows, entries>>        \* everything is rolled back, the new rows too
         \/ DeskFault /\ UNCHANGED <<rows, entries>>
  /\ UNCHANGED <<deskSetup, givenOut, deskCredits>>

-----------------------------------------------------------------------------
\* The gateway dies with the requests it was serving.
DeskDies ==
  /\ DeskFault
  /\ desk' = [j \in Jobs |-> IF desk[j].step = "new" THEN desk[j] ELSE [desk[j] EXCEPT !.step = "done"]]
  /\ UNCHANGED <<deskSetup, rows, entries, givenOut, deskCredits>>

DeskInit ==
  /\ deskSetup \in DeskSetups
  /\ rows = [w \in DeskUsers \X DeskAccounts |->
       IF w[2] = "spot" /\ deskSetup.opening[w[1]] >= 0
       THEN [id |-> <<"old", w[1]>>, balance |-> deskSetup.opening[w[1]], address |-> ""] ELSE Missing]
  /\ entries = {[id |-> <<"old", u>>, owner |-> Spot(u), amount |-> deskSetup.opening[u]] :
                  u \in {v \in DeskUsers : deskSetup.opening[v] > 0}}
  /\ desk = [j \in Jobs |-> [step |-> "new", again |-> FALSE, wid |-> <<"none">>]]
  /\ givenOut = {} /\ deskCredits = {} /\ deskFaults = 0

DeskNext ==
  \/ \E j \in Jobs :
       \/ GetTx(j) \/ GetWallet(j) \/ SaveWallet(j) \/ UpdateBalance(j) \/ SaveTx(j) \/ DepositAgain(j)
       \/ FindAddress(j) \/ AssignDepositAddress(j) \/ Transfer(j)
  \/ DeskDies

DeskSpec == DeskInit /\ [][DeskNext]_deskVars

-----------------------------------------------------------------------------
(* Properties *)

\* What the ledger says is in the wallets: no entry without its credit, in
\* whatever order deposits to a user without a wallet, deposits of one hash,
\* transfers, failing statements and deaths come; and no balance is negative.
EntryAmount == [e \in entries |-> e.amount]
LedgerBacked ==
  \A w \in DOMAIN rows :
    /\ rows[w].balance >= 0
    /\ rows[w].balance >= MapThenSumSet(LAMBDA e : EntryAmount[e], {e \in entries : e.owner = w})

\* Every address a user was ever given is the one kept in the user's row, where
\* the verifier of deposits looks for it, and it is nobody else's.
AddressKept ==
  \A g \in givenOut :
    /\ rows[Spot(g[1])].address = g[2]
    /\ \A h \in givenOut : h[2] = g[2] => h[1] = g[1]

\* "It is idempotent on txHash: depositing the same txHash twice is a no-op"
\* (wallet/service.go).  The look-up, the credit and the entry that the look-up
\* would find are statements of their own.
DepositIdempotent ==
  \A i, j \in deskCredits : Job(i[1]).hash # "" /\ Job(i[1]).hash = Job(j[1]).hash => i = j
==============================================================================
