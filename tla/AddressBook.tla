----------------------------- MODULE AddressBook -----------------------------
(***************************************************************************)
(* The addresses a user may withdraw to, in one asset                      *)
(* (internal/wallet/withdrawal.go, internal/store/pg_address_whitelist.go, *)
(* internal/api/admin_handler.go): administrators add and remove them at   *)
(* some gateway while withdrawals look them up at another.  They are rows  *)
(* of a table, under their lower-case spelling, or entries of a list in    *)
(* the memory of a gateway that runs without a database.                   *)
(***************************************************************************)
EXTENDS Integers, Sequences, FiniteSets, SequencesExt

CONSTANTS
  LowerCase,      \* maps each spelling of an address to its lower-case one
  BookSetups,     \* records with store, gateways, admins, payouts, calls, faults
  BookAdmins, BookPayouts

ASSUME BookAssumption ==
  \A s \in BookSetups :
    /\ s.store \in BOOLEAN                    \* whether a database is wired
    /\ s.admins \subseteq BookAdmins /\ s.payouts \subseteq BookPayouts
    /\ s.calls \in Nat /\ s.faults \in Nat    \* bounds: calls of administrators; failures and restarts

VARIABLES
  bookSetup,
  whitelist,    \* the rows of the table
  book,         \* each gateway's own list
  amending,     \* what each administrator's request is doing
  payout,       \* what each withdrawal request is doing
  word,         \* history: what administrators were last told of an address at a gateway
  bookCalls, bookFaults

bookVars == <<bookSetup, whitelist, book, amending, payout, word, bookCalls, bookFaults>>

BookGateways == bookSetup.gateways
Spellings == DOMAIN LowerCase
Same(s, t) == LowerCase[s] = LowerCase[t]
NoCall == [step |-> "none"]

-----------------------------------------------------------------------------
(* What an administrator knows *)

\* A database is everybody's, a list in memory only its gateway's.
Reach(g) == IF bookSetup.store THEN BookGateways ELSE {g}

\* The administrators have been told w of s; a request under way has met it.
Told(g, s, w) ==
  /\ word' = [h \in BookGateways |-> [t \in Spellings |-> IF h \in Reach(g) /\ Same(s, t) THEN w ELSE word[h][t]]]
  /\ payout' = [p \in BookPayouts |->
       IF payout[p].step = "asked" /\ payout[p].by \in Reach(g) /\ Same(s, payout[p].address)
       THEN [payout[p] EXCEPT !.met = @ \cup {w}] ELSE payout[p]]

\* The requests that are amending s, too: when they overlap, neither answer is
\* certain to be the last word.
Rivals(g, s) ==
  {a \in BookAdmins : amending[a] # NoCall /\ amending[a].by \in Reach(g) /\ Same(amending[a].address, s)}

-----------------------------------------------------------------------------
(* AdminHandler.AddAddress and RemoveAddress *)

Amend(a, g, op, s) ==
  /\ amending[a] = NoCall /\ bookCalls < bookSetup.calls /\ bookCalls' = bookCalls + 1
  /\ amending' = [b \in BookAdmins |->
       IF b = a THEN [step |-> op, by |-> g, address |-> s, alone |-> Rivals(g, s) = {}]
       ELSE IF b \in Rivals(g, s) THEN [amending[b] EXCEPT !.alone = FALSE] ELSE amending[b]]
  /\ Told(g, s, "unknown")
  /\ UNCHANGED <<bookSetup, whitelist, book, bookFaults>>

\* Mutant: the row keeps the spelling that was submitted.
Mutant_RawSpelling(s) == s
Normalised(s) == LowerCase[s]

AddWhitelistAddress(s)    == whitelist' = whitelist \cup {Normalised(s)}
RemoveWhitelistAddress(s) == whitelist' = whitelist \ {LowerCase[s]}

EqualFold(g, s) == SelectInSeq(book[g], LAMBDA t : Same(s, t))
AddEntry(g, s)    == book' = IF EqualFold(g, s) # 0 THEN book ELSE [book EXCEPT ![g] = Append(@, s)]
RemoveEntry(g, s) == book' = IF EqualFold(g, s) = 0 THEN book ELSE [book EXCEPT ![g] = RemoveAt(@, EqualFold(g, s))]

Becomes(a, step) == amending' = [amending EXCEPT ![a].step = step]

\* WithdrawalService.AddAddress; an answer that gets lost is an error, too.
AddAddress(a) ==
  LET c == amending[a]
  IN  /\ c.step = "add"
      /\ \/ bookSetup.store /\ AddWhitelistAddress(c.address) /\ UNCHANGED <<book, bookFaults>> /\ Becomes(a, "in")
         \/ ~bookSetup.store /\ AddEntry(c.by, c.address) /\ UNCHANGED <<whitelist, bookFaults>> /\ Becomes(a, "in")
         \/ /\ bookSetup.store /\ bookFaults < bookSetup.faults /\ bookFaults' = bookFaults + 1
            /\ UNCHANGED whitelist \/ AddWhitelistAddress(c.address)
            /\ UNCHANGED book /\ Becomes(a, "unknown")
      /\ UNCHANGED <<bookSetup, payout, word, bookCalls>>

\* WithdrawalService.RemoveAddress
RemoveAddress(a) ==
  LET c == amending[a]
  IN  /\ c.step = "remove"
      /\ \/ bookSetup.store /\ RemoveWhitelistAddress(c.address) /\ UNCHANGED <<book, bookFaults>> /\ Becomes(a, "out")
         \/ ~bookSetup.store /\ RemoveEntry(c.by, c.address) /\ UNCHANGED <<whitelist, bookFaults>> /\ Becomes(a, "out")
         \/ /\ bookSetup.store /\ bookFaults < bookSetup.faults /\ bookFaults' = bookFaults + 1
            /\ UNCHANGED whitelist \/ RemoveWhitelistAddress(c.address)
            /\ UNCHANGED book /\ Becomes(a, "unknown")
      /\ UNCHANGED <<bookSetup, payout, word, bookCalls>>

AnswerAdmin(a) ==
  LET c == amending[a]
  IN  /\ c.step \in {"in", "out", "unknown"}
      /\ amending' = [amending EXCEPT ![a] = NoCall]
      /\ Told(c.by, c.address, IF c.alone THEN c.step ELSE "unknown")
      /\ UNCHANGED <<bookSetup, whitelist, book, bookCalls, bookFaults>>

-----------------------------------------------------------------------------
(* RequestWithdrawal, up to the reservation *)

AskWithdrawal(p, g, s) ==
  /\ payout[p].step = "none"
  /\ payout' = [payout EXCEPT ![p] = [step |-> "asked", by |-> g, address |-> s, met |-> {word[g][s]}]]
  /\ UNCHANGED <<bookSetup, whitelist, book, amending, word, bookCalls, bookFaults>>

Whitelisted(g, s) ==
  IF bookSetup.store THEN LowerCase[s] \in whitelist ELSE EqualFold(g, s) # 0

\* A look-up that fails refuses the withdrawal.
CheckWhitelist(p) ==
  /\ payout[p].step = "asked"
  /\ \/ /\ payout' = [payout EXCEPT ![p].step =
             IF Whitelisted(payout[p].by, payout[p].address) THEN "passed" ELSE "not_whitelisted"]
        /\ UNCHANGED bookFaults
     \/ /\ bookSetup.store /\ bookFaults < bookSetup.faults /\ bookFaults' = bookFaults + 1
        /\ payout' = [payout EXCEPT ![p].step = "failed"]
  /\ UNCHANGED <<bookSetup, whitelist, book, amending, word, bookCalls>>

\* A gateway forgets its list and the requests it was serving.
RestartBook(g) ==
  /\ bookFaults < bookSetup.faults /\ bookFaults' = bookFaults + 1
  /\ book' = [book EXCEPT ![g] = <<>>]
  /\ amending' = [a \in BookAdmins |-> IF amending[a] # NoCall /\ amending[a].by = g THEN NoCall ELSE amending[a]]
  /\ payout' = [p \in BookPayouts |->
       IF payout[p].step = "asked" /\ payout[p].by = g THEN [payout[p] EXCEPT !.step = "failed"] ELSE payout[p]]
  /\ word' = [h \in BookGateways |-> [t \in Spellings |-> IF ~bookSetup.store /\ h = g THEN "out" ELSE word[h][t]]]
  /\ UNCHANGED <<bookSetup, whitelist, bookCalls>>

-----------------------------------------------------------------------------
BookInit ==
  /\ bookSetup \in BookSetups
  /\ whitelist = {} /\ book = [g \in BookGateways |-> <<>>]
  /\ amending = [a \in BookAdmins |-> NoCall] /\ payout = [p \in BookPayouts |-> NoCall]
  /\ word = [g \in BookGateways |-> [s \in Spellings |-> "out"]]
  /\ bookCalls = 0 /\ bookFaults = 0

BookNext ==
  \/ \E g \in BookGateways, s \in Spellings :
       \/ \E a \in bookSetup.admins, op \in {"add", "remove"} : Amend(a, g, op, s)
       \/ \E p \in bookSetup.payouts : AskWithdrawal(p, g, s)
  \/ \E a \in bookSetup.admins : AddAddress(a) \/ RemoveAddress(a) \/ AnswerAdmin(a)
  \/ \E p \in bookSetup.payouts : CheckWhitelist(p)
  \/ \E g \in BookGateways : RestartBook(g)

BookSpec == BookInit /\ [][BookNext]_bookVars

-----------------------------------------------------------------------------
(* Properties *)

\* "Every admin change is visible to subsequent withdrawal checks and survives
\* restarts" (withdrawal.go): an address administrators were told is listed,
\* before the request and throughout it, is not refused, and one they were told
\* is not listed does not pass, at any gateway and in any spelling, whatever
\* fails.  Without a database this holds of each gateway's own list.
WhitelistHonoured ==
  \A p \in BookPayouts :
    /\ payout[p].step = "passed" => payout[p].met # {"out"}
    /\ payout[p].step = "not_whitelisted" => payout[p].met # {"in"}
==============================================================================
