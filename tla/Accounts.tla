------------------------------ MODULE Accounts -------------------------------
(***************************************************************************)
(* Registration: Register and allocateUID of internal/api/auth_handler.go, *)
(* the users table (internal/store/pg_user.go), and the numeric user ids   *)
(* of internal/api/uid.go, a Feistel network over the values of a          *)
(* sequence with cycle walking, one digit width after the other.           *)
(*                                                                         *)
(* The widths are small here (the code has 9, 10 and 11 digits and blocks  *)
(* of 30, 34 and 38 bits, in 8 rounds) and the round functions arbitrary:  *)
(* what the code's functions do to their input is of no consequence for    *)
(* the ids being distinct.                                                 *)
(***************************************************************************)
EXTENDS Integers, Sequences, FiniteSets, Bitwise

CONSTANTS
  Domains,          \* one per digit width: its size, halfBits, and shift
  RoundFunctions,   \* what feistelRound may be: <<sequences of functions, one per round>>
  Emails, Registrations,
  Earlier,          \* how many accounts there may be to begin with: a set
  SeqFaults, CreateFaults

\* The indices of the widths before one.
SizeBefore(i) == LET sum[k \in 1..i] == IF k = 1 THEN 0 ELSE sum[k - 1] + Domains[k - 1].size IN sum[i]
Total == SizeBefore(Len(Domains)) + Domains[Len(Domains)].size

ASSUME AccountsAssumption ==
  /\ \A i \in 1..Len(Domains) :
       /\ Domains[i].size \in 1..2^(2 * Domains[i].half)
       /\ i < Len(Domains) => Domains[i].shift + Domains[i].size <= Domains[i + 1].shift
  /\ Earlier \subseteq 0..Total /\ SeqFaults \in Nat /\ CreateFaults \in Nat

VARIABLES
  rounds,        \* the round functions of the build
  uidSeq,        \* users_uid_seq, from 0: what the code takes off its start is left out
  usersTable,    \* rows: email and id
  registering,   \* each registration's step
  idTaken,       \* history: a registration was refused because of its id
  seqFailed, createFailed

accountVars == <<rounds, uidSeq, usersTable, registering, idTaken, seqFailed, createFailed>>

-----------------------------------------------------------------------------
(* uid.go *)

FeistelRound(x, i, half) == rounds[i][x] % 2^half

FeistelPermute(v, half) ==
  LET mix[i \in 0..Len(rounds)] ==
        IF i = 0 THEN <<v \div 2^half, v % 2^half>>
        ELSE LET h == mix[i - 1] IN <<h[2], h[1] ^^ FeistelRound(h[2], i, half)>>
      last == mix[Len(rounds)]
  IN  last[2] * 2^half + last[1]

\* MUTANT for IdsDistinct: a remainder instead of walking on.
Mutant_Remainder(v, d) == FeistelPermute(v, d.half) % d.size
RECURSIVE FeistelCycleWalk(_, _)
FeistelCycleWalk(v, d) ==
  LET w == FeistelPermute(v, d.half)
  IN  IF w < d.size THEN w ELSE FeistelCycleWalk(w, d)

Exhausted(idx) == idx >= Total
Width(idx) ==
  CHOOSE i \in 1..Len(Domains) : idx >= SizeBefore(i) /\ idx < SizeBefore(i) + Domains[i].size

ScrambleUID(idx) ==
  LET d == Domains[Width(idx)] IN FeistelCycleWalk(idx - SizeBefore(Width(idx)), d) + d.shift

-----------------------------------------------------------------------------
(* Register *)

NotStarted == [step |-> "start"]
Over == [step |-> "over"]

\* An email that is known, or a lookup that fails, which counts as unknown.
GetByEmail(r) ==
  /\ registering[r] = NotStarted
  /\ \E e \in Emails :
       \/ registering' = [registering EXCEPT ![r] = [step |-> "allocate", email |-> e]]
          /\ ((\A u \in usersTable : u.email # e) \/ seqFailed < SeqFaults)
       \/ registering' = [registering EXCEPT ![r] = Over] /\ \E u \in usersTable : u.email = e
  /\ UNCHANGED <<rounds, uidSeq, usersTable, idTaken, seqFailed, createFailed>>

\* A sequence value is used up whether an account comes of it or not.  Without
\* one, or past the last width, the id is a random one of the legacy kind.
AllocateUID(r) ==
  LET Take(id) == registering' = [registering EXCEPT ![r] = [step |-> "create", email |-> @.email, id |-> id]]
  IN  /\ registering[r].step = "allocate"
      /\ \/ /\ uidSeq' = uidSeq + 1 /\ UNCHANGED seqFailed
            /\ Take(IF Exhausted(uidSeq) THEN <<"usr", r>> ELSE <<"uid", ScrambleUID(uidSeq)>>)
         \/ /\ seqFailed < SeqFaults /\ seqFailed' = seqFailed + 1
            /\ Take(<<"usr", r>>) /\ (UNCHANGED uidSeq \/ uidSeq' = uidSeq + 1)
      /\ UNCHANGED <<rounds, usersTable, idTaken, createFailed>>

\* email is UNIQUE, id the primary key; both conflicts get the same answer.
Create(r) ==
  LET q == registering[r]
      row == [email |-> q.email, id |-> q.id]
      Taken(f(_)) == \E u \in usersTable : f(u) = f(row)
      known == Taken(LAMBDA u : u.email) \/ Taken(LAMBDA u : u.id)
  IN  /\ q.step = "create" /\ registering' = [registering EXCEPT ![r] = Over]
      /\ \/ /\ usersTable' = IF known THEN usersTable ELSE usersTable \cup {row}
            /\ idTaken' = (idTaken \/ Taken(LAMBDA u : u.id))
            /\ UNCHANGED createFailed
         \/ createFailed < CreateFaults /\ createFailed' = createFailed + 1 /\ UNCHANGED <<usersTable, idTaken>>
      /\ UNCHANGED <<rounds, uidSeq, seqFailed>>

\* Accounts registered before used up the sequence to there, to its end even.
AccountInit ==
  /\ rounds \in RoundFunctions /\ uidSeq \in Earlier
  /\ usersTable = {[email |-> <<"earlier", i>>, id |-> <<"uid", ScrambleUID(i)>>] : i \in 0..uidSeq - 1}
  /\ registering = [r \in Registrations |-> NotStarted]
  /\ idTaken = FALSE /\ seqFailed = 0 /\ createFailed = 0

AccountNext == \E r \in Registrations : GetByEmail(r) \/ AllocateUID(r) \/ Create(r)

AccountSpec == AccountInit /\ [][AccountNext]_accountVars

-----------------------------------------------------------------------------
(* Properties *)

\* "A bijection within each digit domain, and domains are consumed in order, so
\* outputs never collide across domains either": registrations racing for
\* emails and ids are never refused because of their id, every id has the width
\* its index says, and two accounts never share an email.
IdsDistinct ==
  /\ ~idTaken
  /\ \A u \in usersTable : u.id[1] = "uid" =>
       \E d \in {Domains[i] : i \in 1..Len(Domains)} : u.id[2] \in d.shift..d.shift + d.size - 1
  /\ \A u, v \in usersTable : u # v => u.email # v.email
===============================================================================
