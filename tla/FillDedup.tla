------------------------------ MODULE FillDedup ------------------------------
(***************************************************************************)
(* How gateways avoid settling a fill twice (internal/wallet/service.go,   *)
(* SettleFill): each process remembers the fills it has settled in a       *)
(* bounded set that forgets the least recently used ones and those too     *)
(* old (internal/wallet/lru.go), and claims a fill in the shared store     *)
(* before settling it when there is one (internal/wallet/shared_store.go). *)
(* What settling does to wallets is the subject of Settlement; here fills  *)
(* come again, late, at another process, after a restart, while calls of   *)
(* the store and of the database fail or lose their answers.               *)
(***************************************************************************)
EXTENDS Integers, Sequences, FiniteSets

CONSTANTS
  FillIds, Gateways,
  DedupSetups    \* records: shared, processes, fills, capacity, ttl, deliveries, maxTime, faults

ASSUME DedupAssumption ==
  \A s \in DedupSetups :
    /\ s.shared \in BOOLEAN          \* is a shared store attached
    /\ s.processes \subseteq Gateways /\ s.fills \subseteq FillIds
    /\ s.capacity \in Nat \ {0}      \* of a process's memory (100_000)
    /\ s.ttl \in Nat \ {0}           \* of its records, and of claims (24 h)
    /\ s.deliveries \in Nat /\ s.maxTime \in Nat /\ s.faults \in Nat   \* bounds

VARIABLES
  dedupSetup, clock,
  lru,        \* fillLRU of each process: records [fill, at], most recently used first
  claimed,    \* keys of the shared store: <<fill, when claimed>>
  settling,   \* SettleFill at each process
  life,       \* history: restarts of each process
  accesses,   \* history: records [by, fill, at] of what a process added or hit
  done,       \* history: settlements, with what the process knew
  spent       \* bounded: deliveries, faults

dedupVars == <<dedupSetup, clock, lru, claimed, settling, life, accesses, done, spent>>

NotSettling == [step |-> "idle"]
Who(g) == <<g, life[g]>>
Works == UNCHANGED spent
Breaks == spent.faults < dedupSetup.faults /\ spent' = [spent EXCEPT !.faults = @ + 1]
At(g, step) == settling' = [settling EXCEPT ![g].step = step]

-----------------------------------------------------------------------------
(* fillLRU *)

Expired(e) == clock - e.at > dedupSetup.ttl
Holds(l, f) == \E i \in DOMAIN l : l[i].fill = f
Without(l, f) ==
  IF ~Holds(l, f) THEN l
  ELSE LET i == CHOOSE i \in DOMAIN l : l[i].fill = f
       IN  SubSeq(l, 1, i - 1) \o SubSeq(l, i + 1, Len(l))
Known(l, f) == \E i \in DOMAIN l : l[i].fill = f /\ ~Expired(l[i])

\* MUTANT for NotSettledAgain: a hit leaves the record where it is.
Mutant_Unmoved(l, f) ==
  IF Holds(l, f) THEN [i \in DOMAIN l |-> IF l[i].fill = f THEN [fill |-> f, at |-> clock] ELSE l[i]]
  ELSE <<[fill |-> f, at |-> clock]>> \o l
\* A hit or an addition moves the record to the front.
ToFront(l, f) == <<[fill |-> f, at |-> clock]>> \o Without(l, f)

\* evict: what is beyond the capacity, then what has expired, from the back.
Evicted(l) ==
  LET short == SubSeq(l, 1, IF Len(l) > dedupSetup.capacity THEN dedupSetup.capacity ELSE Len(l))
      live  == {i \in DOMAIN short : ~Expired(short[i])}
  IN  SubSeq(short, 1, IF live = {} THEN 0 ELSE CHOOSE i \in live : \A j \in live : j <= i)

Accessed(g, f) == accesses' = Append(accesses, [by |-> Who(g), fill |-> f, at |-> clock])

AddFill(g, f) ==
  /\ lru' = [lru EXCEPT ![g] =
       IF Holds(@, f) THEN ToFront(@, f) ELSE Evicted(ToFront(@, f))]
  /\ Accessed(g, f)

-----------------------------------------------------------------------------
(* SettleFill, step by step *)

\* A fill arrives, again perhaps, at any process.
SettleFill(g, f) ==
  /\ settling[g] = NotSettling /\ spent.deliveries < dedupSetup.deliveries
  /\ spent' = [spent EXCEPT !.deliveries = @ + 1]
  /\ IF Known(lru[g], f)
     THEN lru' = [lru EXCEPT ![g] = ToFront(@, f)] /\ Accessed(g, f) /\ UNCHANGED settling
     ELSE /\ lru' = [lru EXCEPT ![g] = Without(@, f)]
          /\ settling' = [settling EXCEPT ![g] =
               [step |-> IF dedupSetup.shared THEN "claim" ELSE "settle", fill |-> f, claimedAt |-> -1,
                asked |-> clock, after |-> Len(accesses)]]
          /\ UNCHANGED accesses
  /\ UNCHANGED <<dedupSetup, clock, claimed, life, done>>

Claimed(f) == \E c \in claimed : c[1] = f

\* SETNX: claimed by this process, by another before it, or unknown: the error
\* is logged once and the process goes on by itself.
SetNX(g) ==
  LET f == settling[g].fill
  IN  /\ settling[g].step = "claim"
      /\ \/ /\ ~Claimed(f) /\ Works /\ claimed' = claimed \cup {<<f, clock>>}
            /\ settling' = [settling EXCEPT ![g].step = "settle", ![g].claimedAt = clock]
            /\ UNCHANGED <<lru, accesses>>
         \/ /\ Claimed(f) /\ Works /\ AddFill(g, f)
            /\ settling' = [settling EXCEPT ![g] = NotSettling] /\ UNCHANGED claimed
         \/ /\ Breaks /\ At(g, "settle") /\ UNCHANGED <<lru, accesses>>
            /\ \/ UNCHANGED claimed
               \/ ~Claimed(f) /\ claimed' = claimed \cup {<<f, clock>>}      \* the answer was lost
      /\ UNCHANGED <<dedupSetup, clock, life, done>>

Settlement(g, answered) ==
  done' = Append(done, [fill |-> settling[g].fill, by |-> Who(g), claimedAt |-> settling[g].claimedAt, answered |-> answered,
                        at |-> clock, asked |-> settling[g].asked, after |-> settling[g].after])

\* The transaction of all wallets and ledger entries.
SettleWallets(g) ==
  /\ settling[g].step = "settle"
  /\ \/ Works /\ Settlement(g, TRUE) /\ At(g, "add")
     \/ /\ Breaks /\ (UNCHANGED done \/ Settlement(g, FALSE))      \* failed, or its answer was lost
        /\ settling' = [settling EXCEPT ![g] = IF @.claimedAt >= 0 THEN [@ EXCEPT !.step = "unclaim"] ELSE NotSettling]
  /\ UNCHANGED <<dedupSetup, clock, lru, claimed, life, accesses>>

\* The claim is given up, so that another process or a retry can settle.
Unclaim(g) ==
  /\ settling[g].step = "unclaim" /\ settling' = [settling EXCEPT ![g] = NotSettling]
  /\ \/ Works /\ claimed' = {c \in claimed : c[1] # settling[g].fill}
     \/ Breaks /\ UNCHANGED claimed
  /\ UNCHANGED <<dedupSetup, clock, lru, life, accesses, done>>

Add(g) ==
  /\ settling[g].step = "add" /\ AddFill(g, settling[g].fill)
  /\ settling' = [settling EXCEPT ![g] = NotSettling]
  /\ UNCHANGED <<dedupSetup, clock, claimed, life, done, spent>>

-----------------------------------------------------------------------------
\* A process dies and starts again with nothing.
Restart(g) ==
  /\ Breaks /\ lru' = [lru EXCEPT ![g] = <<>>] /\ settling' = [settling EXCEPT ![g] = NotSettling]
  /\ life' = [life EXCEPT ![g] = @ + 1]
  /\ UNCHANGED <<dedupSetup, clock, claimed, accesses, done>>

\* Assumed: nobody takes as long as a claim lasts, a day, to settle a fill.
\* (The claim it then gives up may be another's.)
NobodyStallsADay ==
  \A g \in dedupSetup.processes : settling[g] # NotSettling => clock - settling[g].asked < dedupSetup.ttl

DedupTick ==
  /\ clock < dedupSetup.maxTime /\ NobodyStallsADay /\ clock' = clock + 1
  /\ claimed' = {c \in claimed : clock' - c[2] <= dedupSetup.ttl}
  /\ UNCHANGED <<dedupSetup, lru, settling, life, accesses, done, spent>>

DedupInit ==
  /\ dedupSetup \in DedupSetups /\ clock = 0
  /\ lru = [g \in Gateways |-> <<>>] /\ claimed = {} /\ settling = [g \in Gateways |-> NotSettling]
  /\ life = [g \in Gateways |-> 0] /\ accesses = <<>> /\ done = <<>>
  /\ spent = [deliveries |-> 0, faults |-> 0]

DedupNext ==
  \/ \E g \in dedupSetup.processes :
       \/ \E f \in dedupSetup.fills : SettleFill(g, f)
       \/ SetNX(g) \/ SettleWallets(g) \/ Unclaim(g) \/ Add(g) \/ Restart(g)
  \/ DedupTick

DedupSpec == DedupInit /\ [][DedupNext]_dedupVars

-----------------------------------------------------------------------------
(* Properties *)

\* The process that made settlement s remembered the fill until then: it used
\* the record no longer ago than the ttl, and fewer others than it has room for
\* since.
Remembered(s) ==
  \E i \in 1..s.after :
    /\ accesses[i].fill = s.fill /\ accesses[i].by = s.by /\ s.asked - accesses[i].at <= dedupSetup.ttl
    /\ Cardinality({accesses[k].fill : k \in {n \in i..s.after : accesses[n].by = s.by}} \ {s.fill}) < dedupSetup.capacity

\* "Eviction ... never discards recently seen fills, so a replayed recent fill
\* cannot be settled twice" (lru.go), and with a shared store "two instances
\* consuming the same fill event settle it exactly once" (shared_store.go): a
\* fill is settled again only when the process had to forget it and the claim
\* was not made, had expired, or was given up because the first settlement
\* never reported that it had succeeded.
NotSettledAgain ==
  \A i, j \in DOMAIN done : i < j /\ done[i].fill = done[j].fill =>
    /\ ~Remembered(done[j])
    /\ ~(done[i].claimedAt >= 0 /\ done[i].answered /\ done[j].claimedAt - done[i].claimedAt \in 0..dedupSetup.ttl)
==============================================================================
