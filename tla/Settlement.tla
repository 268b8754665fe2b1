----------------------------- MODULE Settlement -----------------------------
(***************************************************************************)
(* The money side of spot trading in one api-gateway process: PlaceOrder   *)
(* and CancelOrder (internal/api/order_handler.go) reserve and release     *)
(* funds through wallet.Service (internal/wallet/service.go), the engine   *)
(* emits fills into a channel, and the bridge (internal/wsbridge/          *)
(* bridge.go) settles them one by one.  Request goroutines, the engine and *)
(* the bridge interleave freely; one step is one critical section, one     *)
(* database transaction or one call of the shared store.                   *)
(*                                                                         *)
(* The database (balances, locks) and the optional shared store outlive a  *)
(* crash; reservations, the record of processed fills and the channel do   *)
(* not, and recovery emits again every fill since the last snapshot.  A    *)
(* call of the database or of the store may fail, without effect or after  *)
(* it had its effect: the caller cannot tell.                              *)
(* Matching is that of one pair in price-time priority; its details are    *)
(* the subject of MatchingEngine, those of the log EngineRecovery's.       *)
(*                                                                         *)
(* Amounts of quote currency are counted in fee units, so that fees are    *)
(* whole: a notional n is n * FeeUnit, and its fee n * TakerRate or        *)
(* n * MakerRate.                                                          *)
(***************************************************************************)
EXTENDS Integers, Sequences, FiniteSets, FiniteSetsExt, SequencesExt

CONSTANTS
  Users,
  Funds,         \* balances at the start, by user and asset
  FeeUnit, TakerRate, MakerRate,
  Deployments,   \* how the process may be set up, and what its clients do
  MaxCrashes,    \* bound: crashes
  MaxTransfers   \* bound: transfers between a user's accounts

Assets == {"base", "quote"}
Kinds  == {"limit", "ioc", "market"}
OrderSpec == [user : Users, side : {"buy", "sell"}, kind : Kinds, price : Nat, qty : Nat \ {0}]

ASSUME DeploymentAssumption ==
  \A d \in Deployments :
    /\ d.shared \in BOOLEAN                          \* a shared (L2) store is attached
    /\ d.faults \subseteq {"db", "l2", "crash", "refuse"}  \* what may go wrong
    /\ d.cancellers \subseteq Users                  \* who cancels orders
    /\ d.capacity \in Nat                           \* of the Fills channel (100_000)
    /\ DOMAIN d.orders \subseteq Nat                 \* the orders clients place
    /\ IsFiniteSet(DOMAIN d.orders)
    /\ d.orders \in [DOMAIN d.orders -> OrderSpec]
ASSUME UsersAssumption == IsFiniteSet(Users)
ASSUME FundsAssumption == Funds \in [Users -> [Assets -> Nat]]
ASSUME FeeAssumption ==
  /\ FeeUnit \in Nat \ {0} /\ TakerRate \in 0..FeeUnit /\ MakerRate \in 0..FeeUnit
ASSUME BoundAssumption == MaxCrashes \in Nat /\ MaxTransfers \in Nat

None    == -1
Bridge  == -2

VARIABLES
  deployment,   \* the one of Deployments a behaviour is about
  bal, locked,  \* spot wallets: balance and the part of it that is locked
  funding,      \* the users' funding accounts
  amounts,      \* reservation objects: what each has left
  res,          \* Service.reservations: the object of an order, 0 if none
  processed,    \* Service.processedFills
  l2, claims,   \* the shared store: reservation records, claimed fills
  queue, taker, \* accepted orders the engine has not taken yet, and the one in hand
  resting,      \* the book, oldest order first
  rem,          \* what remains of each order
  fills,        \* the Fills channel
  emitted,      \* history: every fill the engine made
  snapAt,       \* how many of them the last engine snapshot covers
  at,           \* where PlaceOrder is with each order
  rel,          \* the ReleaseOrder call of each thread
  br,           \* the bridge
  settled,      \* history: fills settled in the database, in order
  unsure,       \* history: fills whose claim or settlement got no answer
  crashes, transfers

dbVars     == <<bal, locked, funding>>
svcVars    == <<amounts, res, processed>>
sharedVars == <<l2, claims>>
engVars    == <<queue, taker, resting, rem, emitted, snapAt>>
notes      == <<unsure, crashes, transfers>>
vars == <<deployment, dbVars, svcVars, sharedVars, engVars, fills, at, rel, br, settled, notes>>

SharedStore == deployment.shared
Faults      == deployment.faults
Cancellers  == deployment.cancellers
FillCap     == deployment.capacity
OrderOf     == deployment.orders
Orders      == DOMAIN OrderOf
Threads     == Orders \cup {Bridge}

NoFill == [taker |-> None, maker |-> None, qty |-> 0, takerDone |-> FALSE, makerDone |-> FALSE]
Idle   == [at |-> "idle", fill |-> NoFill, ref |-> [s \in {"buy", "sell"} |-> 0],
           unlock |-> [s \in {"buy", "sell"} |-> 0], loaded |-> [s \in {"buy", "sell"} |-> None],
           claimed |-> FALSE]
NotReleasing == [at |-> "none", order |-> None, ref |-> 0]
Releasing(o) == [at |-> "take", order |-> o, ref |-> 0]

Init ==
  /\ deployment \in Deployments
  /\ bal = Funds /\ locked = [u \in Users |-> [a \in Assets |-> 0]]
  /\ funding = [u \in Users |-> [a \in Assets |-> 0]]
  /\ amounts = << >> /\ res = [o \in Orders |-> 0] /\ processed = {}
  /\ l2 = [o \in Orders |-> None] /\ claims = {}
  /\ queue = << >> /\ taker = None /\ resting = << >>
  /\ rem = [o \in Orders |-> OrderOf[o].qty]
  /\ fills = << >> /\ emitted = << >> /\ snapAt = 0
  /\ at = [o \in Orders |-> "new"]
  /\ rel = [t \in Threads |-> NotReleasing] /\ br = Idle
  /\ settled = << >> /\ unsure = {} /\ crashes = 0 /\ transfers = 0
-----------------------------------------------------------------------------
(***************************************************************************)
(* Orders and what they reserve.                                           *)
(***************************************************************************)
UserOf(o) == OrderOf[o].user
IsBuy(o)  == OrderOf[o].side = "buy"
Notional(o, n) == OrderOf[o].price * n

\* Mutant: no room for the fee.
Mutant_NoFeeBuffer(o) ==
  IF ~IsBuy(o) THEN OrderOf[o].qty
  ELSE IF OrderOf[o].kind = "limit" THEN Notional(o, OrderOf[o].qty) * FeeUnit
  ELSE 0

\* ReserveOrder: a sell of any kind locks its quantity, a limit buy its cost
\* at the taker's rate, any other buy nothing.
Reserved(o) ==
  IF ~IsBuy(o) THEN OrderOf[o].qty
  ELSE IF OrderOf[o].kind = "limit" THEN Notional(o, OrderOf[o].qty) * (FeeUnit + TakerRate)
  ELSE 0
ReservedAsset(o) == IF IsBuy(o) THEN "quote" ELSE "base"

Available(u, a) == bal[u][a] - locked[u][a]

\* Which of some keys of the shared store cannot be read or written just now.
Unreachable(keys) == IF "l2" \in Faults THEN SUBSET keys ELSE {{}}

\* The unlock of PGWalletStore.Settle matches no row when less is locked.
Unlocked(lk, u, a, n) == IF lk[u][a] >= n THEN [lk EXCEPT ![u][a] = @ - n] ELSE lk
-----------------------------------------------------------------------------
(***************************************************************************)
(* PlaceOrder: reserve in the database, record the reservation, submit.    *)
(* When the answer of the database is lost the funds are locked all the    *)
(* same, but the order is rejected.                                        *)
(***************************************************************************)
Reserve(o) ==
  /\ at[o] = "new"
  /\ Available(UserOf(o), ReservedAsset(o)) >= Reserved(o)
  /\ locked' = [locked EXCEPT ![UserOf(o)][ReservedAsset(o)] = @ + Reserved(o)]
  /\ \/ at' = [at EXCEPT ![o] = IF Reserved(o) > 0 THEN "track" ELSE "submit"]
     \/ /\ "db" \in Faults /\ Reserved(o) > 0
        /\ at' = [at EXCEPT ![o] = "dead"]
  /\ UNCHANGED <<bal, funding, svcVars, sharedVars, engVars, fills, rel, br, settled, notes>>

\* The new order is known to nobody else yet: the write to the shared store is
\* part of the step.
Track(o) ==
  /\ at[o] = "track"
  /\ amounts' = Append(amounts, Reserved(o))
  /\ res' = [res EXCEPT ![o] = Len(amounts')]
  /\ \E lost \in Unreachable({o}) :
       l2' = IF SharedStore /\ o \notin lost THEN [l2 EXCEPT ![o] = Reserved(o)] ELSE l2
  /\ at'  = [at EXCEPT ![o] = "submit"]
  /\ UNCHANGED <<dbVars, processed, claims, engVars, fills, rel, br, settled, notes>>

Submit(o) ==
  /\ at[o] = "submit"
  /\ queue' = Append(queue, o)
  /\ at' = [at EXCEPT ![o] = "accepted"]
  /\ UNCHANGED <<dbVars, svcVars, sharedVars, taker, resting, rem, emitted, snapAt, fills, rel,
                 br, settled, notes>>

\* The risk check or a full ring refuses the order: PlaceOrder rolls back.
Refuse(o) ==
  /\ at[o] = "submit" /\ "refuse" \in Faults
  /\ at' = [at EXCEPT ![o] = "refused"]
  /\ rel' = [rel EXCEPT ![o] = Releasing(o)]
  /\ UNCHANGED <<dbVars, svcVars, sharedVars, engVars, fills, br, settled, notes>>
-----------------------------------------------------------------------------
(***************************************************************************)
(* ReleaseOrder, called by PlaceOrder, CancelOrder and the bridge.         *)
(***************************************************************************)
\* Mutant: the reservation is looked up but not deleted.
Mutant_ReleaseKeeps(t) ==
  /\ rel[t].at = "take"
  /\ LET o == rel[t].order
     IN  rel' = [rel EXCEPT ![t] = IF res[o] = 0 THEN NotReleasing
                                   ELSE [at |-> "unlock", order |-> o, ref |-> res[o]]]
  /\ UNCHANGED <<dbVars, svcVars, sharedVars, engVars, fills, at, br, settled, notes>>

\* The reservation is taken out of the map, or read from the shared store.
ReleaseTake(t) ==
  /\ rel[t].at = "take"
  /\ \E lost \in Unreachable({rel[t].order}) :
     LET o == rel[t].order
         fromL2 == res[o] = 0 /\ SharedStore /\ l2[o] # None /\ o \notin lost
         all == IF fromL2 THEN Append(amounts, l2[o]) ELSE amounts
         ref == IF fromL2 THEN Len(all) ELSE res[o]
     IN  /\ amounts' = all
         /\ res' = [res EXCEPT ![o] = 0]
         /\ rel' = [rel EXCEPT ![t] =
              IF ref = 0 THEN NotReleasing
              ELSE IF all[ref] = 0 THEN NotReleasing
              ELSE [at |-> "unlock", order |-> o, ref |-> ref]]
  /\ UNCHANGED <<dbVars, processed, sharedVars, engVars, fills, at, br, settled, notes>>

\* What the object holds now is unlocked in the database.  A failure, with or
\* without effect, is returned: the reservation is out of the map already.
ReleaseUnlock(t) ==
  /\ rel[t].at = "unlock"
  /\ LET o == rel[t].order
         unlocked == Unlocked(locked, UserOf(o), ReservedAsset(o), amounts[rel[t].ref])
     IN  \/ /\ locked' = unlocked
            /\ rel' = [rel EXCEPT ![t] = IF SharedStore THEN [@ EXCEPT !.at = "delete"]
                                         ELSE NotReleasing]
         \/ /\ "db" \in Faults
            /\ rel' = [rel EXCEPT ![t] = NotReleasing]
            /\ locked' \in {locked, unlocked}
  /\ UNCHANGED <<bal, funding, svcVars, sharedVars, engVars, fills, at, br, settled, notes>>

ReleaseDelete(t) ==
  /\ rel[t].at = "delete"
  /\ \E lost \in Unreachable({rel[t].order}) :
       l2' = IF rel[t].order \in lost THEN l2 ELSE [l2 EXCEPT ![rel[t].order] = None]
  /\ rel' = [rel EXCEPT ![t] = NotReleasing]
  /\ UNCHANGED <<dbVars, svcVars, claims, engVars, fills, at, br, settled, notes>>

Release(t) == ReleaseTake(t) \/ ReleaseUnlock(t) \/ ReleaseDelete(t)
-----------------------------------------------------------------------------
(***************************************************************************)
(* The engine, seen from outside: an order trades with the makers whose    *)
(* prices it accepts, best first; what remains of a limit order rests.     *)
(***************************************************************************)
AcceptsPrice(o, p) ==
  \/ OrderOf[o].kind = "market"
  \/ IF IsBuy(o) THEN p <= OrderOf[o].price ELSE p >= OrderOf[o].price

Position(m) == CHOOSE i \in DOMAIN resting : resting[i] = m
Without(m)  == RemoveAt(resting, Position(m))

Before(m, n) ==
  LET p == OrderOf[m].price  q == OrderOf[n].price
  IN  IF p = q THEN Position(m) < Position(n) ELSE IF IsBuy(m) THEN p > q ELSE p < q

Makers(o) ==
  {m \in ToSet(resting) : OrderOf[m].side # OrderOf[o].side /\ AcceptsPrice(o, OrderOf[m].price)}

Best == CHOOSE m \in Makers(taker) : \A n \in Makers(taker) \ {m} : Before(m, n)

\* emitFill does not wait: a fill that finds the channel full is dropped.
Emit(channel, new) ==
  SubSeq(channel \o new, 1, Min({FillCap, Len(channel) + Len(new)}))

Take ==
  /\ taker = None /\ queue # << >>
  /\ taker' = Head(queue) /\ queue' = Tail(queue)
  /\ UNCHANGED <<dbVars, svcVars, sharedVars, resting, rem, emitted, snapAt, fills, at, rel, br,
                 settled, notes>>

Trade ==
  /\ taker # None /\ rem[taker] > 0 /\ Makers(taker) # {}
  /\ LET m == Best
         q == Min({rem[taker], rem[m]})
         f == [taker |-> taker, maker |-> m, qty |-> q,
               takerDone |-> rem[taker] = q, makerDone |-> rem[m] = q]
     IN  /\ rem' = [rem EXCEPT ![taker] = @ - q, ![m] = @ - q]
         /\ resting' = IF f.makerDone THEN Without(m) ELSE resting
         /\ fills' = Emit(fills, <<f>>)
         /\ emitted' = Append(emitted, f)
  /\ UNCHANGED <<dbVars, svcVars, sharedVars, queue, taker, snapAt, at, rel, br, settled, notes>>

Finish ==
  /\ taker # None /\ (rem[taker] = 0 \/ Makers(taker) = {})
  /\ resting' = IF rem[taker] > 0 /\ OrderOf[taker].kind = "limit"
                  THEN Append(resting, taker) ELSE resting
  /\ taker' = None
  /\ UNCHANGED <<dbVars, svcVars, sharedVars, queue, rem, emitted, snapAt, fills, at, rel, br,
                 settled, notes>>

EngineStep == Take \/ Trade \/ Finish

\* CancelOrder: the engine takes the order out of the book, and the request
\* goes on to release its funds.  An order not in the book is an error.
Cancel(o) ==
  /\ taker = None
  /\ o \in ToSet(resting) /\ UserOf(o) \in Cancellers
  /\ resting' = Without(o)
  /\ rel' = [rel EXCEPT ![o] = Releasing(o)]
  /\ UNCHANGED <<dbVars, svcVars, sharedVars, queue, taker, rem, emitted, snapAt, fills, at, br,
                 settled, notes>>

\* The engine's periodic snapshot.
Snapshot ==
  /\ "crash" \in Faults /\ taker = None /\ snapAt # Len(emitted)
  /\ snapAt' = Len(emitted)
  /\ UNCHANGED <<dbVars, svcVars, sharedVars, queue, taker, resting, rem, emitted, fills, at, rel, br,
                 settled, notes>>
-----------------------------------------------------------------------------
(***************************************************************************)
(* The bridge: consumeFills, and SettleFill as it calls it.                *)
(***************************************************************************)
\* fillIDOf: the price is the maker's.
FillId(f) == <<f.taker, f.maker, f.qty>>
Buyer(f)  == IF IsBuy(f.taker) THEN f.taker ELSE f.maker
Seller(f) == IF IsBuy(f.taker) THEN f.maker ELSE f.taker
Party(f, s) == IF s = "buy" THEN Buyer(f) ELSE Seller(f)
Rate(f, o) == IF o = f.taker THEN TakerRate ELSE MakerRate
Value(f)  == Notional(f.maker, f.qty)
Cost(f)   == Value(f) * (FeeUnit + Rate(f, Buyer(f)))
Proceeds(f) == Value(f) * (FeeUnit - Rate(f, Seller(f)))
Fees(f)   == Cost(f) - Proceeds(f)

ToSettle == IF SharedStore THEN "load" ELSE "debit"

\* Mutant: fills claimed in the shared store are not skipped.
Mutant_LocalDedupOnly ==
  /\ br.at = "idle" /\ rel[Bridge] = NotReleasing /\ fills # << >>
  /\ fills' = Tail(fills)
  /\ br' = [Idle EXCEPT !.fill = Head(fills), !.claimed = SharedStore,
                        !.at = IF FillId(Head(fills)) \in processed THEN "taker" ELSE ToSettle]
  /\ claims' = IF SharedStore THEN claims \cup {FillId(Head(fills))} ELSE claims
  /\ UNCHANGED <<dbVars, svcVars, l2, engVars, at, rel, settled, notes>>

\* The next fill: known to this process, claimed by another, or to be settled.
BridgeTake ==
  /\ br.at = "idle" /\ rel[Bridge] = NotReleasing /\ fills # << >>
  /\ fills' = Tail(fills)
  /\ LET f == Head(fills)
         id == FillId(f)
         known == id \in processed
         claimed == ~known /\ SharedStore /\ id \in claims
     IN  /\ br' = [Idle EXCEPT !.fill = f, !.at = IF known \/ claimed THEN "taker" ELSE ToSettle,
                               !.claimed = SharedStore /\ ~known /\ ~claimed]
         /\ processed' = IF claimed THEN processed \cup {id} ELSE processed
         /\ claims' = IF SharedStore /\ ~known THEN claims \cup {id} ELSE claims
  /\ UNCHANGED <<dbVars, amounts, res, l2, engVars, at, rel, settled, notes>>

\* The claim gets no answer, whether it was made or not, and whoever made it
\* before: the fill is settled ("proceed with local-only dedup").  A client that
\* asks again by itself may be told of its own claim: the fill is not settled.
BridgeTakeUnsure ==
  /\ br.at = "idle" /\ rel[Bridge] = NotReleasing /\ fills # << >>
  /\ SharedStore /\ "l2" \in Faults /\ FillId(Head(fills)) \notin processed
  /\ fills' = Tail(fills)
  /\ LET f == Head(fills)
         id == FillId(f)
     IN  /\ \/ /\ claims' \in {claims, claims \cup {id}}
               /\ br' = [Idle EXCEPT !.fill = f, !.at = "load"]
               /\ UNCHANGED processed
            \/ /\ claims' = claims \cup {id}
               /\ br' = [Idle EXCEPT !.fill = f, !.at = "taker"]
               /\ processed' = processed \cup {id}
         /\ unsure' = unsure \cup {id}
  /\ UNCHANGED <<dbVars, amounts, res, l2, engVars, at, rel, settled, crashes, transfers>>

\* Reservations this process does not hold are read from the shared store...
BridgeLoad ==
  /\ br.at = "load"
  /\ \E lost \in Unreachable({Buyer(br.fill), Seller(br.fill)}) :
       br' = [br EXCEPT !.at = "debit", !.loaded =
               [s \in {"buy", "sell"} |->
                 LET o == Party(br.fill, s) IN IF res[o] = 0 /\ o \notin lost THEN l2[o] ELSE None]]
  /\ UNCHANGED <<dbVars, svcVars, sharedVars, engVars, fills, at, rel, settled, notes>>

Wanted(f, s) == IF s = "buy" THEN Cost(f) ELSE f.qty

\* The part of a reservation a fill takes.
Portion(left, wanted) == Min({left, wanted})

\* ...and both parties' reservations are reduced by the fill, in one critical
\* section.  An exhausted one is deleted.
BridgeDebit ==
  /\ br.at = "debit"
  /\ LET f == br.fill
         insert(s) == br.loaded[s] # None /\ res[Party(f, s)] = 0
         all1 == IF insert("buy") THEN Append(amounts, br.loaded["buy"]) ELSE amounts
         all2 == IF insert("sell") THEN Append(all1, br.loaded["sell"]) ELSE all1
         ref == [s \in {"buy", "sell"} |->
                  IF ~insert(s) THEN res[Party(f, s)]
                  ELSE IF s = "buy" THEN Len(all1) ELSE Len(all2)]
         part == [s \in {"buy", "sell"} |->
                   IF ref[s] = 0 THEN 0 ELSE Portion(all2[ref[s]], Wanted(f, s))]
     IN  /\ amounts' = [i \in DOMAIN all2 |->
              IF i = ref["buy"] THEN all2[i] - part["buy"]
              ELSE IF i = ref["sell"] THEN all2[i] - part["sell"] ELSE all2[i]]
         /\ res' = [o \in Orders |->
              IF \E s \in {"buy", "sell"} : o = Party(f, s)
                THEN LET s == OrderOf[o].side
                     IN  IF ref[s] = 0 \/ all2[ref[s]] = part[s] THEN 0 ELSE ref[s]
                ELSE res[o]]
         /\ br' = [br EXCEPT !.at = IF SharedStore THEN "sync" ELSE "settle",
                             !.ref = ref, !.unlock = part]
  /\ UNCHANGED <<dbVars, processed, sharedVars, engVars, fills, at, rel, settled, notes>>

\* syncReservationsL2 for both orders.
BridgeSync ==
  /\ br.at \in {"sync", "resync"}
  /\ \E lost \in Unreachable({Buyer(br.fill), Seller(br.fill)}) :
       l2' = [o \in Orders |->
               IF o \in {Buyer(br.fill), Seller(br.fill)} \ lost
                 THEN IF res[o] = 0 THEN None ELSE amounts[res[o]]
                 ELSE l2[o]]
  /\ br' = [br EXCEPT !.at = IF br.at = "sync" THEN "settle"
                             ELSE IF br.claimed THEN "unclaim" ELSE "taker"]
  /\ UNCHANGED <<dbVars, svcVars, claims, engVars, fills, at, rel, settled, notes>>

(***************************************************************************)
(* PGWalletStore.Settle on the operations of one fill, in their order: the *)
(* buyer's unlock, debit and credit, then the seller's.  A debit beyond    *)
(* what is available at its turn undoes them all.                          *)
(***************************************************************************)
LockedAfter(f, unlock) ==
  Unlocked(Unlocked(locked, UserOf(Buyer(f)), "quote", unlock["buy"]),
           UserOf(Seller(f)), "base", unlock["sell"])

Funded(f, unlock) ==
  LET b == UserOf(Buyer(f))
      s == UserOf(Seller(f))
  IN  /\ bal[b]["quote"] - Unlocked(locked, b, "quote", unlock["buy"])[b]["quote"] >= Cost(f)
      /\ bal[s]["base"] + (IF b = s THEN f.qty ELSE 0) - LockedAfter(f, unlock)[s]["base"] >= f.qty

BalanceAfter(f) ==
  LET b == UserOf(Buyer(f))
      s == UserOf(Seller(f))
      bought == [bal EXCEPT ![b]["quote"] = @ - Cost(f), ![b]["base"] = @ + f.qty]
  IN  [bought EXCEPT ![s]["base"] = @ - f.qty, ![s]["quote"] = @ + Proceeds(f)]

\* The transaction commits.  When its answer is lost the fill counts as failed.
BridgeSettle ==
  /\ br.at = "settle"
  /\ Funded(br.fill, br.unlock)
  /\ bal' = BalanceAfter(br.fill)
  /\ locked' = LockedAfter(br.fill, br.unlock)
  /\ settled' = Append(settled, br.fill)
  /\ \/ /\ processed' = processed \cup {FillId(br.fill)}
        /\ br' = [br EXCEPT !.at = "taker"]
        /\ UNCHANGED unsure
     \/ /\ "db" \in Faults
        /\ br' = [br EXCEPT !.at = "restore"]
        /\ unsure' = unsure \cup {FillId(br.fill)}
        /\ UNCHANGED processed
  /\ UNCHANGED <<funding, amounts, res, sharedVars, engVars, fills, at, rel, crashes, transfers>>

BridgeSettleFails ==
  /\ br.at = "settle"
  /\ ~Funded(br.fill, br.unlock) \/ "db" \in Faults
  /\ br' = [br EXCEPT !.at = "restore"]
  /\ UNCHANGED <<dbVars, svcVars, sharedVars, engVars, fills, at, rel, settled, notes>>

\* The reservations are put back as they were, and the fill is forgotten: the
\* bridge logs the failure and goes on.
BridgeRestore ==
  /\ br.at = "restore"
  /\ LET given(i, s) == IF br.ref[s] = i THEN br.unlock[s] ELSE 0
     IN  amounts' = [i \in DOMAIN amounts |-> amounts[i] + given(i, "buy") + given(i, "sell")]
  /\ res' = [o \in Orders |->
               IF \E s \in {"buy", "sell"} : o = Party(br.fill, s) /\ br.ref[s] # 0
                 THEN br.ref[OrderOf[o].side] ELSE res[o]]
  /\ br' = [br EXCEPT !.at = IF SharedStore THEN "resync" ELSE "taker"]
  /\ UNCHANGED <<dbVars, processed, sharedVars, engVars, fills, at, rel, settled, notes>>

\* The claim is deleted, so that another instance or a retry can settle.
BridgeUnclaim ==
  /\ br.at = "unclaim"
  /\ \E lost \in Unreachable({FillId(br.fill)}) : claims' = claims \ ({FillId(br.fill)} \ lost)
  /\ br' = [br EXCEPT !.at = "taker"]
  /\ UNCHANGED <<dbVars, svcVars, l2, engVars, fills, at, rel, settled, notes>>

\* consumeFills releases what is left of an order that is filled: the taker's,
\* then the maker's.
BridgeReleaseTaker ==
  /\ br.at = "taker"
  /\ rel' = [rel EXCEPT ![Bridge] = IF br.fill.takerDone THEN Releasing(br.fill.taker) ELSE @]
  /\ br' = [br EXCEPT !.at = "maker"]
  /\ UNCHANGED <<dbVars, svcVars, sharedVars, engVars, fills, at, settled, notes>>

BridgeReleaseMaker ==
  /\ br.at = "maker" /\ rel[Bridge] = NotReleasing
  /\ rel' = [rel EXCEPT ![Bridge] = IF br.fill.makerDone THEN Releasing(br.fill.maker) ELSE @]
  /\ br' = Idle
  /\ UNCHANGED <<dbVars, svcVars, sharedVars, engVars, fills, at, settled, notes>>

BridgeStep ==
  \/ BridgeTake \/ BridgeTakeUnsure \/ BridgeLoad \/ BridgeDebit \/ BridgeSync \/ BridgeSettle
  \/ BridgeSettleFails \/ BridgeRestore \/ BridgeUnclaim \/ BridgeReleaseTaker \/ BridgeReleaseMaker \/ Release(Bridge)
-----------------------------------------------------------------------------
\* Transfer: all a user has available moves to the funding account, or back.
Transfer(u, a) ==
  /\ transfers < MaxTransfers
  /\ \/ /\ Available(u, a) > 0
        /\ bal' = [bal EXCEPT ![u][a] = @ - Available(u, a)]
        /\ funding' = [funding EXCEPT ![u][a] = @ + Available(u, a)]
     \/ /\ funding[u][a] > 0
        /\ bal' = [bal EXCEPT ![u][a] = @ + funding[u][a]]
        /\ funding' = [funding EXCEPT ![u][a] = 0]
  /\ transfers' = transfers + 1
  /\ UNCHANGED <<locked, svcVars, sharedVars, engVars, fills, at, rel, br, settled, unsure, crashes>>

\* The process dies and starts again.  The log has every order the engine took
\* in and every cancel: replay restores the book and the order in hand, and emits
\* the fills made since the snapshot once more.
Crash ==
  /\ "crash" \in Faults /\ crashes < MaxCrashes
  /\ amounts' = << >> /\ res' = [o \in Orders |-> 0] /\ processed' = {}
  /\ queue' = << >>
  /\ fills' = Emit(<< >>, SubSeq(emitted, snapAt + 1, Len(emitted)))
  /\ at' = [o \in Orders |-> IF at[o] \in {"track", "submit"} THEN "dead" ELSE at[o]]
  /\ rel' = [t \in Threads |-> NotReleasing] /\ br' = Idle
  /\ crashes' = crashes + 1
  /\ UNCHANGED <<dbVars, sharedVars, taker, resting, rem, emitted, snapAt, settled, unsure, transfers>>

Next ==
  /\ \/ \E o \in Orders : Reserve(o) \/ Track(o) \/ Submit(o) \/ Refuse(o) \/ Cancel(o) \/ Release(o)
     \/ EngineStep \/ Snapshot \/ BridgeStep \/ Crash
     \/ \E u \in Users, a \in Assets : Transfer(u, a)
  /\ UNCHANGED deployment

Spec == Init /\ [][Next]_vars

\* The bridge and the engine run whenever they can; nobody has to place,
\* cancel or transfer anything, and a request may stall.
FairSpec == Spec /\ WF_vars(EngineStep /\ UNCHANGED deployment) /\ WF_vars(BridgeStep /\ UNCHANGED deployment)
-----------------------------------------------------------------------------
(***************************************************************************)
(* Properties.                                                             *)
(***************************************************************************)
(***************************************************************************)
(* Nobody ever owes: no more is locked than a wallet holds.                *)
(***************************************************************************)
Solvent == \A u \in Users, a \in Assets : 0 <= locked[u][a] /\ locked[u][a] <= bal[u][a]

Wealth(a)  == [u \in Users |-> bal[u][a] + funding[u][a]]
Started(a) == [u \in Users |-> Funds[u][a]]
Paid       == [i \in DOMAIN settled |-> Fees(settled[i])]

Total(a)   == MapThenSumSet(LAMBDA u : Wealth(a)[u], Users)
Initial(a) == MapThenSumSet(LAMBDA u : Started(a)[u], Users)

(***************************************************************************)
(* Trading moves money but makes none: the base currency stays what it     *)
(* was, and the quote currency loses exactly the fees of settled fills.    *)
(***************************************************************************)
FundsConserved ==
  /\ Total("base") = Initial("base")
  /\ Total("quote") + MapThenSumSet(LAMBDA i : Paid[i], DOMAIN settled) = Initial("quote")

\* No fill is settled twice (service.go, processedFills: "a replayed fill
\* (e.g. after a restart that re-reads the channel) is a no-op").
SettledOnce ==
  \A i, j \in DOMAIN settled : FillId(settled[i]) = FillId(settled[j]) => i = j

\* It is so as long as the process, or its shared store, remembers the fills -
\* except for a fill whose claim or settlement got no answer: the one is settled
\* whoever claimed it, and the claim of the other is deleted though it is settled.
SettledAtMostOnce ==
  crashes = 0 \/ SharedStore =>
    \A i, j \in DOMAIN settled :
      FillId(settled[i]) = FillId(settled[j]) => i = j \/ FillId(settled[i]) \in unsure

Releases == {t \in Threads : rel[t].at # "none"}

\* Nothing is under way.
Quiet ==
  /\ queue = << >> /\ taker = None /\ fills = << >> /\ br.at = "idle" /\ Releases = {}
  /\ \A o \in Orders : at[o] \notin {"track", "submit"}

(***************************************************************************)
(* In the end every trade whose buyer had funds reserved is settled        *)
(* (bridge.go: "Settle the fill into wallet balances first so balances     *)
(* reflect the trade"), however requests and transfers interleave with the *)
(* bridge - if nothing fails, no cancel releases what a fill in the        *)
(* channel still needs, no maker pays more than the taker's rate, by which *)
(* a buy reserves, and the channel has room for every fill (engine.go: "a  *)
(* dropped trade/fill means an execution happened in the book but was      *)
(* never settled").  Buys of the other kinds reserve nothing (ReserveOrder *)
(* returns at once): their funds may be gone when the fill is settled.     *)
(***************************************************************************)
ReservedSettled ==
  \A i \in DOMAIN emitted : Reserved(Buyer(emitted[i])) > 0 =>
    \E j \in DOMAIN settled : FillId(settled[j]) = FillId(emitted[i])
EveryTradeSettles ==
  Cancellers = {} /\ Faults = {} /\ MakerRate <= TakerRate =>
    <>[](ReservedSettled \/ Len(emitted) > FillCap)

(***************************************************************************)
(* One process without faults, whose orders all rest until they are filled *)
(* or cancelled, and no maker pays more than the taker's rate, by which a  *)
(* buy reserves.  Beyond it, an order the engine drops keeps its funds     *)
(* locked, a restart forgets reservations but not locks, and a release may *)
(* meet a settlement that puts its reservation back or holds a copy of it. *)
(***************************************************************************)
Plain ==
  /\ ~SharedStore /\ Faults \subseteq {"refuse"} /\ MakerRate <= TakerRate
  /\ \A o \in Orders : OrderOf[o].kind = "limit"

(***************************************************************************)
(* What is locked of a wallet is what its user's reservations account for: *)
(* those in the map, those being released, the part the bridge is about to *)
(* unlock, and those about to be recorded.                                 *)
(***************************************************************************)
UnlockingFor(o) ==
  IF br.at \in {"sync", "settle", "restore"} /\ o \in {Buyer(br.fill), Seller(br.fill)}
    THEN br.unlock[OrderOf[o].side] ELSE 0
ReleasedBy == [t \in Threads |-> IF rel[t].at = "unlock" THEN amounts[rel[t].ref] ELSE 0]
Left(o)    == IF res[o] = 0 THEN 0 ELSE amounts[res[o]]
AccountedFor(o) ==
  (IF at[o] = "track" THEN Reserved(o) ELSE 0) + Left(o) + UnlockingFor(o)
    + MapThenSumSet(LAMBDA t : ReleasedBy[t], {t \in Threads : rel[t].order = o})
Accounts == [o \in Orders |-> AccountedFor(o)]
LocksAccounted ==
  Plain => \A u \in Users, a \in Assets :
    locked[u][a] = MapThenSumSet(LAMBDA o : Accounts[o], {o \in Orders : UserOf(o) = u /\ ReservedAsset(o) = a})

\* When nothing is under way and none of a user's orders is in the book, none
\* of the user's funds is locked (service.go, ReserveOrder: "so it can be
\* released on cancel or partial-fill price improvement"), unless the channel
\* may have been full and the fill that ends an order dropped.
NothingStaysLocked ==
  Plain /\ Quiet /\ Len(emitted) <= FillCap => \A u \in Users : (\A o \in ToSet(resting) : UserOf(o) # u) =>
             \A a \in Assets : locked[u][a] = 0

\* Settling, reserving and releasing leave no wallet overdrawn and no money made,
\* and settle no fill twice.
FundsSafe == Solvent /\ FundsConserved /\ SettledAtMostOnce

\* Locks are those of reservations, and gone with them.
LocksHaveOwners == LocksAccounted /\ NothingStaysLocked
=============================================================================
