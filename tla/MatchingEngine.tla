--------------------------- MODULE MatchingEngine ---------------------------
(***************************************************************************)
(* Order matching for one pair: the order book (internal/matching/         *)
(* orderbook.go) and the matching strategies (engine.go), as the engine    *)
(* goroutine runs them on the orders and cancels it takes in.              *)
(*                                                                         *)
(* The engine holds the book's lock while it processes one order, so only  *)
(* whole orders interleave with cancels; one fill per step keeps the model *)
(* free of recursion.  An order's id is its arrival number.  Prices and    *)
(* quantities are small naturals; 0 is the nil *big.Float.  Journaling     *)
(* succeeds here: EngineRecovery is about what happens when it does not.   *)
(***************************************************************************)
EXTENDS Integers, Sequences, FiniteSets, FiniteSetsExt

CONSTANTS
  Users,
  Cancellers,  \* those who also cancel orders
  Flows,       \* bound: each is a set of orders, menu, and how many of them may
               \* arrive, max; the orders of a behaviour come from one flow
  EngineSTP    \* the engine's self-trade prevention mode

Sides    == {"buy", "sell"}
Types    == {"limit", "market", "ioc", "fok", "postOnly", "stopLoss", "stopLimit", "iceberg"}
STPModes == {"disabled", "cancelTaker", "cancelMaker", "cancelBoth"}

\* What the submitter fixes.  visible is the iceberg's slice; tif "other" is
\* any time in force but GTC, which is all the engine looks at.
OrderSpec == [user : Users, side : Sides, type : Types, price : Nat, stop : Nat,
              qty : Nat, visible : Nat, tif : {"gtc", "other"}, stp : STPModes]

\* A slice is no larger than its order, which the APIs see to.  That a limit-like
\* order has a price they do not: the HTTP handler asks for one of a limit, stop
\* limit, post-only and iceberg order but not of a fill-or-kill one, the gRPC
\* server of none.  The comparison with the missing price (engine.go:327) then ends
\* the process with a panic; such orders are left out.
Menu == UNION {f.menu : f \in Flows}

ASSUME MenuAssumption ==
  /\ Menu \subseteq OrderSpec /\ EngineSTP \in STPModes
  /\ \A sp \in Menu : sp.type \in {"limit", "fok", "stopLimit"} => sp.price > 0
  /\ \A sp \in Menu : sp.visible <= sp.qty
ASSUME BoundAssumption == (\A f \in Flows : f.max \in Nat) /\ Cancellers \subseteq Users

VARIABLES
  spec,       \* what each order's submitter fixed, in arrival order
  ord,        \* what the engine changes of each order
  live,       \* keys of OrderBook.orders: ids resting in the book
  heap,       \* heap entries of each side, stale ones included
  stops,      \* ids of parked stop orders; their list is in order of arrival
  triggered,  \* those of them the current triggerStops has still to match
  lastPrice,  \* last trade price, 0 before the first trade
  seqNo,      \* the book's sequence number
  taker,      \* the order being matched, 0 if none
  phase,      \* "idle", "match" or "finish": where its processing is
  slice,      \* what is left of an iceberg's visible slice
  batchOpen,  \* triggerStops has not run since the last order
  trades      \* history: the fills, in order

bookVars == <<live, heap, seqNo>>
vars == <<spec, ord, bookVars, stops, triggered, lastPrice, taker, phase, slice,
          batchOpen, trades>>

Init ==
  /\ spec = << >> /\ ord = << >>
  /\ live = {} /\ heap = [s \in Sides |-> {}] /\ seqNo = 0
  /\ stops = {} /\ triggered = {} /\ lastPrice = 0
  /\ taker = 0 /\ phase = "idle" /\ slice = 0 /\ batchOpen = FALSE
  /\ trades = << >>

Ids  == 1..Len(ord)
Idle == phase = "idle" /\ triggered = {}
-----------------------------------------------------------------------------
(***************************************************************************)
(* The book.                                                               *)
(***************************************************************************)
Opposite(s) == IF s = "buy" THEN "sell" ELSE "buy"

Least(a, b) == IF a <= b THEN a ELSE b

\* OrderHeap.Less: best price first, then the book sequence number.
Less(s, i, j) ==
  \/ IF s = "buy" THEN spec[i].price > spec[j].price ELSE spec[i].price < spec[j].price
  \/ spec[i].price = spec[j].price /\ ord[i].seq < ord[j].seq

\* Mutant: a heap entry whose order was removed counts as live.
Mutant_StaleMatchable(s) == {i \in heap[s] : ord[i].remaining > 0}

\* Heap entries that bestBidLocked and bestAskLocked do not pop as stale.
Matchable(s) == {i \in heap[s] : i \in live /\ ord[i].remaining > 0}

\* The best live order of side s, 0 if there is none.
Best(s) ==
  IF Matchable(s) = {} THEN 0
  ELSE CHOOSE i \in Matchable(s) : \A j \in Matchable(s) \ {i} : Less(s, i, j)

\* Looking for the best order pops the stale entries ahead of it.
Purged(s) ==
  [heap EXCEPT ![s] = {i \in @ : i \in Matchable(s) \/ (Best(s) # 0 /\ Less(s, Best(s), i))}]

\* Mutant: a stop gets its sequence number when it rests.
Mutant_SequenceAtRest(o, r, h) ==
  /\ seqNo' = seqNo + 1
  /\ ord' = [ord EXCEPT ![o] = [r EXCEPT !.seq = seqNo + 1]]
  /\ live' = live \cup {o}
  /\ heap' = [h EXCEPT ![spec[o].side] = @ \cup {o}]

\* addLocked: order o, its fields now r, enters the book whose heaps are h.  A
\* stop that was parked keeps the sequence number it got then.
AddToBook(o, r, h) ==
  /\ seqNo' = seqNo + 1
  /\ ord' = [ord EXCEPT ![o] = [r EXCEPT !.seq = IF @ = 0 THEN seqNo + 1 ELSE @]]
  /\ live' = live \cup {o}
  /\ heap' = [h EXCEPT ![spec[o].side] = @ \cup {o}]

\* May order o trade at price p?  A market order at any, a limit not beyond its
\* own; an IOC without a price is treated like a market order.
Accepts(o, p) ==
  \/ ord[o].type = "market"
  \/ ord[o].type \in {"ioc", "iceberg"} /\ spec[o].price = 0
  \/ IF spec[o].side = "buy" THEN p <= spec[o].price ELSE p >= spec[o].price

\* triggerStopLocked, and the condition in triggerStops.
Fires(sp) ==
  /\ lastPrice > 0
  /\ IF sp.side = "buy" THEN lastPrice >= sp.stop ELSE lastPrice <= sp.stop

\* A triggered stop-loss goes on as a market order, a stop-limit as a limit.
TypeAfterTrigger(type) == IF type = "stopLoss" THEN "market" ELSE "limit"
-----------------------------------------------------------------------------
(***************************************************************************)
(* processOrder up to the strategy it picks.  Orders of one drained batch  *)
(* follow each other before triggerStops runs.                             *)
(***************************************************************************)
Fresh(sp) == [type |-> sp.type, filled |-> 0, remaining |-> sp.qty, status |-> "new", seq |-> 0]

Arrive(sp) ==
  /\ Idle
  /\ spec' = Append(spec, sp)
  /\ batchOpen' = TRUE

\* The order is handed to a matching loop, as type.
StartMatching(sp, type) ==
  /\ ord' = Append(ord, [Fresh(sp) EXCEPT !.type = type])
  /\ taker' = Len(ord) + 1
  /\ phase' = "match"
  /\ slice' = IF type = "iceberg" THEN sp.visible ELSE 0
  /\ UNCHANGED <<bookVars, stops, triggered, lastPrice, trades>>

Refuse(sp) ==
  /\ ord' = Append(ord, [Fresh(sp) EXCEPT !.status = "rejected"])
  /\ UNCHANGED <<bookVars, stops, triggered, lastPrice, taker, phase, slice, trades>>

BadQuantity(sp) == Arrive(sp) /\ sp.qty <= 0 /\ Refuse(sp)

Incoming(sp) == Arrive(sp) /\ sp.qty > 0

SubmitPlain(sp) ==
  /\ Incoming(sp)
  /\ sp.type \in {"limit", "market", "ioc", "iceberg"}
  /\ StartMatching(sp, sp.type)

\* Mutant: only the engine-wide mode is looked at.
Mutant_EngineModeOnly(sp, maker) == EngineSTP # "disabled" /\ sp.user = spec[maker].user

\* Taker and resting order have one owner and some mode forbids their trade.
SelfTrade(sp, maker) ==
  /\ sp.stp # "disabled" \/ EngineSTP # "disabled"
  /\ sp.user = spec[maker].user

\* matchFOKLocked adds up what it finds in the opposite heap, whatever became
\* of those entries since they were pushed.
AvailableFrom(sp) ==
  {i \in heap[Opposite(sp.side)] :
     /\ IF sp.side = "buy" THEN spec[i].price <= sp.price ELSE spec[i].price >= sp.price
     /\ ~SelfTrade(sp, i)}
Remaining     == [i \in Ids |-> ord[i].remaining]
Available(sp) == MapThenSumSet(LAMBDA i : Remaining[i], AvailableFrom(sp))

SubmitFOK(sp) ==
  /\ Incoming(sp)
  /\ sp.type = "fok"
  /\ IF Available(sp) < sp.qty THEN Refuse(sp) ELSE StartMatching(sp, "fok")

\* matchPostOnlyLocked: an order that would cross is refused.  The comparison
\* purges the opposite heap.
SubmitPostOnly(sp) ==
  /\ Incoming(sp)
  /\ sp.type = "postOnly"
  /\ LET b == Best(Opposite(sp.side))
         crosses == b # 0 /\ IF sp.side = "buy" THEN spec[b].price <= sp.price
                                                ELSE spec[b].price >= sp.price
         refused == sp.price = 0 \/ crosses
         new == Len(ord) + 1
     IN  /\ heap' = LET h == IF sp.price = 0 THEN heap ELSE Purged(Opposite(sp.side))
                    IN  IF refused THEN h ELSE [h EXCEPT ![sp.side] = @ \cup {new}]
         /\ ord' = Append(ord, [Fresh(sp) EXCEPT
                     !.status = IF refused THEN "rejected" ELSE "new",
                     !.seq    = IF refused THEN 0 ELSE seqNo + 1])
         /\ live'  = IF refused THEN live ELSE live \cup {new}
         /\ seqNo' = IF refused THEN seqNo ELSE seqNo + 1
  /\ UNCHANGED <<stops, triggered, lastPrice, taker, phase, slice, trades>>

\* matchStopLocked: the order parks unless its stop price has been reached.
SubmitStop(sp) ==
  /\ Incoming(sp)
  /\ sp.type \in {"stopLoss", "stopLimit"}
  /\ IF sp.stop = 0 THEN Refuse(sp)
     ELSE IF Fires(sp) THEN StartMatching(sp, TypeAfterTrigger(sp.type))
     ELSE /\ ord' = Append(ord, [Fresh(sp) EXCEPT !.seq = seqNo + 1])
          /\ seqNo' = seqNo + 1
          /\ stops' = stops \cup {Len(ord) + 1}
          /\ UNCHANGED <<live, heap, triggered, lastPrice, taker, phase, slice, trades>>

Submit(sp) ==
  \/ BadQuantity(sp) \/ SubmitPlain(sp) \/ SubmitFOK(sp) \/ SubmitPostOnly(sp) \/ SubmitStop(sp)
-----------------------------------------------------------------------------
(***************************************************************************)
(* The matching loops.                                                     *)
(***************************************************************************)
side  == spec[taker].side
maker == Best(Opposite(side))

\* There is a resting order to trade with at a price the taker accepts.
Tradable ==
  /\ phase = "match"
  /\ ord[taker].remaining > 0
  /\ ord[taker].type = "iceberg" => slice > 0
  /\ maker # 0 /\ Accepts(taker, spec[maker].price)

\* An order's fields after q of it traded.
FilledBy(r, q, full) ==
  [r EXCEPT !.filled = @ + q, !.remaining = @ - q,
            !.status = IF r.remaining = q THEN full ELSE "partiallyFilled"]

\* fillLocked.  removeLocked runs after the maker was marked filled, and marks
\* it cancelled.
Fill ==
  /\ Tradable
  /\ ~SelfTrade(spec[taker], maker)
  /\ LET want == IF ord[taker].type = "iceberg" THEN slice ELSE ord[taker].remaining
         q == Least(want, ord[maker].remaining)
         makerDone == ord[maker].remaining = q
     IN  /\ ord' = [ord EXCEPT
              ![taker] = FilledBy(@, q, "filled"), ![maker] = FilledBy(@, q, "cancelled")]
         /\ live'  = IF makerDone THEN live \ {maker} ELSE live
         /\ seqNo' = IF makerDone THEN seqNo + 1 ELSE seqNo
         /\ slice' = IF ord[taker].type = "iceberg" THEN slice - q ELSE 0
         /\ trades' = Append(trades, [taker |-> taker, maker |-> maker, qty |-> q,
                                      price |-> spec[maker].price])
  /\ heap' = Purged(Opposite(side))
  /\ lastPrice' = spec[maker].price
  /\ UNCHANGED <<spec, stops, triggered, taker, phase, batchOpen>>

\* The taker's mode of self-trade prevention, or else the engine's.
Mode(sp) == IF sp.stp = "disabled" THEN EngineSTP ELSE sp.stp

\* applySTP.
PreventSelfTrade ==
  /\ Tradable
  /\ SelfTrade(spec[taker], maker)
  /\ LET mode == Mode(spec[taker])
         makerGoes == mode \in {"cancelMaker", "cancelBoth"}
         takerGoes == mode \in {"cancelTaker", "cancelBoth"}
     IN  /\ ord' = [i \in Ids |->
              IF (i = maker /\ makerGoes) \/ (i = taker /\ takerGoes /\ ord[i].type # "iceberg")
                THEN [ord[i] EXCEPT !.status = "cancelled"] ELSE ord[i]]
         /\ live'  = IF makerGoes THEN live \ {maker} ELSE live
         /\ seqNo' = IF makerGoes THEN seqNo + 1 ELSE seqNo
         /\ phase' = IF takerGoes THEN "finish" ELSE "match"
  /\ heap' = Purged(Opposite(side))
  /\ UNCHANGED <<spec, stops, triggered, lastPrice, taker, slice, batchOpen, trades>>

\* Mutant: the loop does not give up when there is nothing to trade with.
Mutant_NeverGivesUp ==
  /\ phase = "match"
  /\ ord[taker].remaining = 0
  /\ phase' = "finish"
  /\ UNCHANGED <<spec, ord, live, heap, seqNo, stops, triggered, lastPrice, taker, slice,
                 batchOpen, trades>>

\* Filled, or nothing left to trade with.
StopMatching ==
  /\ phase = "match"
  /\ ~Tradable
  /\ phase' = "finish"
  /\ heap' = IF ord[taker].remaining > 0 THEN Purged(Opposite(side)) ELSE heap
  /\ UNCHANGED <<spec, ord, live, seqNo, stops, triggered, lastPrice, taker, slice,
                 batchOpen, trades>>

Done == taker' = 0 /\ phase' = "idle" /\ slice' = 0

\* The end of matchLimitLocked, and of matchFOKLocked around it: what remains
\* of a GTC order rests.
FinishLimit ==
  /\ phase = "finish"
  /\ ord[taker].type \in {"limit", "fok"}
  /\ LET rests == ord[taker].remaining > 0 /\ spec[taker].tif = "gtc"
         r == IF rests /\ ord[taker].status # "partiallyFilled"
                THEN [ord[taker] EXCEPT !.status = "new"] ELSE ord[taker]
         r2 == IF r.type = "fok" /\ r.remaining > 0
                 THEN [r EXCEPT !.status = "rejected"] ELSE r
     IN  IF rests THEN AddToBook(taker, r2, heap)
         ELSE ord' = [ord EXCEPT ![taker] = r2] /\ UNCHANGED bookVars
  /\ Done
  /\ UNCHANGED <<spec, stops, triggered, lastPrice, batchOpen, trades>>

\* The end of matchMarketLocked and of matchIOCLocked: the rest is dropped.
FinishImmediate ==
  /\ phase = "finish"
  /\ ord[taker].type \in {"market", "ioc"}
  /\ ord' = [ord EXCEPT ![taker].status =
               IF ord[taker].remaining = 0 THEN @
               ELSE IF ord[taker].filled > 0 THEN "partiallyFilled" ELSE "cancelled"]
  /\ Done
  /\ UNCHANGED <<spec, bookVars, stops, triggered, lastPrice, batchOpen, trades>>

\* The end of one slice in matchIcebergLocked: the loop goes on while anything
\* remains and the slice size is positive.
IcebergSlice ==
  /\ phase = "finish"
  /\ ord[taker].type = "iceberg"
  /\ ord[taker].remaining > 0 /\ spec[taker].visible > 0
  /\ slice' = Least(spec[taker].visible, ord[taker].remaining)
  /\ phase' = "match"
  /\ UNCHANGED <<spec, ord, bookVars, stops, triggered, lastPrice, taker, batchOpen, trades>>

FinishIceberg ==
  /\ phase = "finish"
  /\ ord[taker].type = "iceberg"
  /\ ord[taker].remaining = 0 \/ spec[taker].visible = 0
  /\ ord' = [ord EXCEPT ![taker].status =
               IF ord[taker].remaining = 0 THEN "filled" ELSE "cancelled"]
  /\ Done
  /\ UNCHANGED <<spec, bookVars, stops, triggered, lastPrice, batchOpen, trades>>

Match ==
  \/ Fill \/ PreventSelfTrade \/ StopMatching \/ FinishLimit \/ FinishImmediate
  \/ IcebergSlice \/ FinishIceberg
-----------------------------------------------------------------------------
(***************************************************************************)
(* Stops and cancels, which the loop takes between batches.                *)
(***************************************************************************)
\* triggerStops splits the parked stops by the last price, keeping their order.
TriggerStops ==
  /\ Idle /\ batchOpen
  /\ batchOpen' = FALSE
  /\ triggered' = {o \in stops : Fires(spec[o])}
  /\ stops'     = {o \in stops : ~Fires(spec[o])}
  /\ UNCHANGED <<spec, ord, bookVars, lastPrice, taker, phase, slice, trades>>

\* Those that fire are matched one after the other, oldest first.
MatchTriggered ==
  /\ phase = "idle"
  /\ \E o \in triggered :
       /\ \A p \in triggered : o <= p
       /\ taker' = o
       /\ triggered' = triggered \ {o}
       /\ ord' = [ord EXCEPT ![o].type = TypeAfterTrigger(@)]
  /\ phase' = "match"
  /\ UNCHANGED <<spec, bookVars, stops, lastPrice, slice, batchOpen, trades>>

\* Mutant: a cancel changes the status but leaves the order in the book.
Mutant_CancelKeepsOrder(i) ==
  /\ Idle /\ ~batchOpen
  /\ i \in live /\ spec[i].user \in Cancellers
  /\ ord' = [ord EXCEPT ![i].status = "cancelled"]
  /\ seqNo' = seqNo + 1
  /\ UNCHANGED <<spec, live, heap, stops, triggered, lastPrice, taker, phase, slice,
                 batchOpen, trades>>

\* processCancel for a user's own order; others are answered with an error.
Cancel(i) ==
  /\ Idle /\ ~batchOpen
  /\ i \in live /\ spec[i].user \in Cancellers
  /\ ord' = [ord EXCEPT ![i].status = "cancelled"]
  /\ live' = live \ {i}
  /\ seqNo' = seqNo + 1
  /\ UNCHANGED <<spec, heap, stops, triggered, lastPrice, taker, phase, slice,
                 batchOpen, trades>>

\* The flows that may go on as the orders so far.
OpenFlows == {f \in Flows : Len(ord) < f.max /\ \A i \in Ids : spec[i] \in f.menu}

Next ==
  \/ Idle /\ \E f \in OpenFlows : \E sp \in f.menu : Submit(sp)
  \/ Match \/ TriggerStops \/ MatchTriggered
  \/ \E i \in Ids : Cancel(i)

Spec == Init /\ [][Next]_vars

\* The engine goroutine runs whenever there is work in hand.
FairSpec == Spec /\ WF_vars(Match) /\ WF_vars(TriggerStops) /\ WF_vars(MatchTriggered)
-----------------------------------------------------------------------------
(***************************************************************************)
(* Properties.                                                             *)
(***************************************************************************)
MatchingTypeOK ==
  /\ Len(spec) = Len(ord)
  /\ \A i \in Ids :
       /\ spec[i] \in Menu
       /\ ord[i] \in [type : Types, filled : Nat, remaining : Nat, seq : Nat,
                      status : {"new", "partiallyFilled", "filled", "cancelled", "rejected"}]
  /\ live \subseteq Ids /\ heap \in [Sides -> SUBSET Ids]
  /\ seqNo \in Nat /\ lastPrice \in Nat /\ slice \in Nat /\ batchOpen \in BOOLEAN
  /\ taker \in Ids \cup {0} /\ phase \in {"idle", "match", "finish"}
  /\ phase = "idle" <=> taker = 0

Shares(i) ==
  [k \in DOMAIN trades |-> IF i \in {trades[k].taker, trades[k].maker} THEN trades[k].qty ELSE 0]
TradedQty(i) == MapThenSumSet(LAMBDA k : Shares(i)[k], DOMAIN trades)

(***************************************************************************)
(* Nothing is created or lost in matching: what an order was filled is     *)
(* what the trades that name it add up to, and the rest is what remains.   *)
(***************************************************************************)
QuantityConserved ==
  \A i \in Ids :
    /\ ord[i].filled = TradedQty(i)
    /\ ord[i].filled + ord[i].remaining = spec[i].qty

\* Self-trade prevention may stop the order before it has traded what it could;
\* what remains of it rests all the same.
MayBeStopped(sp) == Mode(sp) \in {"cancelTaker", "cancelBoth"}

(***************************************************************************)
(* Between orders the book is not crossed: no resting bid could trade with *)
(* a resting ask, unless one of them was stopped on its way into the book. *)
(***************************************************************************)
NotCrossed ==
  Idle => \A b, a \in live :
    spec[b].side = "buy" /\ spec[a].side = "sell" =>
      spec[b].price < spec[a].price \/ MayBeStopped(spec[b]) \/ MayBeStopped(spec[a])

(***************************************************************************)
(* Every trade takes place at the maker's price, within the limits of both *)
(* sides - also for a stop that turned into a limit order.                 *)
(***************************************************************************)
PricesRespected ==
  \A k \in DOMAIN trades :
    LET p == trades[k].price
        t == spec[trades[k].taker]
    IN  /\ p = spec[trades[k].maker].price
        /\ t.price > 0 /\ t.type \notin {"market", "stopLoss"} =>
             IF t.side = "buy" THEN p <= t.price ELSE p >= t.price

(***************************************************************************)
(* Price-time priority in terms of arrival (engine_test.go,                *)
(* TestPriceTimePriority; orderbook.go: "strict FIFO (time) priority"): an *)
(* order trades only when no live order on its side has a better price, or *)
(* the same price and an earlier arrival.  A stop counts from its arrival, *)
(* not from the moment it triggers.                                        *)
(***************************************************************************)
FairPriority ==
  [][\A k \in DOMAIN trades' \ DOMAIN trades :
       LET m == trades'[k].maker IN
       \A j \in live \ {m} :
         spec[j].side = spec[m].side =>
           \/ IF spec[m].side = "buy" THEN spec[j].price < spec[m].price
                                      ELSE spec[j].price > spec[m].price
           \/ spec[j].price = spec[m].price /\ m < j]_vars

(***************************************************************************)
(* An order that left the book never comes back to it nor trades again,    *)
(* although its heap entry may still be there.                             *)
(***************************************************************************)
Waiting(i) == i \in live \cup {taker} \cup stops \cup triggered
GoneForGood ==
  [][\A i \in Ids : ~Waiting(i) => i \notin live' /\ ord'[i].filled = ord[i].filled]_vars

\* What the book holds is open, and what is open in the book can be found
\* there by the next taker: the index and the heap agree.  (A fill-or-kill order
\* that stale heap entries let through rests marked rejected.)
BookConsistent ==
  /\ \A i \in live :
       /\ ord[i].status \in {"new", "partiallyFilled"} \/ ord[i].type = "fok"
       /\ ord[i].remaining > 0
       /\ i \in heap[spec[i].side]
       /\ \A j \in live \ {i} : ord[i].seq # ord[j].seq
  /\ \A i \in stops : i \notin live /\ ord[i].filled = 0

\* With self-trade prevention on, no user trades with himself.
NoSelfTrade ==
  \A k \in DOMAIN trades :
    LET t == spec[trades[k].taker] IN
    (t.stp # "disabled" \/ EngineSTP # "disabled") => t.user # spec[trades[k].maker].user

(***************************************************************************)
(* A fill-or-kill order fills in full or not at all (engine_test.go: "FOK  *)
(* should reject when insufficient liquidity").  The entry a cancelled     *)
(* order leaves in the heap counts as liquidity until it is popped, so the *)
(* claim is made while no order on the other side was cancelled unfilled;  *)
(* and the sum passes over the owner's own orders, at which the matching   *)
(* may stop.                                                               *)
(***************************************************************************)
CancelledUnfilled(s) ==
  \E i \in Ids : spec[i].side = s /\ ord[i].status = "cancelled" /\ ord[i].remaining > 0
FOKAllOrNothing ==
  \A i \in Ids : spec[i].type = "fok" /\ i # taker =>
    \/ ord[i].filled \in {0, spec[i].qty}
    \/ CancelledUnfilled(Opposite(spec[i].side)) \/ MayBeStopped(spec[i])

\* Processing an order comes to an end, and its caller gets an answer (order.go,
\* done: "closed by the engine after the order has been processed").
ProcessingEnds == taker # 0 ~> taker = 0

\* It does for all kinds but icebergs.
MatchingEnds ==
  (taker # 0 /\ spec[taker].type # "iceberg") ~> taker = 0

\* The book between two steps: its records, quantities, prices and indexes agree
\* (orderbook.go, its three structures under one lock).
BookSound == MatchingTypeOK /\ QuantityConserved /\ NotCrossed /\ BookConsistent

\* Each trade is one both owners have asked for: prices, self-trade prevention
\* and fill-or-kill (matchLimitLocked and the checks before it).
TradesLawful == PricesRespected /\ NoSelfTrade /\ FOKAllOrNothing
=============================================================================
