--------------------------- MODULE MatchingProofs ---------------------------
(***************************************************************************)
(* What the matching engine keeps up for every menu of orders and every    *)
(* mode of self-trade prevention: the book's structures agree and add up,  *)
(* trades are lawful and in price-time order, and who left does not come   *)
(* back.                                                                   *)
(***************************************************************************)
EXTENDS MatchingEngine, SumTheorems, SequenceTheorems

Statuses   == {"new", "partiallyFilled", "filled", "cancelled", "rejected"}
OrderState == [type : Types, filled : Nat, remaining : Nat, status : Statuses, seq : Nat]
Trade      == [taker : Nat, maker : Nat, qty : Nat, price : Nat]
TakerTypes == {"limit", "market", "ioc", "iceberg", "fok"}
StopTypes  == {"stopLoss", "stopLimit"}

TypeInv ==
  /\ spec \in Seq(Menu) /\ ord \in Seq(OrderState) /\ Len(spec) = Len(ord)
  /\ live \subseteq Ids /\ stops \subseteq Ids /\ triggered \subseteq Ids
  /\ heap \in [Sides -> SUBSET Ids]
  /\ seqNo \in Nat /\ lastPrice \in Nat /\ slice \in Nat /\ batchOpen \in BOOLEAN
  /\ taker \in Ids \cup {0} /\ phase \in {"idle", "match", "finish"}
  /\ phase = "idle" <=> taker = 0
  /\ trades \in Seq(Trade)
  /\ \A k \in DOMAIN trades : trades[k].taker \in Ids /\ trades[k].maker \in Ids

\* An order is in one place at most; each place knows what it holds, and a heap
\* entry that is not live has nothing left or was cancelled.
Places ==
  /\ live \cap (stops \cup triggered) = {} /\ stops \cap triggered = {}
  /\ taker \notin live \cup stops \cup triggered
  /\ \A i \in live :
       /\ i \in heap[spec[i].side] /\ ord[i].remaining > 0 /\ ord[i].seq > 0
       /\ ord[i].status \in {"new", "partiallyFilled"} \/ ord[i].type = "fok"
  /\ \A i \in stops \cup triggered :
       /\ ord[i].filled = 0 /\ ord[i].status = "new" /\ ord[i].seq > 0
       /\ spec[i].type \in StopTypes /\ ord[i].type = spec[i].type
  /\ \A s \in Sides : \A i \in heap[s] :
       /\ spec[i].side = s
       /\ i \in live \/ (~Waiting(i) /\ (ord[i].remaining = 0 \/ ord[i].status = "cancelled"))
  /\ taker # 0 => /\ ord[taker].type \in TakerTypes
                  /\ ord[taker].type = "iceberg" => slice <= ord[taker].remaining

\* A trigger is all that changes an order's type.
Kinds ==
  \A i \in Ids :
    ord[i].type = spec[i].type
      \/ (spec[i].type \in StopTypes /\ ord[i].type = TypeAfterTrigger(spec[i].type))

\* Sequence numbers are given in the order of arrival, also to stops that rest
\* long after.
Numbered ==
  /\ \A i \in Ids : ord[i].seq <= seqNo
  /\ \A i, j \in Ids : i < j /\ ord[i].seq > 0 /\ ord[j].seq > 0 => ord[i].seq < ord[j].seq
  /\ taker # 0 /\ ord[taker].seq = 0 => taker = Len(ord)

\* An order of side s at price p could trade with one at price q.
Crosses(s, p, q) == IF s = "buy" THEN q <= p ELSE q >= p
Facing(t)  == {j \in live : spec[j].side = Opposite(spec[t].side)}
Reached(t) == {j \in Facing(t) : Crosses(spec[t].side, spec[t].price, spec[j].price)}

\* Whom the book may hold although he could trade was stopped.
Uncrossed ==
  /\ \A b, a \in live :
       spec[b].side = "buy" /\ spec[a].side = "sell" =>
         spec[b].price < spec[a].price \/ MayBeStopped(spec[b]) \/ MayBeStopped(spec[a])
  /\ phase = "finish" /\ ord[taker].type \in {"limit", "fok"} /\ ord[taker].remaining > 0
       /\ ~MayBeStopped(spec[taker]) => Reached(taker) = {}

\* Somebody of side s left for good before he was filled.
GoneUnfilled(s) ==
  \E j \in Ids : ~Waiting(j) /\ spec[j].side = s /\ ord[j].status = "cancelled" /\ ord[j].remaining > 0
Excused(i) == MayBeStopped(spec[i]) \/ GoneUnfilled(Opposite(spec[i].side))

\* Whom fill-or-kill order t can count on.
Partners(t) == {j \in Reached(t) : ~SelfTrade(spec[t], j)}

Counted(t)  ==
  /\ SumOver(Remaining, Partners(t)) >= ord[t].remaining
  /\ phase = "finish" => ord[t].remaining = 0

FillOrKill ==
  \A i \in Ids : spec[i].type = "fok" /\ ~Excused(i) =>
    /\ i \notin live
    /\ i # taker => ord[i].filled \in {0, spec[i].qty}
    /\ i = taker => Counted(i)

Traded(i) == SumOver(Shares(i), DOMAIN trades)
Quantities ==
  \A i \in Ids : ord[i].filled = Traded(i) /\ ord[i].filled + ord[i].remaining = spec[i].qty

TradesInv == PricesRespected /\ NoSelfTrade

MatchInv ==
  /\ TypeInv /\ Quantities /\ Places /\ Kinds /\ Numbered /\ Uncrossed /\ FillOrKill
  /\ TradesInv
-----------------------------------------------------------------------------
(***************************************************************************)
(* What the operators of the model return.                                 *)
(***************************************************************************)
\* The fields of an order.
LEMMA Known ==
  ASSUME TypeInv, NEW i \in Ids
  PROVE  /\ spec[i] \in Menu /\ spec[i] \in OrderSpec /\ ord[i] \in OrderState
         /\ ord[i].type \in Types /\ ord[i].filled \in Nat /\ ord[i].remaining \in Nat
         /\ ord[i].status \in Statuses /\ ord[i].seq \in Nat
         /\ spec[i].side \in Sides /\ spec[i].type \in Types /\ spec[i].price \in Nat
         /\ spec[i].qty \in Nat /\ spec[i].visible \in Nat /\ spec[i].stp \in STPModes
         /\ Opposite(spec[i].side) \in Sides /\ i \in Nat \ {0}
<1>1. spec[i] \in Menu /\ ord[i] \in OrderState /\ i \in Nat \ {0}
  BY DEF TypeInv, Ids
<1>2. spec[i] \in OrderSpec
  BY <1>1, MenuAssumption
<1> QED
  BY <1>1, <1>2 DEF OrderSpec, OrderState, Opposite, Sides

\* The ids so far are finitely many, and 0 is none of them.
LEMMA IdsFinite ==
  ASSUME TypeInv
  PROVE  IsFiniteSet(Ids) /\ 0 \notin Ids /\ \A S \in SUBSET Ids : IsFiniteSet(S)
<1>1. Len(ord) \in Nat
  BY DEF TypeInv
<1>2. IsFiniteSet(Ids)
  BY <1>1, FS_Interval DEF Ids
<1>3. \A S \in SUBSET Ids : IsFiniteSet(S)
  BY <1>2, FS_Subset
<1>4. 0 \notin Ids
  BY <1>1 DEF Ids
<1> QED
  BY <1>2, <1>3, <1>4

\* The smaller of two is one of them.
LEMMA LeastOf ==
  ASSUME NEW a \in Nat, NEW b \in Nat
  PROVE  Least(a, b) \in {a, b} /\ Least(a, b) <= a /\ Least(a, b) <= b
BY DEF Least

\* What bestBidLocked and bestAskLocked choose from is who rests on that side.
LEMMA MatchableLive ==
  ASSUME TypeInv, Places, NEW s \in Sides
  PROVE  Matchable(s) = {i \in live : spec[i].side = s} /\ Matchable(s) \subseteq Ids
BY DEF TypeInv, Places, Matchable

\* Less orders them, since no two have one sequence number.
LEMMA BestIsBest ==
  ASSUME TypeInv, Places, Numbered, NEW s \in Sides
  PROVE  /\ Best(s) = 0 <=> Matchable(s) = {}
         /\ Best(s) # 0 => /\ Best(s) \in Matchable(s)
                           /\ \A j \in Matchable(s) \ {Best(s)} : Less(s, Best(s), j)
<1>1. Matchable(s) \subseteq Ids /\ Matchable(s) \subseteq live /\ IsFiniteSet(Matchable(s))
  BY MatchableLive, IdsFinite
<1>2. CASE Matchable(s) = {}
  BY <1>2 DEF Best
<1>3. CASE Matchable(s) # {}
  <2> DEFINE R == {p \in Matchable(s) \X Matchable(s) : Less(s, p[1], p[2])}
  <2>1. \A i, j : <<i, j>> \in R <=> i \in Matchable(s) /\ j \in Matchable(s) /\ Less(s, i, j)
    OBVIOUS
  <2>2. \A i \in Matchable(s) : spec[i].price \in Nat /\ ord[i].seq \in Nat /\ ord[i].seq > 0 /\ i \in Nat
    BY <1>1, Known DEF Places
  <2>3. \A i, j \in Matchable(s) : i # j => ord[i].seq # ord[j].seq
    BY <1>1, <2>2 DEF Numbered
  <2>4. \A i, j \in Matchable(s) : i # j => <<i, j>> \in R \/ <<j, i>> \in R
    BY <2>1, <2>2, <2>3 DEF Less
  <2>5. \A i, j, k \in Matchable(s) : <<i, j>> \in R /\ <<j, k>> \in R => <<i, k>> \in R
    BY <2>1, <2>2 DEF Less
  <2>6. \E i \in Matchable(s) : \A j \in Matchable(s) \ {i} : <<i, j>> \in R
    <3> HIDE DEF R
    <3> QED
      BY <1>1, <1>3, <2>4, <2>5, LeastExists
  <2>7. \E i \in Matchable(s) : \A j \in Matchable(s) \ {i} : Less(s, i, j)
    BY <2>1, <2>6
  <2>8. Best(s) = CHOOSE i \in Matchable(s) : \A j \in Matchable(s) \ {i} : Less(s, i, j)
    BY <1>3 DEF Best
  <2>9. Best(s) \in Matchable(s) /\ \A j \in Matchable(s) \ {Best(s)} : Less(s, Best(s), j)
    BY <2>7, <2>8
  <2> QED
    BY <1>1, <1>3, <2>9, IdsFinite
<1> QED
  BY <1>2, <1>3

\* Who cannot trade with the best order of the other side can with none of it.
LEMMA NoneCrossed ==
  ASSUME TypeInv, Places, Numbered, NEW s \in Sides, NEW p \in Nat,
         Best(Opposite(s)) # 0 => ~Crosses(s, p, spec[Best(Opposite(s))].price)
  PROVE  \A j \in live : spec[j].side = Opposite(s) => ~Crosses(s, p, spec[j].price)
<1> SUFFICES ASSUME NEW j \in live, spec[j].side = Opposite(s)
             PROVE  ~Crosses(s, p, spec[j].price)
  OBVIOUS
<1>1. Opposite(s) \in Sides
  BY DEF Opposite, Sides
<1>2. j \in Matchable(Opposite(s)) /\ Matchable(Opposite(s)) \subseteq Ids
  BY <1>1, MatchableLive
<1>3. PICK b : b = Best(Opposite(s))
  OBVIOUS
<1>4. /\ b \in Matchable(Opposite(s)) /\ (j # b => Less(Opposite(s), b, j))
      /\ ~Crosses(s, p, spec[b].price)
  BY <1>1, <1>2, <1>3, BestIsBest
<1>5. spec[b].price \in Nat /\ spec[j].price \in Nat
  BY <1>2, <1>4, Known
<1> QED
  BY <1>4, <1>5 DEF Less, Crosses, Opposite, Sides

\* Purging takes only stale entries, from one heap.
LEMMA PurgedKeeps ==
  ASSUME TypeInv, Places, NEW s \in Sides
  PROVE  /\ Purged(s) \in [Sides -> SUBSET Ids]
         /\ \A t \in Sides : Purged(s)[t] \subseteq heap[t]
         /\ \A i \in live : i \in Purged(s)[spec[i].side]
<1>1. heap \in [Sides -> SUBSET Ids] /\ live \subseteq Ids
  BY DEF TypeInv
<1>2. \A t \in Sides : Purged(s)[t] =
        IF t = s THEN {i \in heap[s] : i \in Matchable(s) \/ (Best(s) # 0 /\ Less(s, Best(s), i))} ELSE heap[t]
  BY <1>1 DEF Purged
<1>3. \A i \in live : i \in heap[spec[i].side] /\ (spec[i].side = s => i \in Matchable(s))
  BY MatchableLive DEF Places
<1>4. \A i \in live : spec[i].side \in Sides
  BY <1>1, Known
<1>5. Purged(s) \in [Sides -> SUBSET Ids]
  BY <1>1 DEF Purged
<1> QED
  BY <1>1, <1>2, <1>3, <1>4, <1>5
-----------------------------------------------------------------------------
(***************************************************************************)
(* What submitting an order comes to: it is refused, matched at once, put  *)
(* into the book, or parked.                                               *)
(***************************************************************************)
New == Len(ord) + 1

EntryOf(sp, r) ==
  /\ r \in OrderState /\ ord' = Append(ord, r) /\ spec' = Append(spec, sp)
  /\ r.filled = 0 /\ r.remaining = sp.qty
  /\ r.type = sp.type \/ (sp.type \in StopTypes /\ r.type = TypeAfterTrigger(sp.type))

RefusedAs(sp, r) ==
  /\ r.status = "rejected" /\ r.seq = 0
  /\ heap' \in {heap, Purged(Opposite(sp.side))}
  /\ UNCHANGED <<live, seqNo, stops, taker, phase, slice>>

StartedAs(sp, r) ==
  /\ r.status = "new" /\ r.seq = 0 /\ r.type \in TakerTypes
  /\ taker' = New /\ phase' = "match"
  /\ slice' \in Nat /\ (r.type = "iceberg" => slice' <= sp.qty)
  /\ sp.type = "fok" => ~(Available(sp) < sp.qty)
  /\ UNCHANGED <<bookVars, stops>>

RestedAs(sp, r) ==
  /\ sp.type = "postOnly" /\ sp.qty > 0
  /\ r.status = "new" /\ r.seq = seqNo + 1
  /\ Best(Opposite(sp.side)) # 0 => ~Crosses(sp.side, sp.price, spec[Best(Opposite(sp.side))].price)
  /\ heap' = [Purged(Opposite(sp.side)) EXCEPT ![sp.side] = @ \cup {New}]
  /\ live' = live \cup {New} /\ seqNo' = seqNo + 1
  /\ UNCHANGED <<stops, taker, phase, slice>>

ParkedAs(sp, r) ==
  /\ sp.type \in StopTypes /\ r.type = sp.type
  /\ r.status = "new" /\ r.seq = seqNo + 1
  /\ seqNo' = seqNo + 1 /\ stops' = stops \cup {New}
  /\ UNCHANGED <<live, heap, taker, phase, slice>>

OutcomeOf(sp, r) == RefusedAs(sp, r) \/ StartedAs(sp, r) \/ RestedAs(sp, r) \/ ParkedAs(sp, r)

Outcomes(sp) ==
  /\ phase = "idle" /\ triggered = {} /\ batchOpen' \in BOOLEAN
  /\ UNCHANGED <<triggered, lastPrice, trades>>
  /\ \E r : EntryOf(sp, r) /\ OutcomeOf(sp, r)

\* A new order, and the same one rejected, on its way, or numbered.
LEMMA FreshOrder ==
  ASSUME NEW sp \in Menu, NEW type \in Types
  PROVE  /\ \A st, n : [Fresh(sp) EXCEPT !.status = st, !.seq = n] =
              [type |-> sp.type, filled |-> 0, remaining |-> sp.qty, status |-> st, seq |-> n]
         /\ \A x : [Fresh(sp) EXCEPT !.status = x] =
              [type |-> sp.type, filled |-> 0, remaining |-> sp.qty, status |-> x, seq |-> 0]
         /\ \A x : [Fresh(sp) EXCEPT !.type = x] =
              [type |-> x, filled |-> 0, remaining |-> sp.qty, status |-> "new", seq |-> 0]
         /\ \A x : [Fresh(sp) EXCEPT !.seq = x] =
              [type |-> sp.type, filled |-> 0, remaining |-> sp.qty, status |-> "new", seq |-> x]
         /\ \A st \in Statuses, n \in Nat :
              [type |-> type, filled |-> 0, remaining |-> sp.qty, status |-> st, seq |-> n] \in OrderState
         /\ sp.type \in Types /\ sp.side \in Sides /\ sp.visible \in Nat /\ sp.qty \in Nat /\ sp.price \in Nat
<1>1. sp \in OrderSpec
  BY MenuAssumption
<1>2. Fresh(sp) = [type |-> sp.type, filled |-> 0, remaining |-> sp.qty, status |-> "new", seq |-> 0]
  BY DEF Fresh
<1>3. \A st \in Statuses, n \in Nat :
         [type |-> type, filled |-> 0, remaining |-> sp.qty, status |-> st, seq |-> n] \in OrderState
  BY <1>1 DEF OrderState, OrderSpec
<1>4. PICK r : r = Fresh(sp)
  OBVIOUS
<1>5. PICK a, b, c, d, e : a = sp.type /\ b = 0 /\ c = sp.qty /\ d = "new" /\ e = 0
  OBVIOUS
<1>6. r = [type |-> a, filled |-> b, remaining |-> c, status |-> d, seq |-> e]
  BY <1>2, <1>4, <1>5
<1>7. ASSUME NEW x, NEW y
      PROVE  /\ [r EXCEPT !.type = x] = [type |-> x, filled |-> b, remaining |-> c, status |-> d, seq |-> e]
             /\ [r EXCEPT !.status = x] = [type |-> a, filled |-> b, remaining |-> c, status |-> x, seq |-> e]
             /\ [r EXCEPT !.seq = x] = [type |-> a, filled |-> b, remaining |-> c, status |-> d, seq |-> x]
             /\ [r EXCEPT !.status = x, !.seq = y] =
                  [type |-> a, filled |-> b, remaining |-> c, status |-> x, seq |-> y]
  <2>1. PICK s : s = [r EXCEPT !.status = x]
    OBVIOUS
  <2>2. s = [type |-> a, filled |-> b, remaining |-> c, status |-> x, seq |-> e]
    BY <2>1, <1>6
  <2>3. [s EXCEPT !.seq = y] = [type |-> a, filled |-> b, remaining |-> c, status |-> x, seq |-> y]
    BY <2>2
  <2>4. [r EXCEPT !.status = x, !.seq = y] = [s EXCEPT !.seq = y]
    BY <2>1
  <2>5. /\ [r EXCEPT !.type = x] = [type |-> x, filled |-> b, remaining |-> c, status |-> d, seq |-> e]
        /\ [r EXCEPT !.seq = x] = [type |-> a, filled |-> b, remaining |-> c, status |-> d, seq |-> x]
    BY <1>6
  <2> QED
    BY <2>1, <2>2, <2>3, <2>4, <2>5
<1> QED
  BY <1>1, <1>3, <1>4, <1>5, <1>7 DEF OrderSpec

\* An order that is turned away.
LEMMA RefuseOutcome ==
  ASSUME TypeInv, NEW sp \in Menu, Arrive(sp), Refuse(sp)
  PROVE  Outcomes(sp)
<1> DEFINE r == [type |-> sp.type, filled |-> 0, remaining |-> sp.qty, status |-> "rejected", seq |-> 0]
<1>1. sp.type \in Types
  BY MenuAssumption DEF OrderSpec
<1>2. r \in OrderState /\ ord' = Append(ord, r)
  BY <1>1, FreshOrder DEF Refuse, Statuses
<1>3. EntryOf(sp, r) /\ RefusedAs(sp, r)
  BY <1>2 DEF Arrive, Refuse, EntryOf, RefusedAs, bookVars
<1> QED
  BY <1>3 DEF Outcomes, OutcomeOf, Arrive, Idle, Refuse

\* An order that goes to a matching loop.
LEMMA StartOutcome ==
  ASSUME TypeInv, NEW sp \in Menu, Arrive(sp), NEW type \in TakerTypes, StartMatching(sp, type),
         type = sp.type \/ (sp.type \in StopTypes /\ type = TypeAfterTrigger(sp.type)),
         sp.type = "fok" => ~(Available(sp) < sp.qty)
  PROVE  Outcomes(sp)
<1> DEFINE r == [type |-> type, filled |-> 0, remaining |-> sp.qty, status |-> "new", seq |-> 0]
<1>1. type \in Types
  BY DEF TakerTypes, Types
<1>2. r \in OrderState /\ ord' = Append(ord, r) /\ sp.visible \in Nat
  BY <1>1, FreshOrder DEF StartMatching, Statuses
<1>3. slice' \in Nat /\ (type = "iceberg" => slice' <= sp.qty)
  BY <1>2, MenuAssumption DEF StartMatching
<1>4. EntryOf(sp, r) /\ StartedAs(sp, r)
  BY <1>2, <1>3 DEF Arrive, StartMatching, EntryOf, StartedAs, New
<1> QED
  BY <1>4 DEF Outcomes, OutcomeOf, Arrive, Idle, StartMatching

\* A post-only order rests, or is refused when it has no price or would cross.
LEMMA PostOnlyOutcome ==
  ASSUME TypeInv, NEW sp \in Menu, SubmitPostOnly(sp)
  PROVE  Outcomes(sp)
<1> DEFINE o == Opposite(sp.side)
           b == Best(o)
           crosses == b # 0 /\ IF sp.side = "buy" THEN spec[b].price <= sp.price
                                                  ELSE spec[b].price >= sp.price
           refused == sp.price = 0 \/ crosses
           r == [type |-> sp.type, filled |-> 0, remaining |-> sp.qty,
                 status |-> IF refused THEN "rejected" ELSE "new",
                 seq |-> IF refused THEN 0 ELSE seqNo + 1]
<1>1. sp \in OrderSpec /\ sp.type = "postOnly" /\ sp.qty > 0 /\ seqNo \in Nat
  BY MenuAssumption DEF SubmitPostOnly, Incoming, TypeInv
<1>2. r \in OrderState
  BY <1>1 DEF OrderState, OrderSpec, Statuses
<1>3. /\ Arrive(sp)
      /\ heap' = LET h == IF sp.price = 0 THEN heap ELSE Purged(o)
                 IN  IF refused THEN h ELSE [h EXCEPT ![sp.side] = @ \cup {New}]
      /\ ord' = Append(ord, [Fresh(sp) EXCEPT
                     !.status = IF refused THEN "rejected" ELSE "new",
                     !.seq    = IF refused THEN 0 ELSE seqNo + 1])
      /\ live'  = IF refused THEN live ELSE live \cup {New}
      /\ seqNo' = IF refused THEN seqNo ELSE seqNo + 1
      /\ UNCHANGED <<stops, triggered, lastPrice, taker, phase, slice, trades>>
  BY DEF SubmitPostOnly, Incoming, New
<1>4. ord' = Append(ord, r)
  <2> DEFINE st == IF refused THEN "rejected" ELSE "new"
             n  == IF refused THEN 0 ELSE seqNo + 1
  <2>1. ord' = Append(ord, [Fresh(sp) EXCEPT !.status = st, !.seq = n])
    BY <1>3
  <2>2. r = [type |-> sp.type, filled |-> 0, remaining |-> sp.qty, status |-> st, seq |-> n]
    OBVIOUS
  <2> HIDE DEF st, n, r
  <2>3. "limit" \in Types
    BY DEF Types
  <2> QED
    BY <2>1, <2>2, <2>3, FreshOrder
<1>5. EntryOf(sp, r)
  BY <1>2, <1>3, <1>4 DEF EntryOf, Arrive
<1>6. CASE refused
  BY <1>3, <1>5, <1>6 DEF RefusedAs, Outcomes, OutcomeOf, Arrive, Idle
<1>7. CASE ~refused
  <2>1. b # 0 => ~Crosses(sp.side, sp.price, spec[b].price)
    BY <1>7 DEF Crosses
  <2>2. RestedAs(sp, r)
    BY <1>1, <1>3, <1>7, <2>1 DEF RestedAs
  <2> QED
    BY <1>3, <1>5, <2>2 DEF Outcomes, OutcomeOf, Arrive, Idle
<1> QED
  BY <1>6, <1>7

\* A stop without a stop price is refused; others fire at once or are parked.
LEMMA StopOutcome ==
  ASSUME TypeInv, NEW sp \in Menu, SubmitStop(sp)
  PROVE  Outcomes(sp)
<1>1. Arrive(sp) /\ sp.type \in StopTypes /\ sp.type # "fok" /\ seqNo \in Nat
  BY DEF SubmitStop, Incoming, StopTypes, TypeInv
<1>2. CASE Refuse(sp)
  BY <1>1, <1>2, RefuseOutcome
<1>3. CASE StartMatching(sp, TypeAfterTrigger(sp.type))
  <2>1. TypeAfterTrigger(sp.type) \in TakerTypes
    BY <1>1 DEF TypeAfterTrigger, TakerTypes
  <2> QED
    BY <1>1, <1>3, <2>1, StartOutcome
<1>4. CASE /\ ord' = Append(ord, [Fresh(sp) EXCEPT !.seq = seqNo + 1])
           /\ seqNo' = seqNo + 1
           /\ stops' = stops \cup {Len(ord) + 1}
           /\ UNCHANGED <<live, heap, triggered, lastPrice, taker, phase, slice, trades>>
  <2> DEFINE r == [type |-> sp.type, filled |-> 0, remaining |-> sp.qty, status |-> "new", seq |-> seqNo + 1]
  <2>1. sp.type \in Types
    BY MenuAssumption DEF OrderSpec
  <2>2. r \in OrderState /\ ord' = Append(ord, r)
    <3>1. "new" \in Statuses /\ seqNo + 1 \in Nat
      BY <1>1 DEF Statuses
    <3>2. r \in OrderState
      BY <2>1, <3>1, FreshOrder
    <3>3. ord' = Append(ord, r)
      BY <1>4, <2>1, FreshOrder
    <3> QED
      BY <3>2, <3>3
  <2>3. EntryOf(sp, r) /\ ParkedAs(sp, r)
    BY <1>1, <1>4, <2>2 DEF EntryOf, ParkedAs, New, Arrive
  <2> QED
    BY <1>1, <1>4, <2>3 DEF Outcomes, OutcomeOf, Arrive, Idle
<1> QED
  BY <1>2, <1>3, <1>4 DEF SubmitStop

\* There are no other outcomes.
LEMMA SubmitOutcomes ==
  ASSUME TypeInv, NEW sp \in Menu, Submit(sp)
  PROVE  Outcomes(sp)
<1>1. CASE BadQuantity(sp)
  BY <1>1, RefuseOutcome DEF BadQuantity
<1>2. CASE SubmitPlain(sp)
  BY <1>2, StartOutcome DEF SubmitPlain, Incoming, TakerTypes
<1>3. CASE SubmitFOK(sp)
  <2>1. Arrive(sp) /\ sp.type = "fok" /\ "fok" \in TakerTypes /\ sp.qty \in Nat
    BY <1>3, MenuAssumption DEF SubmitFOK, Incoming, TakerTypes, OrderSpec
  <2>2. CASE Refuse(sp)
    BY <2>1, <2>2, RefuseOutcome
  <2>3. CASE ~(Available(sp) < sp.qty) /\ StartMatching(sp, "fok")
    BY <2>1, <2>3, StartOutcome
  <2> QED
    BY <1>3, <2>2, <2>3 DEF SubmitFOK
<1> QED
  BY <1>1, <1>2, <1>3, PostOnlyOutcome, StopOutcome DEF Submit
-----------------------------------------------------------------------------
(***************************************************************************)
(* What a step leaves alone.                                               *)
(***************************************************************************)
\* Who is nowhere any more stays as he is, and nobody's wishes change.
LeavesAlone ==
  /\ Ids \subseteq Ids'
  /\ \A i \in Ids : spec'[i] = spec[i]
  /\ \A i \in Ids : ~Waiting(i) => ord'[i] = ord[i] /\ ~Waiting(i)'

SameAmounts == \A i \in Ids : ord'[i].filled = ord[i].filled /\ ord'[i].remaining = ord[i].remaining

\* Whoever excused a fill-or-kill order from its promise still does.
LEMMA ExcusedStays ==
  ASSUME TypeInv, LeavesAlone
  PROVE  \A i \in Ids : Excused(i) => Excused(i)'
<1> SUFFICES ASSUME NEW i \in Ids, Excused(i) PROVE Excused(i)'
  OBVIOUS
<1>1. i \in Ids' /\ spec'[i] = spec[i]
  BY DEF LeavesAlone
<1>2. CASE MayBeStopped(spec[i])
  BY <1>1, <1>2 DEF Excused, MayBeStopped, Mode
<1>3. CASE GoneUnfilled(Opposite(spec[i].side))
  <2>1. PICK j \in Ids : /\ ~Waiting(j) /\ spec[j].side = Opposite(spec[i].side)
                         /\ ord[j].status = "cancelled" /\ ord[j].remaining > 0
    BY <1>3 DEF GoneUnfilled
  <2>2. j \in Ids' /\ spec'[j] = spec[j] /\ ord'[j] = ord[j] /\ ~Waiting(j)'
    BY <2>1 DEF LeavesAlone
  <2>3. GoneUnfilled(Opposite(spec[i].side))'
    BY <1>1, <2>1, <2>2 DEF GoneUnfilled
  <2> QED
    BY <2>3 DEF Excused
<1> QED
  BY <1>2, <1>3 DEF Excused

\* A trade's parties and quantity are known, so that sums over trades are.
LEMMA SharesKnown ==
  ASSUME TypeInv
  PROVE  /\ IsFiniteSet(DOMAIN trades) /\ DOMAIN trades = 1..Len(trades) /\ Len(trades) \in Nat
         /\ \A i : \A k \in DOMAIN trades : Shares(i)[k] \in Nat
         /\ \A i : i \notin Ids => Traded(i) = 0
         /\ \A i : TradedQty(i) = Traded(i)
<1>1. trades \in Seq(Trade) /\ DOMAIN trades = 1..Len(trades) /\ Len(trades) \in Nat
  BY DEF TypeInv
<1>2. IsFiniteSet(DOMAIN trades)
  BY <1>1, FS_Interval
<1>3. \A k \in DOMAIN trades : trades[k] \in Trade
  BY <1>1
<1>4. \A i : \A k \in DOMAIN trades : Shares(i)[k] \in Nat
  BY <1>3 DEF Shares, Trade
<1>5. \A i : TradedQty(i) = Traded(i)
  BY DEF TradedQty, Traded, SumOver
<1>6. \A i : i \notin Ids => \A k \in DOMAIN trades : Shares(i)[k] = 0
  BY DEF Shares, TypeInv
<1>7. \A i : i \notin Ids => Traded(i) = 0
  BY <1>2, <1>6, SumZero DEF Traded
<1> QED
  BY <1>1, <1>2, <1>4, <1>5, <1>7

\* Without a trade, amounts stay accounted for.
LEMMA QuantitiesStay ==
  ASSUME TypeInv, Quantities, LeavesAlone, SameAmounts, trades' = trades,
         \A i \in Ids' \ Ids : ord'[i].filled = 0 /\ ord'[i].remaining = spec'[i].qty /\ spec'[i].qty \in Nat
  PROVE  Quantities'
<1> SUFFICES ASSUME NEW i \in Ids'
             PROVE  ord'[i].filled = Traded(i)' /\ ord'[i].filled + ord'[i].remaining = spec'[i].qty
  BY DEF Quantities
<1>1. Traded(i)' = Traded(i)
  BY DEF Traded, Shares
<1>2. CASE i \in Ids
  BY <1>1, <1>2 DEF Quantities, LeavesAlone, SameAmounts
<1>3. CASE i \notin Ids
  BY <1>1, <1>3, SharesKnown
<1> QED
  BY <1>2, <1>3

\* Without a trade, the trades stay lawful.
LEMMA TradesStay ==
  ASSUME TypeInv, TradesInv, LeavesAlone, trades' = trades
  PROVE  TradesInv'
<1>1. \A k \in DOMAIN trades : /\ spec'[trades[k].taker] = spec[trades[k].taker]
                               /\ spec'[trades[k].maker] = spec[trades[k].maker]
  BY DEF TypeInv, LeavesAlone
<1>2. PricesRespected'
  BY <1>1 DEF TradesInv, PricesRespected
<1>3. NoSelfTrade'
  BY <1>1 DEF TradesInv, NoSelfTrade
<1> QED
  BY <1>2, <1>3 DEF TradesInv

\* Nobody new rests and nobody is about to.
LEMMA UncrossedStays ==
  ASSUME TypeInv, Uncrossed, LeavesAlone, live' \subseteq live, phase' # "finish"
  PROVE  Uncrossed'
<1>1. \A i \in live : spec'[i] = spec[i]
  BY DEF TypeInv, LeavesAlone
<1> QED
  BY <1>1 DEF Uncrossed, MayBeStopped, Mode

\* What a step owes to fill-or-kill orders: to the taker before and after it,
\* and to those who enter the book.
LEMMA FillOrKillStep ==
  ASSUME TypeInv, FillOrKill, LeavesAlone,
         \A i \in Ids \ (live \cup {taker}) : ord'[i].filled = ord[i].filled,
         \A i \in Ids' \ Ids : ord'[i].filled = 0,
         \A i \in live' \ live : spec'[i].type = "fok" => Excused(i)',
         \A i \in Ids : i = taker /\ i # taker' /\ spec[i].type = "fok" /\ ~Excused(i) =>
                          ord'[i].filled \in {0, spec[i].qty},
         \A i \in Ids' : i = taker' /\ spec'[i].type = "fok" /\ ~Excused(i)' => Counted(i)'
  PROVE  FillOrKill'
<1> SUFFICES ASSUME NEW i \in Ids', spec'[i].type = "fok", ~Excused(i)'
             PROVE  /\ i \notin live'
                    /\ i # taker' => ord'[i].filled \in {0, spec'[i].qty}
                    /\ i = taker' => Counted(i)'
  BY DEF FillOrKill
<1>1. i = taker' => Counted(i)'
  OBVIOUS
<1>2. CASE i \in Ids
  <2>1. ~Excused(i) /\ spec'[i] = spec[i]
    BY <1>2, ExcusedStays DEF LeavesAlone
  <2>2. i \notin live /\ (i # taker => ord[i].filled \in {0, spec[i].qty})
    BY <1>2, <2>1 DEF FillOrKill
  <2>3. i \notin live'
    BY <2>2
  <2>4. i # taker' => ord'[i].filled \in {0, spec[i].qty}
    BY <1>2, <2>1, <2>2
  <2> QED
    BY <1>1, <2>1, <2>3, <2>4
<1>3. CASE i \notin Ids
  BY <1>1, <1>3 DEF TypeInv
<1> QED
  BY <1>2, <1>3
-----------------------------------------------------------------------------
(***************************************************************************)
(* Submitting an order preserves the invariant.                            *)
(***************************************************************************)
\* The order gets the next id, and the others keep theirs.
LEMMA Entered ==
  ASSUME TypeInv, NEW sp \in Menu, NEW r, EntryOf(sp, r)
  PROVE  /\ spec' \in Seq(Menu) /\ ord' \in Seq(OrderState) /\ Len(spec') = Len(ord')
         /\ Ids' = Ids \cup {New} /\ New \notin Ids /\ New \in Nat \ {0} /\ Len(ord') = New
         /\ \A i \in Ids : spec'[i] = spec[i] /\ ord'[i] = ord[i] /\ i < New /\ i \in Nat
         /\ spec'[New] = sp /\ ord'[New] = r
<1>1. /\ spec \in Seq(Menu) /\ ord \in Seq(OrderState) /\ Len(spec) = Len(ord) /\ Len(ord) \in Nat
      /\ r \in OrderState /\ ord' = Append(ord, r) /\ spec' = Append(spec, sp)
  BY DEF TypeInv, EntryOf
<1>2. /\ spec' \in Seq(Menu) /\ ord' \in Seq(OrderState)
      /\ Len(spec') = Len(ord) + 1 /\ Len(ord') = Len(ord) + 1
      /\ \A i \in 1..Len(ord) : spec'[i] = spec[i] /\ ord'[i] = ord[i]
      /\ spec'[Len(ord) + 1] = sp /\ ord'[Len(ord) + 1] = r
  BY <1>1
<1>3. Ids' = 1..(Len(ord) + 1) /\ Ids = 1..Len(ord)
  BY <1>2 DEF Ids
<1> QED
  BY <1>1, <1>2, <1>3 DEF New

\* What every outcome does.
LEMMA SubmitFrame ==
  ASSUME TypeInv, Places, NEW sp \in Menu, Outcomes(sp), NEW r, EntryOf(sp, r), OutcomeOf(sp, r)
  PROVE  /\ TypeInv' /\ LeavesAlone /\ SameAmounts
         /\ taker = 0 /\ triggered = {} /\ triggered' = {} /\ trades' = trades /\ phase' # "finish"
         /\ ord'[New].filled = 0 /\ ord'[New].remaining = sp.qty /\ sp.qty \in Nat
         /\ spec'[New] = sp /\ ord'[New] = r
         /\ \A s \in Sides : heap'[s] \subseteq heap[s] \cup {New}
         /\ live' \subseteq live \cup {New} /\ live \subseteq live'
         /\ \A i \in live : i \in heap'[spec[i].side]
<1>1. /\ spec' \in Seq(Menu) /\ ord' \in Seq(OrderState) /\ Len(spec') = Len(ord')
      /\ Ids' = Ids \cup {New} /\ New \notin Ids /\ New \in Nat \ {0} /\ Len(ord') = New
      /\ \A i \in Ids : spec'[i] = spec[i] /\ ord'[i] = ord[i] /\ i < New /\ i \in Nat
      /\ spec'[New] = sp /\ ord'[New] = r
  BY Entered
<1>2. sp \in OrderSpec /\ sp.side \in Sides /\ Opposite(sp.side) \in Sides /\ sp.qty \in Nat
  BY MenuAssumption DEF OrderSpec, Opposite, Sides
<1>3. phase = "idle" /\ taker = 0 /\ triggered = {} /\ triggered' = {} /\ trades' = trades
      /\ lastPrice' = lastPrice /\ batchOpen' \in BOOLEAN
  BY DEF Outcomes, TypeInv
<1>4. heap \in [Sides -> SUBSET Ids] /\ live \subseteq Ids /\ seqNo \in Nat /\ stops \subseteq Ids
  BY DEF TypeInv
<1> DEFINE P == Purged(Opposite(sp.side))
<1>5. /\ P \in [Sides -> SUBSET Ids] /\ \A t \in Sides : P[t] \subseteq heap[t]
      /\ \A i \in live : i \in P[spec[i].side] /\ spec[i].side \in Sides
  BY <1>2, <1>4, PurgedKeeps, Known
<1>6. \A i \in live : i \in heap[spec[i].side]
  BY DEF Places
<1> HIDE DEF P
<1>7. /\ heap' \in [Sides -> SUBSET Ids'] /\ \A s \in Sides : heap'[s] \subseteq heap[s] \cup {New}
      /\ \A i \in live : i \in heap'[spec[i].side]
      /\ live' \subseteq live \cup {New} /\ live \subseteq live' /\ seqNo' \in Nat
      /\ phase' \in {"idle", "match"} /\ (phase' = "idle" <=> taker' = 0) /\ taker' \in Ids' \cup {0}
      /\ slice' \in Nat /\ stops' \subseteq stops \cup {New}
      /\ taker' # 0 => taker' = New
  <2>1. CASE RefusedAs(sp, r)
    <3>1. heap' = heap \/ heap' = P
      BY <2>1 DEF RefusedAs, P
    <3> QED
      BY <1>1, <1>3, <1>4, <1>5, <1>6, <2>1, <3>1 DEF RefusedAs, TypeInv
  <2>2. CASE StartedAs(sp, r)
    BY <1>1, <1>3, <1>4, <1>5, <1>6, <2>2 DEF StartedAs, bookVars
  <2>3. CASE RestedAs(sp, r)
    <3>1. heap' = [P EXCEPT ![sp.side] = @ \cup {New}]
      BY <2>3 DEF RestedAs, P
    <3>2. /\ heap' \in [Sides -> SUBSET Ids']
          /\ \A s \in Sides : heap'[s] = IF s = sp.side THEN P[s] \cup {New} ELSE P[s]
      BY <1>1, <1>2, <1>5, <3>1
    <3>3. \A s \in Sides : heap'[s] \subseteq heap[s] \cup {New}
      BY <1>5, <3>2
    <3>4. \A i \in live : i \in heap'[spec[i].side]
      BY <1>5, <3>2
    <3>5. live' = live \cup {New} /\ seqNo' = seqNo + 1 /\ UNCHANGED <<stops, taker, phase, slice>>
      BY <2>3 DEF RestedAs
    <3>6. slice \in Nat
      BY DEF TypeInv
    <3> QED
      BY <1>3, <1>4, <3>2, <3>3, <3>4, <3>5, <3>6
  <2>4. CASE ParkedAs(sp, r)
    BY <1>1, <1>3, <1>4, <1>5, <1>6, <2>4 DEF ParkedAs, TypeInv
  <2> QED
    BY <2>1, <2>2, <2>3, <2>4 DEF OutcomeOf
<1>8. TypeInv'
  BY <1>1, <1>3, <1>4, <1>7 DEF TypeInv
<1>9. LeavesAlone /\ SameAmounts
  <2>1. \A i \in Ids : ~Waiting(i) => ~Waiting(i)'
    BY <1>1, <1>3, <1>7 DEF Waiting
  <2> QED
    BY <1>1, <2>1 DEF LeavesAlone, SameAmounts
<1> QED
  BY <1>1, <1>2, <1>3, <1>7, <1>8, <1>9 DEF EntryOf

\* Each place takes what fits it.
LEMMA SubmitPlaces ==
  ASSUME TypeInv, Places, NEW sp \in Menu, Outcomes(sp), NEW r, EntryOf(sp, r), OutcomeOf(sp, r)
  PROVE  Places'
<1>1. /\ TypeInv' /\ LeavesAlone
      /\ taker = 0 /\ triggered = {} /\ triggered' = {}
      /\ ord'[New].filled = 0 /\ ord'[New].remaining = sp.qty /\ sp.qty \in Nat
      /\ spec'[New] = sp /\ ord'[New] = r
      /\ \A s \in Sides : heap'[s] \subseteq heap[s] \cup {New}
      /\ \A i \in live : i \in heap'[spec[i].side]
  BY SubmitFrame
<1>2. /\ New \notin Ids /\ New # 0
      /\ \A i \in Ids : spec'[i] = spec[i] /\ ord'[i] = ord[i]
  BY Entered
<1>3. live \subseteq Ids /\ stops \subseteq Ids /\ seqNo \in Nat /\ heap \in [Sides -> SUBSET Ids]
  BY DEF TypeInv
<1>4. \A i \in live : i \in heap'[spec'[i].side] /\ ord'[i].remaining > 0 /\ ord'[i].seq > 0
                      /\ (ord'[i].status \in {"new", "partiallyFilled"} \/ ord'[i].type = "fok")
  BY <1>1, <1>2, <1>3 DEF Places
<1>5. \A i \in stops : ord'[i].filled = 0 /\ ord'[i].status = "new" /\ ord'[i].seq > 0
                       /\ spec'[i].type \in StopTypes /\ ord'[i].type = spec'[i].type
  BY <1>2, <1>3 DEF Places
<1>6. \A s \in Sides : \A i \in heap[s] :
        /\ spec'[i].side = s /\ i \in Ids
        /\ i \in live \/ (~Waiting(i) /\ (ord'[i].remaining = 0 \/ ord'[i].status = "cancelled"))
  BY <1>2, <1>3 DEF Places
<1>7. live \cap stops = {}
  BY DEF Places
<1>8. CASE RefusedAs(sp, r)
  <2>1. \A s \in Sides : heap'[s] \subseteq heap[s]
    <3>1. Opposite(sp.side) \in Sides
      BY MenuAssumption DEF OrderSpec, Opposite, Sides
    <3> QED
      BY <1>8, <3>1, PurgedKeeps DEF RefusedAs
  <2> QED
    BY <1>1, <1>2, <1>3, <1>4, <1>5, <1>6, <1>7, <1>8, <2>1 DEF RefusedAs, Places, Waiting
<1>9. CASE StartedAs(sp, r)
  BY <1>1, <1>2, <1>3, <1>4, <1>5, <1>6, <1>7, <1>9 DEF StartedAs, bookVars, Places, Waiting
<1>10. CASE RestedAs(sp, r)
  <2>1. New \in heap'[sp.side] /\ sp.side \in Sides
    <3>1. Opposite(sp.side) \in Sides /\ sp.side \in Sides
      BY MenuAssumption DEF OrderSpec, Opposite, Sides
    <3>2. Purged(Opposite(sp.side)) \in [Sides -> SUBSET Ids]
      BY <3>1, PurgedKeeps
    <3> QED
      BY <1>10, <3>1, <3>2 DEF RestedAs
  <2>2. \A s \in Sides : New \in heap'[s] => s = sp.side
    <3>1. Opposite(sp.side) \in Sides /\ sp.side \in Sides
      BY MenuAssumption DEF OrderSpec, Opposite, Sides
    <3>2. Purged(Opposite(sp.side)) \in [Sides -> SUBSET Ids]
      BY <3>1, PurgedKeeps
    <3> QED
      BY <1>2, <1>10, <3>1, <3>2 DEF RestedAs
  <2>3. /\ live' = live \cup {New} /\ stops' = stops /\ taker' = 0
        /\ ord'[New].status = "new" /\ ord'[New].seq > 0 /\ ord'[New].remaining > 0
    BY <1>1, <1>3, <1>10 DEF RestedAs
  <2> QED
    BY <1>1, <1>2, <1>3, <1>4, <1>5, <1>6, <1>7, <2>1, <2>2, <2>3 DEF Places, Waiting
<1>11. CASE ParkedAs(sp, r)
  <2>1. /\ live' = live /\ stops' = stops \cup {New} /\ taker' = 0 /\ heap' = heap
        /\ ord'[New].status = "new" /\ ord'[New].seq > 0 /\ ord'[New].filled = 0
        /\ spec'[New].type \in StopTypes /\ ord'[New].type = spec'[New].type
    BY <1>1, <1>3, <1>11 DEF ParkedAs
  <2> QED
    BY <1>1, <1>2, <1>3, <1>4, <1>5, <1>6, <1>7, <2>1 DEF Places, Waiting
<1> QED
  BY <1>8, <1>9, <1>10, <1>11 DEF OutcomeOf

\* The next number goes to the newest order.
LEMMA SubmitNumbers ==
  ASSUME TypeInv, Places, Numbered, Kinds,
         NEW sp \in Menu, Outcomes(sp), NEW r, EntryOf(sp, r), OutcomeOf(sp, r)
  PROVE  Numbered' /\ Kinds'
<1>1. /\ Ids' = Ids \cup {New} /\ New \notin Ids /\ New \in Nat \ {0} /\ Len(ord') = New
      /\ \A i \in Ids : spec'[i] = spec[i] /\ ord'[i] = ord[i] /\ i < New /\ i \in Nat
      /\ spec'[New] = sp /\ ord'[New] = r
  BY Entered
<1>2. seqNo \in Nat /\ (\A i \in Ids : ord[i].seq \in Nat) /\ taker = 0
  BY Known, SubmitFrame DEF TypeInv
<1>3. /\ seqNo' \in Nat /\ seqNo' >= seqNo
      /\ r.seq = 0 \/ (r.seq = seqNo + 1 /\ seqNo' = seqNo + 1)
      /\ taker' \in {0, New}
  BY <1>2 DEF OutcomeOf, RefusedAs, StartedAs, RestedAs, ParkedAs, bookVars
<1>4. Numbered'
  BY <1>1, <1>2, <1>3 DEF Numbered
<1>5. r.type = sp.type \/ (sp.type \in StopTypes /\ r.type = TypeAfterTrigger(sp.type))
  BY DEF EntryOf
<1>6. Kinds'
  BY <1>1, <1>5 DEF Kinds
<1> QED
  BY <1>4, <1>6

\* A new order rests at once only if it is post-only and crosses nobody.
LEMMA SubmitUncrossed ==
  ASSUME TypeInv, Places, Numbered, Uncrossed,
         NEW sp \in Menu, Outcomes(sp), NEW r, EntryOf(sp, r), OutcomeOf(sp, r)
  PROVE  Uncrossed'
<1>1. LeavesAlone /\ phase' # "finish" /\ live \subseteq Ids
  BY SubmitFrame DEF TypeInv
<1>2. CASE ~RestedAs(sp, r)
  <2>1. live' \subseteq live
    BY <1>2 DEF OutcomeOf, RefusedAs, StartedAs, ParkedAs, bookVars
  <2> QED
    BY <1>1, <2>1, UncrossedStays
<1>3. CASE RestedAs(sp, r)
  <2> DEFINE o == Opposite(sp.side)
  <2>1. sp.side \in Sides /\ o \in Sides /\ sp.price \in Nat
    BY MenuAssumption DEF OrderSpec, Opposite, Sides
  <2>2. \A j \in live : spec[j].side = o => ~Crosses(sp.side, sp.price, spec[j].price)
    <3>1. Best(o) # 0 => ~Crosses(sp.side, sp.price, spec[Best(o)].price)
      BY <1>3 DEF RestedAs
    <3> QED
      BY <2>1, <3>1, NoneCrossed
  <2>3. \A i \in live : spec'[i] = spec[i] /\ spec[i].price \in Nat /\ spec[i].side \in Sides
    BY <1>1, Known DEF LeavesAlone
  <2>4. spec'[New] = sp /\ live' = live \cup {New}
    BY <1>3, SubmitFrame DEF RestedAs
  <2>5. \A b, a \in live' :
          spec'[b].side = "buy" /\ spec'[a].side = "sell" =>
            spec'[b].price < spec'[a].price \/ MayBeStopped(spec'[b]) \/ MayBeStopped(spec'[a])
    <3> SUFFICES ASSUME NEW b \in live', NEW a \in live', spec'[b].side = "buy", spec'[a].side = "sell"
                 PROVE  spec'[b].price < spec'[a].price \/ MayBeStopped(spec'[b]) \/ MayBeStopped(spec'[a])
      OBVIOUS
    <3>1. CASE b \in live /\ a \in live
      BY <2>3, <3>1 DEF Uncrossed
    <3>2. CASE b = New /\ a \in live
      BY <2>1, <2>2, <2>3, <2>4, <3>2 DEF Crosses, Opposite
    <3>3. CASE b \in live /\ a = New
      BY <2>1, <2>2, <2>3, <2>4, <3>3 DEF Crosses, Opposite
    <3> QED
      BY <2>4, <3>1, <3>2, <3>3
  <2> QED
    BY <1>1, <2>5 DEF Uncrossed, MayBeStopped, Mode
<1> QED
  BY <1>2, <1>3

\* What remains of those whom order t could reach is finite and natural.
LEMMA PartnersKnown ==
  ASSUME TypeInv
  PROVE  /\ \A t : Partners(t) \subseteq live /\ Partners(t) \subseteq Ids /\ IsFiniteSet(Partners(t))
         /\ \A j \in Ids : Remaining[j] = ord[j].remaining /\ Remaining[j] \in Nat
<1>1. live \subseteq Ids
  BY DEF TypeInv
<1>2. \A t : Partners(t) \subseteq live
  BY DEF Partners, Reached, Facing
<1> QED
  BY <1>1, <1>2, IdsFinite, Known DEF Remaining

\* What matchFOKLocked added up is there, unless somebody had left unfilled.
LEMMA SubmitCounted ==
  ASSUME TypeInv, Places, NEW sp \in Menu, Outcomes(sp), NEW r, EntryOf(sp, r), StartedAs(sp, r),
         sp.type = "fok", NEW t \in Ids', t = New, ~Excused(t)'
  PROVE  Counted(t)'
<1>1. TypeInv' /\ LeavesAlone /\ taker = 0 /\ phase' = "match"
  BY SubmitFrame DEF StartedAs, OutcomeOf
<1>2. /\ \A i \in Ids : spec'[i] = spec[i] /\ ord'[i] = ord[i] /\ i \in Ids'
      /\ spec'[t] = sp /\ ord'[t] = r /\ r.remaining = sp.qty
  BY Entered DEF EntryOf
<1>3. sp.side \in Sides /\ Opposite(sp.side) \in Sides /\ sp.qty \in Nat
  BY MenuAssumption DEF OrderSpec, Opposite, Sides
<1>4. live' = live /\ live \subseteq Ids /\ heap[Opposite(sp.side)] \subseteq Ids
  BY <1>3 DEF StartedAs, bookVars, TypeInv
<1>5. PICK A : A = AvailableFrom(sp)
  OBVIOUS
<1>6. PICK S : S = Partners(t)'
  OBVIOUS
<1>7. PICK f : f = Remaining
  OBVIOUS
<1>8. PICK g : g = Remaining'
  OBVIOUS
<1>9. A \subseteq Ids /\ IsFiniteSet(A) /\ \A j \in Ids : f[j] \in Nat /\ f[j] = ord[j].remaining /\ g[j] = f[j]
  <2>1. A \subseteq Ids
    BY <1>4, <1>5 DEF AvailableFrom
  <2>2. \A j \in Ids : g[j] = ord'[j].remaining
    BY <1>2, <1>8 DEF Remaining
  <2> QED
    BY <1>2, <1>7, <2>1, <2>2, IdsFinite, PartnersKnown
<1>10. S = {j \in A : j \in live}
  <2>1. S = {j \in live : /\ spec[j].side = Opposite(sp.side)
                          /\ Crosses(sp.side, sp.price, spec[j].price)
                          /\ ~SelfTrade(sp, j)}
    BY <1>2, <1>4, <1>6 DEF Partners, Reached, Facing, SelfTrade
  <2>2. \A j \in live : j \in heap[spec[j].side]
    BY DEF Places
  <2>3. \A j \in heap[Opposite(sp.side)] : spec[j].side = Opposite(sp.side)
    BY <1>3 DEF Places
  <2> QED
    BY <1>5, <2>1, <2>2, <2>3 DEF AvailableFrom, Crosses
<1>11. \A j \in A \ S : f[j] = 0
  <2> SUFFICES ASSUME NEW j \in A, j \notin S, f[j] # 0
               PROVE  FALSE
    OBVIOUS
  <2>1. j \in heap[Opposite(sp.side)] /\ j \notin live /\ j \in Ids
    BY <1>5, <1>9, <1>10 DEF AvailableFrom
  <2>2. ~Waiting(j) /\ ord[j].status = "cancelled" /\ spec[j].side = Opposite(sp.side)
    BY <1>3, <1>9, <2>1 DEF Places
  <2>3. ord[j].remaining > 0
    BY <1>9, <2>1
  <2>4. ~Waiting(j)' /\ ord'[j].status = "cancelled" /\ spec'[j].side = Opposite(spec'[t].side)
        /\ ord'[j].remaining > 0 /\ j \in Ids'
    BY <1>1, <1>2, <2>1, <2>2, <2>3 DEF LeavesAlone
  <2> QED
    BY <2>4 DEF Excused, GoneUnfilled
<1>12. SumOver(f, A) \in Nat /\ SumOver(f, A) >= sp.qty
  <2>1. SumOver(f, A) \in Nat
    BY <1>9, SumNat
  <2>2. Available(sp) = SumOver(f, A)
    BY <1>5, <1>7 DEF Available, SumOver
  <2>3. ~(Available(sp) < sp.qty)
    BY DEF StartedAs
  <2> QED
    BY <1>3, <2>1, <2>2, <2>3
<1>13. SumOver(g, S) = SumOver(f, A)
  <2>1. S \in SUBSET A /\ IsFiniteSet(S) /\ (\A j \in S : g[j] = f[j]) /\ IntOn(f, A)
    BY <1>9, <1>10, FS_Subset DEF IntOn
  <2>2. SumOver(f, S) = SumOver(f, A)
    BY <1>9, <1>11, <2>1, SumSupport
  <2>3. SumOver(g, S) = SumOver(f, S)
    BY <2>1, SumEqual
  <2> QED
    BY <2>2, <2>3
<1> QED
  BY <1>1, <1>2, <1>6, <1>8, <1>12, <1>13 DEF Counted

\* An order of any kind may come in.
LEMMA SubmitKeeps ==
  ASSUME MatchInv, NEW sp \in Menu, Submit(sp)
  PROVE  MatchInv' /\ LeavesAlone
<1>1. TypeInv /\ Quantities /\ Places /\ Kinds /\ Numbered /\ Uncrossed /\ FillOrKill /\ TradesInv
  BY DEF MatchInv
<1>2. Outcomes(sp)
  BY <1>1, SubmitOutcomes
<1>3. PICK r : EntryOf(sp, r) /\ OutcomeOf(sp, r)
  BY <1>2 DEF Outcomes
<1>4. /\ TypeInv' /\ LeavesAlone /\ SameAmounts
      /\ taker = 0 /\ triggered = {} /\ triggered' = {} /\ trades' = trades /\ phase' # "finish"
      /\ ord'[New].filled = 0 /\ ord'[New].remaining = sp.qty /\ sp.qty \in Nat
      /\ spec'[New] = sp /\ ord'[New] = r
      /\ live' \subseteq live \cup {New}
  BY <1>1, <1>2, <1>3, SubmitFrame
<1>5. Ids' = Ids \cup {New} /\ New \notin Ids /\ 0 \notin Ids /\ New # 0
  BY <1>1, <1>3, Entered, IdsFinite
<1>6. Quantities' /\ TradesInv'
  BY <1>1, <1>4, <1>5, QuantitiesStay, TradesStay
<1>7. Places' /\ Numbered' /\ Kinds' /\ Uncrossed'
  BY <1>1, <1>2, <1>3, SubmitPlaces, SubmitNumbers, SubmitUncrossed
<1>8. \A i \in live' \ live : spec'[i].type # "fok"
  BY <1>3, <1>4 DEF OutcomeOf, RefusedAs, StartedAs, RestedAs, ParkedAs, bookVars
<1>9. \A i \in Ids' : i = taker' => i = New /\ StartedAs(sp, r)
  BY <1>3, <1>4, <1>5 DEF OutcomeOf, RefusedAs, StartedAs, RestedAs, ParkedAs
<1>10. ASSUME NEW i \in Ids', i = taker', spec'[i].type = "fok", ~Excused(i)'
       PROVE  Counted(i)'
  BY <1>1, <1>2, <1>3, <1>4, <1>9, <1>10, SubmitCounted
<1>11. FillOrKill'
  <2>1. \A i \in Ids \ (live \cup {taker}) : ord'[i].filled = ord[i].filled
    BY <1>4 DEF SameAmounts
  <2>2. \A i \in Ids : i # taker
    BY <1>4, <1>5
  <2> QED
    BY <1>1, <1>4, <1>5, <1>8, <1>10, <2>1, <2>2, FillOrKillStep
<1> QED
  BY <1>4, <1>6, <1>7, <1>11 DEF MatchInv
-----------------------------------------------------------------------------
(***************************************************************************)
(* A fill.                                                                 *)
(***************************************************************************)
\* The fields of an order after q of it traded.
LEMMA FilledFields ==
  ASSUME NEW r \in OrderState, NEW q \in Nat, q <= r.remaining, NEW full \in Statuses
  PROVE  /\ FilledBy(r, q, full) \in OrderState
         /\ FilledBy(r, q, full).type = r.type /\ FilledBy(r, q, full).seq = r.seq
         /\ FilledBy(r, q, full).filled = r.filled + q /\ FilledBy(r, q, full).remaining = r.remaining - q
         /\ FilledBy(r, q, full).status = IF r.remaining = q THEN full ELSE "partiallyFilled"
<1>1. r.remaining \in Nat /\ r.filled \in Nat /\ r.remaining - q \in Nat /\ r.filled + q \in Nat
  BY DEF OrderState
<1>2. (IF r.remaining = q THEN full ELSE "partiallyFilled") \in Statuses
  BY DEF Statuses
<1> QED
  BY <1>1, <1>2 DEF FilledBy, OrderState

\* Taker and maker, t and m, trade q.
Exchange(t, m, q) ==
  /\ t = taker /\ t \in Ids /\ m \in live /\ m \in Ids /\ m # t
  /\ phase = "match" /\ phase' = "match"
  /\ spec[m].side = Opposite(spec[t].side) /\ Opposite(spec[t].side) \in Sides
  /\ Accepts(t, spec[m].price) /\ ~SelfTrade(spec[t], m)
  /\ \A j \in live : spec[j].side = spec[m].side /\ j # m => Less(spec[m].side, m, j)
  /\ q \in Nat /\ q <= ord[t].remaining /\ q <= ord[m].remaining
  /\ Len(ord') = Len(ord) /\ ord' \in Seq(OrderState)
  /\ \A i \in Ids \ {t, m} : ord'[i] = ord[i]
  /\ \A i \in {t, m} : /\ ord'[i].type = ord[i].type /\ ord'[i].seq = ord[i].seq
                       /\ ord'[i].filled = ord[i].filled + q /\ ord'[i].remaining = ord[i].remaining - q
  /\ ord'[m].status = IF ord[m].remaining = q THEN "cancelled" ELSE "partiallyFilled"
  /\ live' = IF ord[m].remaining = q THEN live \ {m} ELSE live
  /\ seqNo' \in Nat /\ seqNo' >= seqNo
  /\ slice' \in Nat /\ lastPrice' \in Nat
  /\ trades' = Append(trades, [taker |-> t, maker |-> m, qty |-> q, price |-> spec[m].price])
  /\ heap' = Purged(spec[m].side)
  /\ UNCHANGED <<spec, stops, triggered, taker, batchOpen>>

\* Who is matched has a taker, and who is tradable with a maker.
LEMMA TradableParties ==
  ASSUME TypeInv, Places, Numbered, Tradable
  PROVE  \E t, m : /\ t = taker /\ m = maker /\ t \in Ids /\ m \in live /\ m \in Ids /\ m # t
                   /\ spec[m].side = Opposite(spec[t].side) /\ Opposite(spec[t].side) \in Sides
                   /\ phase = "match" /\ Accepts(t, spec[m].price) /\ ord[t].remaining > 0
                   /\ \A j \in live : spec[j].side = spec[m].side /\ j # m => Less(spec[m].side, m, j)
<1>1. PICK t : t = taker
  OBVIOUS
<1>2. phase = "match" /\ t \in Ids
  BY <1>1 DEF Tradable, TypeInv
<1>3. PICK s : s = Opposite(spec[t].side)
  OBVIOUS
<1>4. s \in Sides
  BY <1>2, <1>3, Known
<1>5. PICK m : m = Best(s)
  OBVIOUS
<1>6. m = maker
  BY <1>1, <1>3, <1>5 DEF maker, side
<1>7. m # 0 /\ Accepts(t, spec[m].price) /\ ord[t].remaining > 0
  BY <1>1, <1>6 DEF Tradable
<1>8. m \in Matchable(s) /\ (\A j \in Matchable(s) \ {m} : Less(s, m, j))
  BY <1>4, <1>5, <1>7, BestIsBest
<1>9. Matchable(s) = {i \in live : spec[i].side = s} /\ Matchable(s) \subseteq Ids
  BY <1>4, MatchableLive
<1>10. t \notin live
  BY <1>1 DEF Places
<1> QED
  BY <1>1, <1>2, <1>3, <1>4, <1>6, <1>7, <1>8, <1>9, <1>10

\* A fill is an exchange, at most of an iceberg's slice.
LEMMA FillExchanges ==
  ASSUME TypeInv, Places, Numbered, Fill
  PROVE  \E t, m, q : Exchange(t, m, q) /\ (ord[t].type = "iceberg" => slice' <= ord[t].remaining - q)
<1>1. PICK t, m : /\ t = taker /\ m = maker /\ t \in Ids /\ m \in live /\ m \in Ids /\ m # t
                  /\ spec[m].side = Opposite(spec[t].side) /\ Opposite(spec[t].side) \in Sides
                  /\ phase = "match" /\ Accepts(t, spec[m].price) /\ ord[t].remaining > 0
                  /\ \A j \in live : spec[j].side = spec[m].side /\ j # m => Less(spec[m].side, m, j)
  BY TradableParties DEF Fill
<1> DEFINE want == IF ord[t].type = "iceberg" THEN slice ELSE ord[t].remaining
<1>2. PICK q : q = Least(want, ord[m].remaining)
  OBVIOUS
<1>3. /\ ord[t] \in OrderState /\ ord[m] \in OrderState /\ ord \in Seq(OrderState)
      /\ ord[t].remaining \in Nat /\ ord[m].remaining \in Nat /\ slice \in Nat /\ seqNo \in Nat
      /\ spec[m].price \in Nat /\ seqNo \in Nat
  BY <1>1, Known DEF TypeInv
<1>4. q \in Nat /\ q <= want /\ q <= ord[m].remaining
  BY <1>2, <1>3, LeastOf
<1>5. /\ ord' = [ord EXCEPT ![t] = FilledBy(@, q, "filled"), ![m] = FilledBy(@, q, "cancelled")]
      /\ live'  = IF ord[m].remaining = q THEN live \ {m} ELSE live
      /\ seqNo' = IF ord[m].remaining = q THEN seqNo + 1 ELSE seqNo
      /\ slice' = IF ord[t].type = "iceberg" THEN slice - q ELSE 0
      /\ trades' = Append(trades, [taker |-> t, maker |-> m, qty |-> q, price |-> spec[m].price])
      /\ heap' = Purged(Opposite(spec[t].side)) /\ lastPrice' = spec[m].price
      /\ UNCHANGED <<spec, stops, triggered, taker, phase, batchOpen>>
      /\ ~SelfTrade(spec[t], m)
  BY <1>1, <1>2 DEF Fill, side
<1>6. q <= ord[t].remaining
  <2>1. t # 0
    BY <1>1, IdsFinite
  <2>2. ord[t].type = "iceberg" => slice <= ord[t].remaining
    BY <1>1, <2>1 DEF Places
  <2> QED
    BY <1>3, <1>4, <2>2
<1>7. PICK x, y : x = FilledBy(ord[t], q, "filled") /\ y = FilledBy(ord[m], q, "cancelled")
  OBVIOUS
<1>8. "filled" \in Statuses /\ "cancelled" \in Statuses
  BY DEF Statuses
<1>9. /\ x \in OrderState /\ x.type = ord[t].type /\ x.seq = ord[t].seq
      /\ x.filled = ord[t].filled + q /\ x.remaining = ord[t].remaining - q
  BY <1>3, <1>4, <1>6, <1>7, <1>8, FilledFields
<1>10. /\ y \in OrderState /\ y.type = ord[m].type /\ y.seq = ord[m].seq
       /\ y.filled = ord[m].filled + q /\ y.remaining = ord[m].remaining - q
       /\ y.status = IF ord[m].remaining = q THEN "cancelled" ELSE "partiallyFilled"
  BY <1>3, <1>4, <1>7, <1>8, FilledFields
<1>11. /\ ord' \in Seq(OrderState) /\ Len(ord') = Len(ord)
       /\ ord'[t] = x /\ ord'[m] = y /\ \A i \in Ids \ {t, m} : ord'[i] = ord[i]
  <2>1. ord' = [ord EXCEPT ![t] = x, ![m] = y]
    BY <1>1, <1>5, <1>7
  <2> QED
    BY <1>1, <1>3, <1>9, <1>10, <2>1 DEF Ids
<1>12. slice' \in Nat /\ seqNo' \in Nat /\ seqNo' >= seqNo /\ lastPrice' \in Nat
  BY <1>3, <1>4, <1>5
<1>13. Exchange(t, m, q)
  BY <1>1, <1>4, <1>5, <1>6, <1>9, <1>10, <1>11, <1>12 DEF Exchange
<1>14. ord[t].type = "iceberg" => slice' <= ord[t].remaining - q
  <2>1. t # 0
    BY <1>1, IdsFinite
  <2>2. ord[t].type = "iceberg" => slice <= ord[t].remaining
    BY <1>1, <2>1 DEF Places
  <2> QED
    BY <1>3, <1>4, <1>5, <2>2
<1> QED
  BY <1>13, <1>14

\* The trade is recorded, and nobody is sent back.
LEMMA FillTypes ==
  ASSUME TypeInv, Places, NEW t, NEW m, NEW q, Exchange(t, m, q)
  PROVE  /\ TypeInv' /\ LeavesAlone /\ Ids' = Ids
         /\ \A s \in Sides : heap'[s] \subseteq heap[s]
         /\ \A i \in live : i \in heap'[spec[i].side]
<1>1. /\ m \in Ids /\ t \in Ids /\ spec[m].side \in Sides /\ live \subseteq Ids
      /\ spec[m].price \in Nat /\ trades \in Seq(Trade) /\ t \in Nat /\ m \in Nat /\ q \in Nat
  BY Known DEF Exchange, TypeInv, Ids
<1>2. Ids' = Ids
  BY DEF Exchange, Ids
<1>3. /\ heap' \in [Sides -> SUBSET Ids] /\ (\A s \in Sides : heap'[s] \subseteq heap[s])
      /\ \A i \in live : i \in heap'[spec[i].side]
  BY <1>1, PurgedKeeps DEF Exchange
<1>4. PICK e : e = [taker |-> t, maker |-> m, qty |-> q, price |-> spec[m].price]
  OBVIOUS
<1>5. e \in Trade /\ e.taker = t /\ e.maker = m /\ trades' = Append(trades, e)
  BY <1>1, <1>4 DEF Trade, Exchange
<1>6. /\ trades' \in Seq(Trade)
      /\ \A k \in DOMAIN trades' : trades'[k].taker \in Ids /\ trades'[k].maker \in Ids
  BY <1>1, <1>5 DEF TypeInv
<1>7. /\ spec' = spec /\ ord' \in Seq(OrderState) /\ Len(ord') = Len(ord) /\ live' \subseteq live
      /\ stops' = stops /\ triggered' = triggered /\ taker' = taker /\ batchOpen' = batchOpen
      /\ seqNo' \in Nat /\ slice' \in Nat /\ lastPrice' \in Nat /\ phase = "match" /\ phase' = "match"
  BY DEF Exchange
<1>8. TypeInv'
  BY <1>2, <1>3, <1>6, <1>7 DEF TypeInv
<1>9. \A i \in Ids : ~Waiting(i) => ord'[i] = ord[i] /\ ~Waiting(i)'
  BY <1>7 DEF Exchange, Waiting
<1>10. LeavesAlone
  BY <1>2, <1>7, <1>9 DEF LeavesAlone
<1> QED
  BY <1>2, <1>3, <1>8, <1>10

\* The trade is added to what both sides were filled.
LEMMA FillQuantities ==
  ASSUME TypeInv, Places, Quantities, NEW t, NEW m, NEW q, Exchange(t, m, q)
  PROVE  Quantities'
<1>1. Ids' = Ids /\ t \in Ids /\ m \in Ids /\ q \in Nat /\ spec' = spec /\ t # m
  <2>1. Ids' = Ids
    BY FillTypes
  <2> QED
    BY <2>1 DEF Exchange
<1>2. PICK n : n = Len(trades) + 1
  OBVIOUS
<1>3. PICK e : e = [taker |-> t, maker |-> m, qty |-> q, price |-> spec[m].price]
  OBVIOUS
<1>4. PICK D : D = DOMAIN trades
  OBVIOUS
<1>5. /\ trades' = Append(trades, e) /\ trades \in Seq(Trade) /\ e.taker = t /\ e.maker = m /\ e.qty = q
      /\ IsFiniteSet(D) /\ D = 1..Len(trades) /\ Len(trades) \in Nat
      /\ \A i : \A k \in D : Shares(i)[k] \in Nat
  BY <1>3, <1>4, SharesKnown DEF Exchange, TypeInv
<1>6. /\ DOMAIN trades' = D \cup {n} /\ n \notin D
      /\ (\A k \in D : trades'[k] = trades[k]) /\ trades'[n] = e
  BY <1>2, <1>4, <1>5
<1>7. ASSUME NEW i
      PROVE  Traded(i)' = Traded(i) + (IF i \in {t, m} THEN q ELSE 0) /\ Traded(i) \in Nat
  <2>1. PICK f, g : f = Shares(i) /\ g = Shares(i)'
    OBVIOUS
  <2>2. /\ \A k \in D : g[k] = f[k] /\ f[k] \in Nat
        /\ g[n] = IF i \in {t, m} THEN q ELSE 0
    BY <1>4, <1>5, <1>6, <2>1 DEF Shares
  <2>3. IntOn(g, D \cup {n})
    BY <1>1, <2>2 DEF IntOn
  <2>4. SumOver(g, D \cup {n}) = SumOver(g, D) + g[n] /\ SumOver(g, D) = SumOver(f, D) /\ SumOver(f, D) \in Nat
    BY <1>5, <1>6, <2>2, <2>3, SumAdd, SumEqual, SumNat
  <2>5. Traded(i) = SumOver(f, D) /\ Traded(i)' = SumOver(g, D \cup {n})
    BY <1>4, <1>6, <2>1 DEF Traded
  <2> QED
    BY <2>2, <2>4, <2>5
<1>8. ASSUME NEW i \in Ids
      PROVE  ord'[i].filled = Traded(i)' /\ ord'[i].filled + ord'[i].remaining = spec'[i].qty
  <2>1. /\ ord[i].filled = Traded(i) /\ ord[i].filled + ord[i].remaining = spec[i].qty
        /\ ord[i].filled \in Nat /\ ord[i].remaining \in Nat
    BY <1>8, Known DEF Quantities
  <2>2. CASE i \in {t, m}
    <3>1. Traded(i)' = Traded(i) + q
      BY <1>7, <2>2
    <3>2. ord'[i].filled = ord[i].filled + q /\ ord'[i].remaining = ord[i].remaining - q
      BY <2>2 DEF Exchange
    <3> QED
      BY <1>1, <2>1, <3>1, <3>2
  <2>3. CASE i \notin {t, m}
    BY <1>1, <1>7, <1>8, <2>1, <2>3 DEF Exchange
  <2> QED
    BY <2>2, <2>3
<1> QED
  BY <1>1, <1>8 DEF Quantities

\* The maker leaves with his last piece; his entry may stay.
LEMMA FillPlaces ==
  ASSUME TypeInv, Places, Kinds, Numbered, NEW t, NEW m, NEW q, Exchange(t, m, q),
         ord[t].type = "iceberg" => slice' <= ord[t].remaining - q
  PROVE  Places' /\ Kinds' /\ Numbered'
<1>1. /\ Ids' = Ids /\ (\A s \in Sides : heap'[s] \subseteq heap[s])
      /\ (\A i \in live : i \in heap'[spec[i].side]) /\ live \subseteq Ids /\ 0 \notin Ids
      /\ stops \subseteq Ids /\ triggered \subseteq Ids /\ heap \in [Sides -> SUBSET Ids]
  BY FillTypes, IdsFinite DEF TypeInv
<1>2. /\ t = taker /\ taker' = taker /\ spec' = spec /\ stops' = stops /\ triggered' = triggered
      /\ t \in Ids /\ m \in Ids /\ m \in live /\ m # t /\ t \notin live \cup stops \cup triggered
      /\ m \notin stops \cup triggered
      /\ seqNo' \in Nat /\ seqNo' >= seqNo /\ live' \subseteq live /\ (m \in live' => ord[m].remaining # q)
  BY DEF Exchange, Places
<1>3. /\ \A i \in Ids \ {t, m} : ord'[i] = ord[i]
      /\ \A i \in Ids : ord'[i].type = ord[i].type /\ ord'[i].seq = ord[i].seq
      /\ ord'[t].remaining = ord[t].remaining - q
      /\ ord'[m].remaining = ord[m].remaining - q
      /\ m \in live' => ord'[m].status = "partiallyFilled"
      /\ m \notin live' => ord'[m].status = "cancelled"
      /\ live \ {m} \subseteq live'
      /\ q \in Nat /\ q <= ord[m].remaining
  BY <1>2 DEF Exchange
<1>4. \A i \in Ids : ord[i].seq \in Nat /\ ord[i].remaining \in Nat
  BY Known
<1>5. Kinds'
  BY <1>1, <1>2, <1>3 DEF Kinds
<1>6. Numbered'
  <2>1. Len(ord') = Len(ord)
    BY DEF Exchange
  <2>2. \A i \in Ids : ord'[i].seq <= seqNo'
    <3>1. seqNo \in Nat
      BY DEF TypeInv
    <3>2. \A i \in Ids : ord[i].seq <= seqNo
      BY DEF Numbered
    <3> QED
      BY <1>2, <1>3, <1>4, <3>1, <3>2
  <2>3. \A i, j \in Ids : i < j /\ ord'[i].seq > 0 /\ ord'[j].seq > 0 => ord'[i].seq < ord'[j].seq
    BY <1>3 DEF Numbered
  <2>4. taker' # 0 /\ ord'[taker'].seq = 0 => taker' = Len(ord')
    BY <1>2, <1>3, <2>1 DEF Numbered
  <2> QED
    BY <1>1, <2>2, <2>3, <2>4 DEF Numbered
<1>7. \A i \in live' : /\ i \in heap'[spec'[i].side] /\ ord'[i].remaining > 0 /\ ord'[i].seq > 0
                       /\ ord'[i].status \in {"new", "partiallyFilled"} \/ ord'[i].type = "fok"
  BY <1>1, <1>2, <1>3, <1>4 DEF Places
<1>8. \A i \in stops \cup triggered :
        /\ ord'[i].filled = 0 /\ ord'[i].status = "new" /\ ord'[i].seq > 0
        /\ spec'[i].type \in StopTypes /\ ord'[i].type = spec'[i].type
  BY <1>1, <1>2, <1>3 DEF Places
<1>9. \A s \in Sides : \A i \in heap'[s] :
        /\ spec'[i].side = s
        /\ i \in live' \/ (~Waiting(i)' /\ (ord'[i].remaining = 0 \/ ord'[i].status = "cancelled"))
  BY <1>1, <1>2, <1>3 DEF Places, Waiting
<1>10. ord'[t].type \in TakerTypes /\ (ord'[t].type = "iceberg" => slice' <= ord'[t].remaining)
  BY <1>1, <1>2, <1>3 DEF Places
<1>11. /\ live' \cap (stops' \cup triggered') = {} /\ stops' \cap triggered' = {}
       /\ taker' \notin live' \cup stops' \cup triggered'
  BY <1>2 DEF Places
<1>12. Places'
  <2>1. taker' = t /\ stops' \cup triggered' = stops \cup triggered
    BY <1>2
  <2>2. \A i \in stops' \cup triggered' :
        /\ ord'[i].filled = 0 /\ ord'[i].status = "new" /\ ord'[i].seq > 0
        /\ spec'[i].type \in StopTypes /\ ord'[i].type = spec'[i].type
    BY <1>8, <2>1
  <2>3. taker' # 0 => /\ ord'[taker'].type \in TakerTypes
                      /\ ord'[taker'].type = "iceberg" => slice' <= ord'[taker'].remaining
    BY <1>10, <2>1
  <2> QED
    BY <1>7, <1>9, <1>11, <2>2, <2>3 DEF Places
<1> QED
  BY <1>5, <1>6, <1>12

\* The price is one the taker accepts, and the maker's.
LEMMA FillTrades ==
  ASSUME TypeInv, Places, Kinds, TradesInv, NEW t, NEW m, NEW q, Exchange(t, m, q)
  PROVE  TradesInv'
<1>1. PICK e : e = [taker |-> t, maker |-> m, qty |-> q, price |-> spec[m].price]
  OBVIOUS
<1>2. /\ trades' = Append(trades, e) /\ trades \in Seq(Trade) /\ spec' = spec
      /\ e.taker = t /\ e.maker = m /\ e.price = spec[m].price
  BY <1>1 DEF Exchange, TypeInv
<1>3. /\ Len(trades) \in Nat /\ DOMAIN trades = 1..Len(trades)
      /\ DOMAIN trades' = DOMAIN trades \cup {Len(trades) + 1}
      /\ \A k \in DOMAIN trades : trades'[k] = trades[k]
      /\ trades'[Len(trades) + 1] = e
  BY <1>2
<1>4. t \in Ids /\ m \in Ids /\ Accepts(t, spec[m].price) /\ ~SelfTrade(spec[t], m)
  BY DEF Exchange
<1>5. /\ ord[t].type = spec[t].type
           \/ (spec[t].type \in StopTypes /\ ord[t].type = TypeAfterTrigger(spec[t].type))
      /\ spec[t].side \in Sides
  BY <1>4, Known DEF Kinds
<1>6. spec[t].price > 0 /\ spec[t].type \notin {"market", "stopLoss"} =>
        IF spec[t].side = "buy" THEN spec[m].price <= spec[t].price ELSE spec[m].price >= spec[t].price
  <2> SUFFICES ASSUME spec[t].price > 0, spec[t].type \notin {"market", "stopLoss"}
               PROVE  IF spec[t].side = "buy" THEN spec[m].price <= spec[t].price ELSE spec[m].price >= spec[t].price
    OBVIOUS
  <2>1. ord[t].type # "market"
    BY <1>5 DEF StopTypes, TypeAfterTrigger
  <2>2. spec[t].price # 0
    BY <1>4, Known
  <2> QED
    BY <1>4, <2>1, <2>2 DEF Accepts
<1>7. PricesRespected'
  <2> SUFFICES ASSUME NEW k \in DOMAIN trades'
               PROVE  /\ trades'[k].price = spec[trades'[k].maker].price
                      /\ spec[trades'[k].taker].price > 0 /\ spec[trades'[k].taker].type \notin {"market", "stopLoss"} =>
                           IF spec[trades'[k].taker].side = "buy" THEN trades'[k].price <= spec[trades'[k].taker].price
                                                                  ELSE trades'[k].price >= spec[trades'[k].taker].price
    BY <1>2 DEF PricesRespected
  <2>1. CASE k \in DOMAIN trades
    BY <1>3, <2>1 DEF TradesInv, PricesRespected
  <2>2. CASE k = Len(trades) + 1
    BY <1>2, <1>3, <1>6, <2>2
  <2> QED
    BY <1>3, <2>1, <2>2
<1>8. NoSelfTrade'
  <2> SUFFICES ASSUME NEW k \in DOMAIN trades', spec[trades'[k].taker].stp # "disabled" \/ EngineSTP # "disabled"
               PROVE  spec[trades'[k].taker].user # spec[trades'[k].maker].user
    BY <1>2 DEF NoSelfTrade
  <2>1. CASE k \in DOMAIN trades
    BY <1>3, <2>1 DEF TradesInv, NoSelfTrade
  <2>2. CASE k = Len(trades) + 1
    BY <1>2, <1>3, <1>4, <2>2 DEF SelfTrade
  <2> QED
    BY <1>3, <2>1, <2>2
<1> QED
  BY <1>7, <1>8 DEF TradesInv

\* What the taker gets is what his partners lose.
LEMMA FillCounted ==
  ASSUME TypeInv, Places, Kinds, NEW t, NEW m, NEW q, Exchange(t, m, q), Counted(t), spec[t].type = "fok"
  PROVE  Counted(t)'
<1>1. /\ t \in Ids /\ m \in Ids /\ m \in live /\ m # t /\ q \in Nat /\ spec' = spec /\ phase' = "match"
      /\ spec[m].side = Opposite(spec[t].side) /\ Accepts(t, spec[m].price) /\ ~SelfTrade(spec[t], m)
      /\ q <= ord[m].remaining /\ q <= ord[t].remaining
      /\ live' = IF ord[m].remaining = q THEN live \ {m} ELSE live
      /\ ord'[t].remaining = ord[t].remaining - q
  BY DEF Exchange
<1>2. Ids' = Ids
  BY FillTypes
<1>3. PICK S, T : S = Partners(t) /\ T = Partners(t)'
  OBVIOUS
<1>4. PICK f, g : f = Remaining /\ g = Remaining'
  OBVIOUS
<1>5. S \subseteq Ids /\ S \subseteq live /\ IsFiniteSet(S) /\ t \notin S
  <2>1. t \notin live
    BY DEF Exchange, Places
  <2> QED
    BY <1>3, <2>1, PartnersKnown
<1>6. /\ \A j \in Ids : f[j] = ord[j].remaining /\ f[j] \in Nat
      /\ \A j \in Ids : g[j] = ord'[j].remaining
  BY <1>2, <1>4, PartnersKnown DEF Remaining
<1>7. /\ \A j \in S \ {m} : g[j] = f[j]
      /\ g[m] = f[m] - q /\ g[m] \in Nat /\ f[m] \in Nat
  <2>1. \A i \in Ids \ {t, m} : ord'[i] = ord[i]
    BY DEF Exchange
  <2>2. ord'[m].remaining = ord[m].remaining - q
    BY DEF Exchange
  <2>3. \A j \in S \ {m} : g[j] = f[j]
    BY <1>5, <1>6, <2>1
  <2>4. f[m] = ord[m].remaining /\ f[m] \in Nat /\ g[m] = ord'[m].remaining
    BY <1>1, <1>6
  <2>5. g[m] = f[m] - q /\ g[m] \in Nat
    BY <1>1, <2>2, <2>4
  <2> QED
    BY <2>3, <2>4, <2>5
<1>8. m \in S
  <2>1. ord[t].type = "fok"
    BY <1>1 DEF Kinds, StopTypes
  <2>2. Crosses(spec[t].side, spec[t].price, spec[m].price)
    BY <1>1, <2>1 DEF Accepts, Crosses
  <2> QED
    BY <1>1, <1>3, <2>2 DEF Partners, Reached, Facing
<1>9. T = IF ord[m].remaining = q THEN S \ {m} ELSE S
  BY <1>1, <1>3 DEF Partners, Reached, Facing, SelfTrade
<1>10. IntOn(f, S) /\ IntOn(g, S)
  BY <1>5, <1>6, <1>7 DEF IntOn
<1>11. SumOver(g, S) = SumOver(f, S) - q /\ SumOver(f, S) \in Nat
  <2>1. SumOver(g, S) = SumOver(f, S) - f[m] + g[m]
    BY <1>5, <1>7, <1>8, <1>10, SumChange
  <2>2. SumOver(f, S) \in Nat
    BY <1>5, <1>6, SumNat
  <2> QED
    BY <1>1, <1>7, <2>1, <2>2
<1>12. SumOver(g, T) = SumOver(g, S)
  <2>1. CASE ord[m].remaining = q
    <3>1. T \in SUBSET S /\ \A x \in S \ T : g[x] = 0
      BY <1>1, <1>6, <1>7, <1>9, <2>1
    <3> QED
      BY <1>5, <1>10, <3>1, SumSupport
  <2>2. CASE ord[m].remaining # q
    BY <1>9, <2>2
  <2> QED
    BY <2>1, <2>2
<1>13. SumOver(f, S) >= ord[t].remaining
  BY <1>3, <1>4 DEF Counted
<1>14. SumOver(g, T) >= ord'[t].remaining
  BY <1>1, <1>6, <1>11, <1>12, <1>13
<1>15. SumOver(Remaining, Partners(t))' = SumOver(g, T)
  BY <1>3, <1>4
<1> QED
  BY <1>1, <1>14, <1>15 DEF Counted

\* A fill preserves the invariant.
LEMMA FillKeeps ==
  ASSUME MatchInv, Fill
  PROVE  MatchInv' /\ LeavesAlone
<1>1. TypeInv /\ Quantities /\ Places /\ Kinds /\ Numbered /\ Uncrossed /\ FillOrKill /\ TradesInv
  BY DEF MatchInv
<1>2. PICK t, m, q : Exchange(t, m, q) /\ (ord[t].type = "iceberg" => slice' <= ord[t].remaining - q)
  BY <1>1, FillExchanges
<1>3. TypeInv' /\ LeavesAlone /\ Ids' = Ids
  BY <1>1, <1>2, FillTypes
<1>4. Quantities' /\ Places' /\ Kinds' /\ Numbered' /\ TradesInv'
  BY <1>1, <1>2, FillQuantities, FillPlaces, FillTrades
<1>5. /\ t = taker /\ taker' = taker /\ m \in live /\ live' \subseteq live /\ phase' = "match" /\ spec' = spec
      /\ \A i \in Ids \ {t, m} : ord'[i] = ord[i]
  BY <1>2 DEF Exchange
<1>6. Uncrossed'
  BY <1>1, <1>3, <1>5, UncrossedStays
<1>7. FillOrKill'
  <2>1. \A i \in Ids \ (live \cup {taker}) : ord'[i].filled = ord[i].filled
    BY <1>5
  <2>2. ASSUME NEW i \in Ids', i = taker', spec'[i].type = "fok", ~Excused(i)'
        PROVE  Counted(i)'
    <3>1. i \in Ids /\ i = t /\ spec[i].type = "fok" /\ ~Excused(i)
      BY <1>1, <1>3, <1>5, <2>2, ExcusedStays
    <3>2. Counted(i)
      BY <1>1, <1>5, <3>1 DEF FillOrKill
    <3> QED
      BY <1>1, <1>2, <3>1, <3>2, FillCounted
  <2> QED
    BY <1>1, <1>3, <1>5, <2>1, <2>2, FillOrKillStep
<1> QED
  BY <1>3, <1>4, <1>6, <1>7 DEF MatchInv
-----------------------------------------------------------------------------
(***************************************************************************)
(* Steps that trade nothing.                                               *)
(***************************************************************************)
Quiet ==
  /\ spec' = spec /\ trades' = trades /\ ord' \in Seq(OrderState) /\ Len(ord') = Len(ord)
  /\ SameAmounts
  /\ \A i \in Ids : ~Waiting(i) => ord'[i] = ord[i] /\ ~Waiting(i)'

\* What does not depend on the places.
LEMMA QuietFrame ==
  ASSUME TypeInv, Quantities, TradesInv, Quiet,
         live' \subseteq Ids, stops' \subseteq Ids, triggered' \subseteq Ids,
         heap' \in [Sides -> SUBSET Ids], seqNo' \in Nat, lastPrice' = lastPrice,
         slice' \in Nat, batchOpen' \in BOOLEAN, taker' \in Ids \cup {0},
         phase' \in {"idle", "match", "finish"}, phase' = "idle" <=> taker' = 0
  PROVE  TypeInv' /\ LeavesAlone /\ SameAmounts /\ Quantities' /\ TradesInv' /\ Ids' = Ids
<1>1. Ids' = Ids
  BY DEF Quiet, Ids
<1>2. TypeInv'
  BY <1>1 DEF TypeInv, Quiet
<1>3. LeavesAlone /\ SameAmounts
  BY <1>1 DEF LeavesAlone, Quiet
<1>4. trades' = trades
  BY DEF Quiet
<1>5. \A i \in Ids' \ Ids : ord'[i].filled = 0 /\ ord'[i].remaining = spec'[i].qty /\ spec'[i].qty \in Nat
  BY <1>1
<1>6. Quantities'
  BY <1>3, <1>4, <1>5, QuantitiesStay
<1>7. TradesInv'
  BY <1>3, <1>4, TradesStay
<1> QED
  BY <1>1, <1>2, <1>3, <1>6, <1>7

\* What the taker counted on is there while nobody trades or leaves the book.
LEMMA CountStays ==
  ASSUME TypeInv, SameAmounts, Ids' = Ids, spec' = spec, live' = live, NEW t \in Ids, Counted(t),
         phase' = "finish" => ord[t].remaining = 0
  PROVE  Counted(t)'
<1>1. PICK S : S = Partners(t)
  OBVIOUS
<1>2. Partners(t)' = S
  BY <1>1 DEF Partners, Reached, Facing, SelfTrade
<1>3. PICK f, g : f = Remaining /\ g = Remaining'
  OBVIOUS
<1>4. f = g
  BY <1>3 DEF Remaining, SameAmounts
<1>5. SumOver(Remaining, Partners(t))' = SumOver(f, S) /\ SumOver(f, S) >= ord[t].remaining
  BY <1>1, <1>2, <1>3, <1>4 DEF Counted
<1> QED
  BY <1>5 DEF Counted, SameAmounts

\* Only who is prevented from trading with himself has a mode that forbids it.
LEMMA ModeOfSelfTrade ==
  ASSUME TypeInv, NEW t \in Ids, NEW m, SelfTrade(spec[t], m)
  PROVE  Mode(spec[t]) \in {"cancelTaker", "cancelMaker", "cancelBoth"}
<1>1. spec[t].stp \in STPModes /\ EngineSTP \in STPModes
  BY Known, MenuAssumption
<1> QED
  BY <1>1 DEF SelfTrade, Mode, STPModes

\* Whoever the mode names goes, and fill-or-kill orders of the other side are excused.
LEMMA PreventSelfTradeKeeps ==
  ASSUME MatchInv, PreventSelfTrade
  PROVE  MatchInv' /\ LeavesAlone
<1>1. TypeInv /\ Quantities /\ Places /\ Kinds /\ Numbered /\ Uncrossed /\ FillOrKill /\ TradesInv
  BY DEF MatchInv
<1>2. PICK t, m : /\ t = taker /\ m = maker /\ t \in Ids /\ m \in live /\ m \in Ids /\ m # t
                  /\ spec[m].side = Opposite(spec[t].side) /\ Opposite(spec[t].side) \in Sides
                  /\ phase = "match" /\ Accepts(t, spec[m].price) /\ ord[t].remaining > 0
                  /\ \A j \in live : spec[j].side = spec[m].side /\ j # m => Less(spec[m].side, m, j)
  BY <1>1, TradableParties DEF PreventSelfTrade
<1> DEFINE mode == Mode(spec[t])
           mg   == mode \in {"cancelMaker", "cancelBoth"}
           tg   == mode \in {"cancelTaker", "cancelBoth"}
<1>3. PICK makerGoes, takerGoes : makerGoes = mg /\ takerGoes = tg
  OBVIOUS
<1>4. /\ ord' = [i \in Ids |->
              IF (i = m /\ mg) \/ (i = t /\ tg /\ ord[i].type # "iceberg")
                THEN [ord[i] EXCEPT !.status = "cancelled"] ELSE ord[i]]
      /\ live'  = IF mg THEN live \ {m} ELSE live
      /\ seqNo' = IF mg THEN seqNo + 1 ELSE seqNo
      /\ phase' = IF tg THEN "finish" ELSE "match"
      /\ heap' = Purged(Opposite(spec[t].side))
      /\ UNCHANGED <<spec, stops, triggered, lastPrice, taker, slice, batchOpen, trades>>
      /\ SelfTrade(spec[t], m)
  BY <1>2 DEF PreventSelfTrade, side
<1>5. /\ ord \in Seq(OrderState) /\ seqNo \in Nat /\ live \subseteq Ids /\ slice \in Nat /\ batchOpen \in BOOLEAN
      /\ stops \subseteq Ids /\ triggered \subseteq Ids /\ heap \in [Sides -> SUBSET Ids] /\ 0 \notin Ids
      /\ \A i \in Ids : ord[i] \in OrderState
  BY <1>1, Known, IdsFinite DEF TypeInv
<1>6. ASSUME NEW i \in Ids
      PROVE  /\ ord'[i] \in OrderState
             /\ ord'[i].type = ord[i].type /\ ord'[i].seq = ord[i].seq
             /\ ord'[i].filled = ord[i].filled /\ ord'[i].remaining = ord[i].remaining
             /\ i \notin {t, m} => ord'[i] = ord[i]
             /\ i = m /\ mg => ord'[i].status = "cancelled"
             /\ i = m /\ ~mg => ord'[i] = ord[i]
  <2>1. ord[i] \in OrderState /\ "cancelled" \in Statuses
    BY <1>5 DEF Statuses
  <2>2. ord'[i] = IF (i = m /\ mg) \/ (i = t /\ tg /\ ord[i].type # "iceberg")
                    THEN [ord[i] EXCEPT !.status = "cancelled"] ELSE ord[i]
    BY <1>4
  <2> HIDE DEF mg, tg
  <2>3. CASE ord'[i] = [ord[i] EXCEPT !.status = "cancelled"] /\ i \in {t, m} /\ (i = m => mg)
    BY <2>1, <2>3 DEF OrderState
  <2>4. CASE ord'[i] = ord[i] /\ (i = m => ~mg)
    BY <2>1, <2>4
  <2> QED
    BY <1>2, <2>2, <2>3, <2>4
<1>7. ord' \in Seq(OrderState) /\ Len(ord') = Len(ord)
  <2>1. Len(ord) \in Nat /\ ord' = [i \in 1..Len(ord) |-> ord'[i]] /\ \A i \in 1..Len(ord) : ord'[i] \in OrderState
    BY <1>4, <1>5, <1>6 DEF Ids
  <2> QED
    BY <2>1
<1>8. /\ heap' \in [Sides -> SUBSET Ids] /\ (\A s \in Sides : heap'[s] \subseteq heap[s])
      /\ \A i \in live : i \in heap'[spec[i].side]
  BY <1>1, <1>2, <1>4, PurgedKeeps
<1>9. /\ t \notin live \cup stops \cup triggered /\ m \notin stops \cup triggered
      /\ live' \subseteq live /\ live \ {m} \subseteq live' /\ (m \in live' <=> ~mg)
      /\ taker' = t /\ stops' = stops /\ triggered' = triggered
  BY <1>1, <1>2, <1>4 DEF Places
<1> HIDE DEF mg, tg, mode
<1>10. Quiet
  <2>1. \A i \in Ids : ~Waiting(i) => ord'[i] = ord[i] /\ ~Waiting(i)'
    BY <1>2, <1>6, <1>9 DEF Waiting
  <2> QED
    BY <1>4, <1>6, <1>7, <2>1 DEF Quiet, SameAmounts
<1>11. TypeInv' /\ LeavesAlone /\ SameAmounts /\ Quantities' /\ TradesInv' /\ Ids' = Ids
  <2>1. /\ live' \subseteq Ids /\ stops' \subseteq Ids /\ triggered' \subseteq Ids /\ seqNo' \in Nat
        /\ lastPrice' = lastPrice /\ slice' \in Nat /\ batchOpen' \in BOOLEAN /\ taker' \in Ids
        /\ phase' \in {"idle", "match", "finish"} /\ phase' # "idle" /\ taker' # 0
    BY <1>2, <1>4, <1>5, <1>9
  <2> QED
    BY <1>1, <1>8, <1>10, <2>1, QuietFrame
<1>12. Kinds'
  BY <1>1, <1>4, <1>6, <1>11 DEF Kinds
<1>13. Numbered'
  <2>1. seqNo' >= seqNo /\ seqNo' \in Nat /\ \A i \in Ids : ord[i].seq \in Nat /\ ord[i].seq <= seqNo
    BY <1>1, <1>4, <1>5, Known DEF Numbered
  <2>2. taker' # 0 /\ ord'[taker'].seq = 0 => taker' = Len(ord')
    BY <1>1, <1>2, <1>6, <1>7, <1>9 DEF Numbered
  <2>3. \A i, j \in Ids : i < j /\ ord'[i].seq > 0 /\ ord'[j].seq > 0 => ord'[i].seq < ord'[j].seq
    BY <1>1, <1>6 DEF Numbered
  <2>4. \A i \in Ids : ord'[i].seq <= seqNo'
    BY <1>5, <1>6, <2>1
  <2> QED
    BY <1>11, <2>2, <2>3, <2>4 DEF Numbered
<1>14. Places'
  <2>1. \A i \in live' : /\ i \in heap'[spec'[i].side] /\ ord'[i].remaining > 0 /\ ord'[i].seq > 0
                         /\ ord'[i].status \in {"new", "partiallyFilled"} \/ ord'[i].type = "fok"
    BY <1>1, <1>2, <1>4, <1>5, <1>6, <1>8, <1>9 DEF Places
  <2>2. \A i \in stops \cup triggered : ord'[i] = ord[i]
    BY <1>5, <1>6, <1>9
  <2>3. \A s \in Sides : \A i \in heap'[s] :
          /\ spec'[i].side = s
          /\ i \in live' \/ (~Waiting(i)' /\ (ord'[i].remaining = 0 \/ ord'[i].status = "cancelled"))
    <3> SUFFICES ASSUME NEW s \in Sides, NEW i \in heap'[s]
                 PROVE  /\ spec'[i].side = s
                        /\ i \in live' \/ (~Waiting(i)' /\ (ord'[i].remaining = 0 \/ ord'[i].status = "cancelled"))
      OBVIOUS
    <3>1. i \in heap[s] /\ i \in Ids
      BY <1>5, <1>8
    <3>2. spec[i].side = s /\ (i \in live \/ (~Waiting(i) /\ (ord[i].remaining = 0 \/ ord[i].status = "cancelled")))
      BY <1>1, <3>1 DEF Places
    <3>3. CASE i = m
      BY <1>2, <1>4, <1>6, <1>9, <3>2, <3>3 DEF Waiting
    <3>4. CASE i \in live \ {m}
      BY <1>4, <1>9, <3>2, <3>4
    <3>5. CASE i \notin live
      BY <1>4, <1>10, <3>1, <3>2, <3>5 DEF Quiet
    <3> QED
      BY <3>3, <3>4, <3>5
  <2>4. ord'[t].type \in TakerTypes /\ (ord'[t].type = "iceberg" => slice' <= ord'[t].remaining)
    BY <1>1, <1>2, <1>4, <1>5, <1>6 DEF Places
  <2>5. /\ live' \cap (stops' \cup triggered') = {} /\ stops' \cap triggered' = {}
        /\ taker' \notin live' \cup stops' \cup triggered'
    BY <1>1, <1>9 DEF Places
  <2>6. \A i \in stops' \cup triggered' :
          /\ ord'[i].filled = 0 /\ ord'[i].status = "new" /\ ord'[i].seq > 0
          /\ spec'[i].type \in StopTypes /\ ord'[i].type = spec'[i].type
    <3>1. \A i \in stops \cup triggered :
            /\ ord[i].filled = 0 /\ ord[i].status = "new" /\ ord[i].seq > 0
            /\ spec[i].type \in StopTypes /\ ord[i].type = spec[i].type
      BY <1>1 DEF Places
    <3>2. stops' \cup triggered' = stops \cup triggered /\ spec' = spec
      BY <1>4, <1>9
    <3> QED
      BY <2>2, <3>1, <3>2
  <2>7. taker' # 0 => /\ ord'[taker'].type \in TakerTypes
                      /\ ord'[taker'].type = "iceberg" => slice' <= ord'[taker'].remaining
    BY <1>9, <2>4
  <2> QED
    BY <2>1, <2>3, <2>5, <2>6, <2>7 DEF Places
<1>15. tg => MayBeStopped(spec[t])
  BY DEF tg, mode, MayBeStopped
<1>16. Uncrossed'
  <2>1. \A i \in live' : spec'[i] = spec[i] /\ i \in live
    BY <1>4, <1>9
  <2>2. phase' = "finish" => MayBeStopped(spec'[taker'])
    BY <1>4, <1>9, <1>15
  <2>3. \A b, a \in live' :
          spec'[b].side = "buy" /\ spec'[a].side = "sell" =>
            spec'[b].price < spec'[a].price \/ MayBeStopped(spec'[b]) \/ MayBeStopped(spec'[a])
    BY <1>1, <2>1 DEF Uncrossed
  <2> QED
    BY <2>2, <2>3 DEF Uncrossed, MayBeStopped, Mode
<1>17. Excused(t)'
  <2>1. CASE tg
    BY <1>4, <1>15, <2>1 DEF Excused, MayBeStopped, Mode
  <2>2. CASE mg
    <3>1. ~Waiting(m)' /\ ord'[m].status = "cancelled" /\ spec'[m].side = Opposite(spec'[t].side)
      BY <1>2, <1>4, <1>6, <1>9, <2>2 DEF Waiting
    <3>2. ord'[m].remaining > 0 /\ m \in Ids'
      BY <1>1, <1>2, <1>6, <1>11 DEF Places
    <3> QED
      BY <3>1, <3>2 DEF Excused, GoneUnfilled
  <2> QED
    BY <1>1, <1>2, <1>4, <2>1, <2>2, ModeOfSelfTrade DEF mg, tg, mode
<1>18. FillOrKill'
  <2>1. \A i \in Ids \ (live \cup {taker}) : ord'[i].filled = ord[i].filled
    BY <1>6
  <2> QED
    BY <1>1, <1>2, <1>9, <1>11, <1>17, <2>1, FillOrKillStep
<1> QED
  BY <1>11, <1>12, <1>13, <1>14, <1>16, <1>18 DEF MatchInv

\* Matching stops when there is nobody left whom the taker reaches.
LEMMA StopMatchingKeeps ==
  ASSUME MatchInv, StopMatching
  PROVE  MatchInv' /\ LeavesAlone
<1>1. TypeInv /\ Quantities /\ Places /\ Kinds /\ Numbered /\ Uncrossed /\ FillOrKill /\ TradesInv
  BY DEF MatchInv
<1>2. PICK t : t = taker
  OBVIOUS
<1>3. t \in Ids /\ t # 0 /\ phase = "match" /\ ord[t].remaining \in Nat
  <2>1. t \in Ids /\ phase = "match"
    BY <1>1, <1>2 DEF StopMatching, TypeInv
  <2> QED
    BY <1>1, <2>1, IdsFinite, Known
<1>4. /\ phase' = "finish"
      /\ heap' = IF ord[t].remaining > 0 THEN Purged(Opposite(spec[t].side)) ELSE heap
      /\ UNCHANGED <<spec, ord, live, seqNo, stops, triggered, lastPrice, taker, slice, batchOpen, trades>>
  BY <1>2 DEF StopMatching, side
<1>5. /\ ord \in Seq(OrderState) /\ seqNo \in Nat /\ live \subseteq Ids /\ slice \in Nat /\ batchOpen \in BOOLEAN
      /\ stops \subseteq Ids /\ triggered \subseteq Ids /\ heap \in [Sides -> SUBSET Ids] /\ taker' = t
      /\ \A i \in live : i \in heap[spec[i].side]
  BY <1>1, <1>2, <1>4 DEF TypeInv, Places
<1>6. /\ heap' \in [Sides -> SUBSET Ids] /\ (\A s \in Sides : heap'[s] \subseteq heap[s])
      /\ \A i \in live : i \in heap'[spec[i].side]
  <2>1. Opposite(spec[t].side) \in Sides
    BY <1>1, <1>3, Known
  <2> QED
    BY <1>1, <1>4, <1>5, <2>1, PurgedKeeps
<1>7. Quiet
  <2>1. \A i \in Ids : ~Waiting(i) => ~Waiting(i)'
    BY <1>4 DEF Waiting
  <2> QED
    BY <1>4, <1>5, <2>1 DEF Quiet, SameAmounts
<1>8. TypeInv' /\ LeavesAlone /\ SameAmounts /\ Quantities' /\ TradesInv' /\ Ids' = Ids
  BY <1>1, <1>3, <1>4, <1>5, <1>6, <1>7, QuietFrame
<1>9. Places'
  BY <1>1, <1>4, <1>6 DEF Places, Waiting
<1>10. Kinds' /\ Numbered'
  BY <1>1, <1>4, <1>8 DEF Kinds, Numbered
<1>11. ord[t].type \in {"limit", "fok"} /\ ord[t].remaining > 0 => Reached(t) = {}
  <2> SUFFICES ASSUME ord[t].type \in {"limit", "fok"}, ord[t].remaining > 0
               PROVE  Reached(t) = {}
    OBVIOUS
  <2>1. spec[t].side \in Sides /\ spec[t].price \in Nat
    BY <1>1, <1>3, Known
  <2>2. PICK b : b = Best(Opposite(spec[t].side))
    OBVIOUS
  <2>3. b = maker
    BY <1>2, <2>2 DEF maker, side
  <2>4. ~(b # 0 /\ Accepts(t, spec[b].price))
    BY <1>2, <1>3, <2>3 DEF StopMatching, Tradable
  <2>5. b # 0 => ~Crosses(spec[t].side, spec[t].price, spec[b].price)
    BY <2>4 DEF Accepts, Crosses
  <2>6. \A j \in live : spec[j].side = Opposite(spec[t].side) => ~Crosses(spec[t].side, spec[t].price, spec[j].price)
    BY <1>1, <2>1, <2>2, <2>5, NoneCrossed
  <2> QED
    BY <2>6 DEF Reached, Facing
<1>12. Reached(t)' = Reached(t) /\ Partners(t)' = Partners(t)
  BY <1>4 DEF Reached, Facing, Partners, SelfTrade
<1>13. Uncrossed'
  <2>1. \A b, a \in live :
          spec[b].side = "buy" /\ spec[a].side = "sell" =>
            spec[b].price < spec[a].price \/ MayBeStopped(spec[b]) \/ MayBeStopped(spec[a])
    BY <1>1 DEF Uncrossed
  <2>2. ord'[taker'].type \in {"limit", "fok"} /\ ord'[taker'].remaining > 0 => Reached(taker)' = {}
    BY <1>2, <1>4, <1>11, <1>12
  <2> QED
    BY <1>4, <2>1, <2>2 DEF Uncrossed, MayBeStopped, Mode
<1>14. ASSUME spec[t].type = "fok", ~Excused(t)
       PROVE  Counted(t)'
  <2>1. Counted(t) /\ ord[t].type = "fok"
    BY <1>1, <1>2, <1>3, <1>14 DEF FillOrKill, Kinds, StopTypes
  <2>2. CASE ord[t].remaining > 0
    <3>1. Partners(t) = {}
      BY <1>11, <2>1, <2>2 DEF Partners
    <3>2. SumOver(Remaining, {}) = 0
      BY SumEmpty
    <3> QED
      BY <1>3, <2>1, <2>2, <3>1, <3>2 DEF Counted
  <2>3. CASE ord[t].remaining = 0
    BY <1>1, <1>3, <1>4, <1>8, <2>1, <2>3, CountStays
  <2> QED
    BY <1>3, <2>2, <2>3
<1>15. FillOrKill'
  <2>1. ASSUME NEW i \in Ids', i = taker', spec'[i].type = "fok", ~Excused(i)'
        PROVE  Counted(i)'
    BY <1>1, <1>4, <1>5, <1>8, <1>14, <2>1, ExcusedStays
  <2> QED
    BY <1>1, <1>2, <1>4, <1>5, <1>8, <2>1, FillOrKillStep
<1> QED
  BY <1>8, <1>9, <1>10, <1>13, <1>15 DEF MatchInv
-----------------------------------------------------------------------------
(***************************************************************************)
(* The end of processing an order.                                         *)
(***************************************************************************)
\* Nobody is matched any more.
LEMMA Unmatched ==
  ASSUME MatchInv, NEW t, t = taker, phase = "finish", Done, spec' = spec, trades' = trades,
         ord' \in Seq(OrderState), Len(ord') = Len(ord), SameAmounts, \A i \in Ids \ {t} : ord'[i] = ord[i],
         live' \subseteq live \cup {t}, live \subseteq live', stops' = stops, triggered' = triggered,
         heap' \in [Sides -> SUBSET Ids], seqNo' \in Nat, lastPrice' = lastPrice, batchOpen' = batchOpen,
         t \in live' => ord[t].remaining > 0
  PROVE  /\ TypeInv' /\ LeavesAlone /\ Quantities' /\ TradesInv' /\ Ids' = Ids
         /\ t \in Ids /\ t # 0 /\ 0 \notin Ids /\ live' \subseteq Ids
         /\ FillOrKill'
<1>1. TypeInv /\ Quantities /\ Places /\ FillOrKill /\ TradesInv
  BY DEF MatchInv
<1>2. t \in Ids /\ t # 0 /\ 0 \notin Ids
  <2>1. t \in Ids
    BY <1>1 DEF TypeInv
  <2> QED
    BY <1>1, <2>1, IdsFinite
<1>3. /\ live' \subseteq Ids /\ stops' \subseteq Ids /\ triggered' \subseteq Ids
      /\ slice' = 0 /\ taker' = 0 /\ phase' = "idle" /\ batchOpen' \in BOOLEAN
  BY <1>1, <1>2 DEF TypeInv, Done
<1>4. Quiet
  <2>1. \A i \in Ids : ~Waiting(i) => i # t /\ ~Waiting(i)'
    BY <1>2, <1>3 DEF Waiting
  <2> QED
    BY <2>1 DEF Quiet
<1>5. TypeInv' /\ LeavesAlone /\ Quantities' /\ TradesInv' /\ Ids' = Ids
  BY <1>1, <1>3, <1>4, QuietFrame
<1>6. spec[t].type = "fok" /\ ~Excused(t) => ord[t].remaining = 0 /\ ord[t].filled = spec[t].qty
  <2>1. spec[t].type = "fok" /\ ~Excused(t) => ord[t].remaining = 0
    BY <1>1, <1>2 DEF FillOrKill, Counted
  <2>2. ord[t].filled + ord[t].remaining = spec[t].qty /\ ord[t].filled \in Nat
    BY <1>1, <1>2, Known DEF Quantities
  <2> QED
    BY <2>1, <2>2
<1>7. FillOrKill'
  <2>1. \A i \in live' \ live : spec'[i].type = "fok" => Excused(i)'
    <3>1. \A i \in live' \ live : spec'[i].type = "fok" => Excused(i)
      BY <1>2, <1>6
    <3> QED
      BY <1>1, <1>2, <1>5, <3>1, ExcusedStays
  <2>2. \A i \in Ids : i = taker /\ i # taker' /\ spec[i].type = "fok" /\ ~Excused(i) =>
                         ord'[i].filled \in {0, spec[i].qty}
    BY <1>6 DEF SameAmounts
  <2>3. \A i \in Ids' : i # taker'
    BY <1>2, <1>3, <1>5
  <2>4. \A i \in Ids \ (live \cup {taker}) : ord'[i].filled = ord[i].filled
    OBVIOUS
  <2> QED
    BY <1>1, <1>5, <2>1, <2>2, <2>3, <2>4, FillOrKillStep
<1> QED
  BY <1>2, <1>3, <1>5, <1>7

\* What remains of an order is dropped.
LEMMA DropKeeps ==
  ASSUME MatchInv, NEW t, t = taker, NEW st \in Statuses, phase = "finish", Done,
         ord' = [ord EXCEPT ![t].status = st],
         UNCHANGED <<spec, bookVars, stops, triggered, lastPrice, batchOpen, trades>>
  PROVE  MatchInv' /\ LeavesAlone
<1>1. TypeInv /\ Quantities /\ Places /\ Kinds /\ Numbered /\ Uncrossed /\ FillOrKill /\ TradesInv
  BY DEF MatchInv
<1>2. t \in Ids /\ ord \in Seq(OrderState) /\ ord[t] \in OrderState /\ t # 0
  <2>1. t \in Ids
    BY <1>1 DEF TypeInv
  <2> QED
    BY <1>1, <2>1, IdsFinite, Known DEF TypeInv
<1>3. PICK r : r = [ord[t] EXCEPT !.status = st]
  OBVIOUS
<1>4. /\ r \in OrderState /\ r.type = ord[t].type /\ r.seq = ord[t].seq
      /\ r.filled = ord[t].filled /\ r.remaining = ord[t].remaining
  BY <1>2, <1>3 DEF OrderState
<1>5. /\ ord' \in Seq(OrderState) /\ Len(ord') = Len(ord) /\ ord'[t] = r
      /\ \A i \in Ids \ {t} : ord'[i] = ord[i]
  <2>1. ord' = [ord EXCEPT ![t] = r]
    BY <1>3
  <2> QED
    BY <1>2, <1>4, <2>1 DEF Ids
<1>6. SameAmounts
  BY <1>4, <1>5 DEF SameAmounts
<1>7. /\ spec' = spec /\ trades' = trades /\ live' = live /\ stops' = stops /\ triggered' = triggered
      /\ heap' = heap /\ seqNo' = seqNo /\ lastPrice' = lastPrice /\ batchOpen' = batchOpen
      /\ taker' = 0 /\ phase' = "idle" /\ t \notin live \cup stops \cup triggered
      /\ heap \in [Sides -> SUBSET Ids] /\ seqNo \in Nat
  BY <1>1 DEF bookVars, Done, Places, TypeInv
<1>8. /\ TypeInv' /\ LeavesAlone /\ Quantities' /\ TradesInv' /\ Ids' = Ids /\ 0 \notin Ids
      /\ FillOrKill'
  BY <1>5, <1>6, <1>7, Unmatched
<1>9. live \subseteq Ids /\ stops \subseteq Ids /\ triggered \subseteq Ids
  BY <1>1 DEF TypeInv
<1>10. Places'
  <2>1. \A i \in live \cup stops \cup triggered : ord'[i] = ord[i]
    BY <1>5, <1>7, <1>9
  <2>2. \A s \in Sides : \A i \in heap[s] :
          i \in live \/ (~Waiting(i)' /\ (ord'[i].remaining = 0 \/ ord'[i].status = "cancelled"))
    <3>1. \A s \in Sides : \A i \in heap[s] : i \in Ids /\ i # 0
      BY <1>7, <1>8
    <3> QED
      BY <1>1, <1>5, <1>7, <3>1 DEF Places, Waiting
  <2>3. /\ live \cap (stops \cup triggered) = {} /\ stops \cap triggered = {}
        /\ 0 \notin live \cup stops \cup triggered
    BY <1>1, <1>8, <1>9 DEF Places
  <2> QED
    BY <1>1, <1>7, <2>1, <2>2, <2>3 DEF Places
<1>11. Kinds' /\ Numbered'
  BY <1>1, <1>4, <1>5, <1>7, <1>8 DEF Kinds, Numbered
<1>12. Uncrossed'
  BY <1>1, <1>7, <1>8, UncrossedStays
<1> QED
  BY <1>8, <1>10, <1>11, <1>12 DEF MatchInv

\* A market or immediate order drops what remains.
LEMMA FinishImmediateKeeps ==
  ASSUME MatchInv, FinishImmediate
  PROVE  MatchInv' /\ LeavesAlone
<1>1. PICK t : t = taker
  OBVIOUS
<1>2. t \in Ids /\ ord[t].status \in Statuses
  <2>1. TypeInv /\ t \in Ids
    BY <1>1 DEF MatchInv, TypeInv, FinishImmediate
  <2> QED
    BY <2>1, Known
<1>3. PICK st : st = IF ord[t].remaining = 0 THEN ord[t].status
                     ELSE IF ord[t].filled > 0 THEN "partiallyFilled" ELSE "cancelled"
  OBVIOUS
<1>4. st \in Statuses
  BY <1>2, <1>3 DEF Statuses
<1>5. ord' = [ord EXCEPT ![t].status = st]
  BY <1>1, <1>3 DEF FinishImmediate
<1> QED
  BY <1>1, <1>4, <1>5, DropKeeps DEF FinishImmediate

\* An iceberg drops what its slices did not sell.
LEMMA FinishIcebergKeeps ==
  ASSUME MatchInv, FinishIceberg
  PROVE  MatchInv' /\ LeavesAlone
<1>1. PICK t : t = taker
  OBVIOUS
<1>2. PICK st : st = IF ord[t].remaining = 0 THEN "filled" ELSE "cancelled"
  OBVIOUS
<1>3. st \in Statuses
  BY <1>2 DEF Statuses
<1>4. ord' = [ord EXCEPT ![t].status = st]
  BY <1>1, <1>2 DEF FinishIceberg
<1> QED
  BY <1>1, <1>3, <1>4, DropKeeps DEF FinishIceberg

\* The next slice is no larger than what remains.
LEMMA IcebergSliceKeeps ==
  ASSUME MatchInv, IcebergSlice
  PROVE  MatchInv' /\ LeavesAlone
<1>1. TypeInv /\ Quantities /\ Places /\ Kinds /\ Numbered /\ Uncrossed /\ FillOrKill /\ TradesInv
  BY DEF MatchInv
<1>2. PICK t : t = taker
  OBVIOUS
<1>3. t \in Ids /\ t # 0 /\ ord[t].remaining \in Nat /\ spec[t].visible \in Nat
  <2>1. t \in Ids
    BY <1>1, <1>2 DEF IcebergSlice, TypeInv
  <2> QED
    BY <1>1, <2>1, IdsFinite, Known
<1>4. slice' = Least(spec[t].visible, ord[t].remaining) /\ ord[t].type = "iceberg"
  BY <1>2 DEF IcebergSlice
<1>5. slice' \in Nat /\ slice' <= ord[t].remaining
  BY <1>3, <1>4, LeastOf
<1>6. /\ phase' = "match" /\ taker' = taker /\ spec' = spec /\ ord' = ord /\ live' = live /\ heap' = heap
      /\ seqNo' = seqNo /\ stops' = stops /\ triggered' = triggered /\ lastPrice' = lastPrice
      /\ batchOpen' = batchOpen /\ trades' = trades
  BY DEF IcebergSlice, bookVars
<1>7. Quiet
  <2>1. ord \in Seq(OrderState)
    BY <1>1 DEF TypeInv
  <2> QED
    BY <1>6, <2>1 DEF Quiet, SameAmounts, Waiting
<1>8. TypeInv' /\ LeavesAlone /\ Quantities' /\ TradesInv' /\ SameAmounts /\ Ids' = Ids
  <2>1. /\ live' \subseteq Ids /\ stops' \subseteq Ids /\ triggered' \subseteq Ids
        /\ heap' \in [Sides -> SUBSET Ids] /\ seqNo' \in Nat /\ batchOpen' \in BOOLEAN
        /\ taker' \in Ids \cup {0} /\ taker' # 0
    BY <1>1, <1>2, <1>3, <1>6 DEF TypeInv
  <2> QED
    BY <1>1, <1>5, <1>6, <1>7, <2>1, QuietFrame
<1>9. Places'
  BY <1>1, <1>2, <1>4, <1>5, <1>6 DEF Places, Waiting
<1>10. Kinds' /\ Numbered' /\ Uncrossed'
  BY <1>1, <1>6, <1>8, UncrossedStays DEF Kinds, Numbered
<1>11. spec[t].type # "fok"
  BY <1>1, <1>3, <1>4 DEF Kinds, StopTypes
<1>12. FillOrKill'
  BY <1>1, <1>2, <1>6, <1>8, <1>11, FillOrKillStep
<1> QED
  BY <1>8, <1>9, <1>10, <1>12 DEF MatchInv

\* What remains of an order enters the book.
LEMMA RestKeeps ==
  ASSUME MatchInv, NEW t, t = taker, NEW r \in OrderState, phase = "finish", Done,
         ord[t].type \in {"limit", "fok"}, ord[t].remaining > 0, AddToBook(t, r, heap),
         r.filled = ord[t].filled, r.remaining = ord[t].remaining, r.type = ord[t].type, r.seq = ord[t].seq,
         r.status \in {"new", "partiallyFilled"} \/ r.type = "fok",
         UNCHANGED <<spec, stops, triggered, lastPrice, batchOpen, trades>>
  PROVE  MatchInv' /\ LeavesAlone
<1>1. TypeInv /\ Quantities /\ Places /\ Kinds /\ Numbered /\ Uncrossed /\ FillOrKill /\ TradesInv
  BY DEF MatchInv
<1>2. t \in Ids /\ ord \in Seq(OrderState) /\ t # 0 /\ seqNo \in Nat /\ heap \in [Sides -> SUBSET Ids]
      /\ spec[t].side \in Sides /\ 0 \notin Ids /\ live \subseteq Ids /\ stops \subseteq Ids /\ triggered \subseteq Ids
  <2>1. t \in Ids
    BY <1>1 DEF TypeInv
  <2> QED
    BY <1>1, <2>1, IdsFinite, Known DEF TypeInv
<1>3. PICK n : n = IF r.seq = 0 THEN seqNo + 1 ELSE r.seq
  OBVIOUS
<1>4. n \in Nat /\ n > 0
  BY <1>2, <1>3 DEF OrderState
<1>5. PICK x : x = [r EXCEPT !.seq = n]
  OBVIOUS
<1>6. /\ x \in OrderState /\ x.type = ord[t].type /\ x.seq = n /\ x.status = r.status
      /\ x.filled = ord[t].filled /\ x.remaining = ord[t].remaining
  BY <1>4, <1>5 DEF OrderState
<1>7. /\ ord' = [ord EXCEPT ![t] = x] /\ seqNo' = seqNo + 1 /\ live' = live \cup {t}
      /\ heap' = [heap EXCEPT ![spec[t].side] = @ \cup {t}]
  BY <1>3, <1>5 DEF AddToBook
<1>8. /\ ord' \in Seq(OrderState) /\ Len(ord') = Len(ord) /\ ord'[t] = x
      /\ \A i \in Ids \ {t} : ord'[i] = ord[i]
  BY <1>2, <1>6, <1>7 DEF Ids
<1>9. /\ heap' \in [Sides -> SUBSET Ids]
      /\ \A s \in Sides : heap'[s] = IF s = spec[t].side THEN heap[s] \cup {t} ELSE heap[s]
  BY <1>2, <1>7
<1>10. SameAmounts
  BY <1>6, <1>8 DEF SameAmounts
<1>11. /\ spec' = spec /\ trades' = trades /\ stops' = stops /\ triggered' = triggered
       /\ lastPrice' = lastPrice /\ batchOpen' = batchOpen /\ seqNo' \in Nat /\ live \subseteq live'
       /\ taker' = 0 /\ phase' = "idle" /\ t \notin live \cup stops \cup triggered
  BY <1>1, <1>2, <1>7 DEF Done, Places
<1>12. TypeInv' /\ LeavesAlone /\ Quantities' /\ TradesInv' /\ Ids' = Ids /\ FillOrKill'
  BY <1>7, <1>8, <1>9, <1>10, <1>11, Unmatched
<1>13. Kinds'
  BY <1>1, <1>6, <1>8, <1>11, <1>12 DEF Kinds
<1>14. Numbered'
  <2>1. \A i \in Ids : ord[i].seq \in Nat /\ ord[i].seq <= seqNo /\ i \in Nat
    BY <1>1, Known DEF Numbered
  <2>2. ord[t].seq = 0 => t = Len(ord) /\ \A i \in Ids : i <= t
    BY <1>1, <1>2 DEF Numbered, Ids
  <2>3. \A i \in Ids : ord'[i].seq <= seqNo' /\ ord'[i].seq \in Nat
    BY <1>2, <1>3, <1>4, <1>6, <1>7, <1>8, <2>1
  <2>4. ASSUME NEW i \in Ids, NEW j \in Ids, i < j, ord'[i].seq > 0, ord'[j].seq > 0
        PROVE  ord'[i].seq < ord'[j].seq
    <3>1. ord[i].seq > 0 /\ ord[j].seq > 0 => ord[i].seq < ord[j].seq
      BY <1>1, <2>4 DEF Numbered
    <3>2. CASE i # t /\ j # t
      BY <1>8, <2>4, <3>1, <3>2
    <3>3. CASE i = t
      BY <1>2, <1>3, <1>6, <1>8, <2>1, <2>2, <2>4, <3>1, <3>3
    <3>4. CASE j = t
      BY <1>2, <1>3, <1>6, <1>8, <2>1, <2>2, <2>4, <3>1, <3>4
    <3> QED
      BY <3>2, <3>3, <3>4
  <2> QED
    BY <1>11, <1>12, <2>3, <2>4 DEF Numbered
<1>15. Places'
  <2>1. \A i \in live \cup stops \cup triggered : ord'[i] = ord[i]
    BY <1>2, <1>8, <1>11
  <2>2. \A i \in live' : /\ i \in heap'[spec[i].side] /\ ord'[i].remaining > 0 /\ ord'[i].seq > 0
                         /\ ord'[i].status \in {"new", "partiallyFilled"} \/ ord'[i].type = "fok"
    <3>1. \A i \in live : spec[i].side \in Sides
      BY <1>1, <1>2, Known
    <3>2. \A i \in live : i \in heap[spec[i].side]
      BY <1>1 DEF Places
    <3>3. \A i \in live : i \in heap'[spec[i].side]
      BY <1>9, <3>1, <3>2
    <3>4. t \in heap'[spec[t].side]
      BY <1>2, <1>9
    <3> QED
      BY <1>1, <1>4, <1>6, <1>7, <1>8, <2>1, <3>3, <3>4 DEF Places
  <2>3. \A s \in Sides : \A i \in heap'[s] :
          /\ spec[i].side = s
          /\ i \in live' \/ (~Waiting(i)' /\ (ord'[i].remaining = 0 \/ ord'[i].status = "cancelled"))
    <3> SUFFICES ASSUME NEW s \in Sides, NEW i \in heap'[s]
                 PROVE  /\ spec[i].side = s
                        /\ i \in live' \/ (~Waiting(i)' /\ (ord'[i].remaining = 0 \/ ord'[i].status = "cancelled"))
      OBVIOUS
    <3>1. CASE i = t
      BY <1>1, <1>2, <1>7, <1>9, <3>1 DEF Places
    <3>2. CASE i # t
      <4>1. i \in heap[s] /\ i \in Ids /\ i # 0
        BY <1>2, <1>9, <3>2
      <4>2. spec[i].side = s /\ (i \in live \/ (~Waiting(i) /\ (ord[i].remaining = 0 \/ ord[i].status = "cancelled")))
        BY <1>1, <4>1 DEF Places
      <4> QED
        BY <1>7, <1>8, <1>11, <3>2, <4>1, <4>2 DEF Waiting
    <3> QED
      BY <3>1, <3>2
  <2>4. /\ live' \cap (stops' \cup triggered') = {} /\ stops' \cap triggered' = {}
        /\ taker' \notin live' \cup stops' \cup triggered'
    BY <1>1, <1>2, <1>7, <1>11 DEF Places
  <2>5. \A i \in stops' \cup triggered' :
          /\ ord'[i].filled = 0 /\ ord'[i].status = "new" /\ ord'[i].seq > 0
          /\ spec'[i].type \in StopTypes /\ ord'[i].type = spec'[i].type
    <3>1. \A i \in stops \cup triggered :
            /\ ord[i].filled = 0 /\ ord[i].status = "new" /\ ord[i].seq > 0
            /\ spec[i].type \in StopTypes /\ ord[i].type = spec[i].type
      BY <1>1 DEF Places
    <3>2. stops' \cup triggered' = stops \cup triggered /\ spec' = spec
      BY <1>11
    <3> QED
      BY <2>1, <3>1, <3>2
  <2> QED
    BY <1>11, <2>2, <2>3, <2>4, <2>5 DEF Places
<1>16. Uncrossed'
  <2>1. MayBeStopped(spec[t]) \/ Reached(t) = {}
    BY <1>1 DEF Uncrossed
  <2>2. ASSUME NEW b \in live', NEW a \in live', spec[b].side = "buy", spec[a].side = "sell"
        PROVE  spec[b].price < spec[a].price \/ MayBeStopped(spec[b]) \/ MayBeStopped(spec[a])
    <3>1. b \in Ids /\ a \in Ids
      BY <1>2, <1>7
    <3>2. spec[b].price \in Nat /\ spec[a].price \in Nat
      BY <1>1, <3>1, Known
    <3>3. CASE b \in live /\ a \in live
      BY <1>1, <2>2, <3>3 DEF Uncrossed
    <3>4. CASE b = t /\ a \in live
      BY <2>1, <2>2, <3>2, <3>4 DEF Reached, Facing, Crosses, Opposite
    <3>5. CASE b \in live /\ a = t
      BY <2>1, <2>2, <3>2, <3>5 DEF Reached, Facing, Crosses, Opposite
    <3> QED
      BY <1>7, <2>2, <3>3, <3>4, <3>5
  <2>3. \A b, a \in live' :
          spec[b].side = "buy" /\ spec[a].side = "sell" =>
            spec[b].price < spec[a].price \/ MayBeStopped(spec[b]) \/ MayBeStopped(spec[a])
    BY <2>2
  <2> QED
    BY <1>11, <2>3 DEF Uncrossed, MayBeStopped, Mode
<1> QED
  BY <1>12, <1>13, <1>14, <1>15, <1>16 DEF MatchInv

\* A limit or fill-or-kill order rests or is dropped.
LEMMA FinishLimitKeeps ==
  ASSUME MatchInv, FinishLimit
  PROVE  MatchInv' /\ LeavesAlone
<1>1. PICK t : t = taker
  OBVIOUS
<1>2. TypeInv /\ t \in Ids /\ ord[t] \in OrderState /\ ord \in Seq(OrderState)
  <2>1. TypeInv /\ t \in Ids
    BY <1>1 DEF MatchInv, TypeInv, FinishLimit
  <2> QED
    BY <2>1, Known DEF TypeInv
<1> DEFINE rests == ord[t].remaining > 0 /\ spec[t].tif = "gtc"
           r  == IF rests /\ ord[t].status # "partiallyFilled"
                   THEN [ord[t] EXCEPT !.status = "new"] ELSE ord[t]
           r2 == IF r.type = "fok" /\ r.remaining > 0 THEN [r EXCEPT !.status = "rejected"] ELSE r
<1>3. /\ IF rests THEN AddToBook(t, r2, heap) ELSE ord' = [ord EXCEPT ![t] = r2] /\ UNCHANGED bookVars
      /\ ord[t].type \in {"limit", "fok"} /\ phase = "finish" /\ Done
      /\ UNCHANGED <<spec, stops, triggered, lastPrice, batchOpen, trades>>
  BY <1>1 DEF FinishLimit
<1>4. /\ r \in OrderState /\ r.type = ord[t].type /\ r.seq = ord[t].seq
      /\ r.filled = ord[t].filled /\ r.remaining = ord[t].remaining
      /\ rests => r.status \in {"new", "partiallyFilled"}
  BY <1>2 DEF OrderState, Statuses
<1>5. PICK u : u = r
  OBVIOUS
<1>6. PICK v : v = r2
  OBVIOUS
<1> HIDE DEF r
<1>7. v = IF u.type = "fok" /\ u.remaining > 0 THEN [u EXCEPT !.status = "rejected"] ELSE u
  BY <1>5, <1>6
<1> HIDE DEF r2
<1>8. /\ u \in OrderState /\ u.type = ord[t].type /\ u.seq = ord[t].seq
      /\ u.filled = ord[t].filled /\ u.remaining = ord[t].remaining
      /\ rests => u.status \in {"new", "partiallyFilled"}
  BY <1>4, <1>5
<1>9. /\ v \in OrderState /\ v.type = ord[t].type /\ v.seq = ord[t].seq
      /\ v.filled = ord[t].filled /\ v.remaining = ord[t].remaining
      /\ rests => v.status \in {"new", "partiallyFilled"} \/ v.type = "fok"
  BY <1>7, <1>8 DEF OrderState, Statuses
<1>10. CASE rests
  BY <1>1, <1>3, <1>6, <1>9, <1>10, RestKeeps
<1>11. CASE ~rests
  <2>1. PICK st : st = v.status
    OBVIOUS
  <2>2. v = [ord[t] EXCEPT !.status = st]
    BY <1>2, <1>9, <2>1 DEF OrderState
  <2>3. ord' = [ord EXCEPT ![t].status = st]
    BY <1>3, <1>6, <1>11, <2>2
  <2>4. st \in Statuses
    BY <1>9, <2>1 DEF OrderState
  <2> QED
    BY <1>1, <1>3, <1>11, <2>3, <2>4, DropKeeps
<1> QED
  BY <1>10, <1>11
-----------------------------------------------------------------------------
(***************************************************************************)
(* Stops and cancels.                                                      *)
(***************************************************************************)
\* Stops that fire are set aside; no order changes.
LEMMA TriggerStopsKeeps ==
  ASSUME MatchInv, TriggerStops
  PROVE  MatchInv' /\ LeavesAlone
<1>1. TypeInv /\ Quantities /\ Places /\ Kinds /\ Numbered /\ Uncrossed /\ FillOrKill /\ TradesInv
  BY DEF MatchInv
<1>2. /\ stops' \cup triggered' = stops \cup triggered /\ stops' \cap triggered' = {}
      /\ phase = "idle" /\ phase' = phase /\ taker' = taker /\ spec' = spec /\ ord' = ord /\ live' = live
      /\ heap' = heap /\ seqNo' = seqNo /\ lastPrice' = lastPrice /\ slice' = slice
      /\ batchOpen' = FALSE /\ trades' = trades
  BY DEF TriggerStops, Idle, bookVars
<1>3. Quiet
  <2>1. ord \in Seq(OrderState)
    BY <1>1 DEF TypeInv
  <2>2. \A i \in Ids : Waiting(i)' <=> Waiting(i)
    BY <1>2 DEF Waiting
  <2> QED
    BY <1>2, <2>1, <2>2 DEF Quiet, SameAmounts
<1>4. TypeInv' /\ LeavesAlone /\ Quantities' /\ TradesInv' /\ SameAmounts /\ Ids' = Ids
  <2>1. /\ live' \subseteq Ids /\ stops' \subseteq Ids /\ triggered' \subseteq Ids
        /\ heap' \in [Sides -> SUBSET Ids] /\ seqNo' \in Nat /\ batchOpen' \in BOOLEAN /\ slice' \in Nat
        /\ taker' \in Ids \cup {0} /\ (phase' = "idle" <=> taker' = 0)
    BY <1>1, <1>2 DEF TypeInv
  <2> QED
    BY <1>1, <1>2, <1>3, <2>1, QuietFrame
<1>5. Places'
  <2>1. \A i : Waiting(i)' <=> Waiting(i)
    BY <1>2 DEF Waiting
  <2>2. \A i \in stops' \cup triggered' :
          /\ ord'[i].filled = 0 /\ ord'[i].status = "new" /\ ord'[i].seq > 0
          /\ spec'[i].type \in StopTypes /\ ord'[i].type = spec'[i].type
    <3>1. \A i \in stops \cup triggered :
            /\ ord[i].filled = 0 /\ ord[i].status = "new" /\ ord[i].seq > 0
            /\ spec[i].type \in StopTypes /\ ord[i].type = spec[i].type
      BY <1>1 DEF Places
    <3> QED
      BY <1>2, <3>1
  <2>3. /\ live' \cap (stops' \cup triggered') = {} /\ stops' \cap triggered' = {}
        /\ taker' \notin live' \cup stops' \cup triggered'
    BY <1>1, <1>2 DEF Places
  <2>4. \A s \in Sides : \A i \in heap'[s] :
          /\ spec'[i].side = s
          /\ i \in live' \/ (~Waiting(i)' /\ (ord'[i].remaining = 0 \/ ord'[i].status = "cancelled"))
    BY <1>1, <1>2, <2>1 DEF Places
  <2> QED
    BY <1>1, <1>2, <2>2, <2>3, <2>4 DEF Places
<1>6. Kinds' /\ Numbered' /\ Uncrossed'
  BY <1>1, <1>2, <1>4, UncrossedStays DEF Kinds, Numbered
<1>7. taker \notin Ids
  BY <1>1, <1>2, IdsFinite DEF TypeInv
<1>8. FillOrKill'
  BY <1>1, <1>2, <1>4, <1>7, FillOrKillStep
<1> QED
  BY <1>4, <1>5, <1>6, <1>8 DEF MatchInv

\* The oldest of them is matched, under its new type.
LEMMA MatchTriggeredKeeps ==
  ASSUME MatchInv, MatchTriggered
  PROVE  MatchInv' /\ LeavesAlone
<1>1. TypeInv /\ Quantities /\ Places /\ Kinds /\ Numbered /\ Uncrossed /\ FillOrKill /\ TradesInv
  BY DEF MatchInv
<1>2. PICK o \in triggered : /\ taker' = o /\ triggered' = triggered \ {o}
                             /\ ord' = [ord EXCEPT ![o].type = TypeAfterTrigger(@)]
  BY DEF MatchTriggered
<1>3. /\ phase = "idle" /\ phase' = "match" /\ spec' = spec /\ live' = live /\ heap' = heap /\ seqNo' = seqNo
      /\ stops' = stops /\ lastPrice' = lastPrice /\ slice' = slice /\ batchOpen' = batchOpen
      /\ trades' = trades
  BY DEF MatchTriggered, bookVars
<1>4. /\ o \in Ids /\ o # 0 /\ 0 \notin Ids /\ taker = 0 /\ ord[o] \in OrderState /\ ord \in Seq(OrderState)
      /\ live \subseteq Ids /\ stops \subseteq Ids /\ triggered \subseteq Ids /\ heap \in [Sides -> SUBSET Ids]
      /\ o \notin live \cup stops /\ seqNo \in Nat /\ slice \in Nat /\ batchOpen \in BOOLEAN
      /\ spec[o].type \in StopTypes /\ ord[o].type = spec[o].type /\ ord[o].seq > 0
  <2>1. o \in Ids
    BY <1>1 DEF TypeInv
  <2>2. ord[o] \in OrderState
    BY <1>1, <2>1, Known
  <2> QED
    BY <1>1, <1>3, <2>1, <2>2, IdsFinite DEF TypeInv, Places
<1>5. PICK type : type = TypeAfterTrigger(spec[o].type)
  OBVIOUS
<1>6. type \in TakerTypes /\ type \in Types /\ type # "iceberg"
  BY <1>5 DEF TypeAfterTrigger, TakerTypes, Types
<1>7. PICK r : r = [ord[o] EXCEPT !.type = type]
  OBVIOUS
<1>8. /\ r \in OrderState /\ r.type = type /\ r.seq = ord[o].seq
      /\ r.filled = ord[o].filled /\ r.remaining = ord[o].remaining
  BY <1>4, <1>6, <1>7 DEF OrderState
<1>9. /\ ord' \in Seq(OrderState) /\ Len(ord') = Len(ord) /\ ord'[o] = r
      /\ \A i \in Ids \ {o} : ord'[i] = ord[i]
  <2>1. ord' = [ord EXCEPT ![o] = r]
    BY <1>2, <1>4, <1>5, <1>7
  <2> QED
    BY <1>4, <1>8, <2>1 DEF Ids
<1>10. Quiet
  <2>1. \A i \in Ids : Waiting(i)' <=> Waiting(i)
    BY <1>2, <1>3, <1>4 DEF Waiting
  <2>2. Waiting(o)
    BY DEF Waiting
  <2> QED
    BY <1>3, <1>8, <1>9, <2>1, <2>2 DEF Quiet, SameAmounts
<1>11. TypeInv' /\ LeavesAlone /\ Quantities' /\ TradesInv' /\ SameAmounts /\ Ids' = Ids
  <2>1. /\ live' \subseteq Ids /\ stops' \subseteq Ids /\ triggered' \subseteq Ids
        /\ heap' \in [Sides -> SUBSET Ids] /\ seqNo' \in Nat /\ batchOpen' \in BOOLEAN /\ slice' \in Nat
        /\ taker' \in Ids /\ taker' # 0
    BY <1>2, <1>3, <1>4
  <2> QED
    BY <1>1, <1>3, <1>10, <2>1, QuietFrame
<1>12. Places'
  <2>1. \A i \in live \cup stops \cup triggered' : ord'[i] = ord[i]
    BY <1>2, <1>4, <1>9
  <2>2. \A i \in stops' \cup triggered' :
          /\ ord'[i].filled = 0 /\ ord'[i].status = "new" /\ ord'[i].seq > 0
          /\ spec'[i].type \in StopTypes /\ ord'[i].type = spec'[i].type
    <3>1. \A i \in stops \cup triggered :
            /\ ord[i].filled = 0 /\ ord[i].status = "new" /\ ord[i].seq > 0
            /\ spec[i].type \in StopTypes /\ ord[i].type = spec[i].type
      BY <1>1 DEF Places
    <3> QED
      BY <1>2, <1>3, <2>1, <3>1
  <2>3. /\ live' \cap (stops' \cup triggered') = {} /\ stops' \cap triggered' = {}
        /\ taker' \notin live' \cup stops' \cup triggered'
    BY <1>1, <1>2, <1>3, <1>4 DEF Places
  <2>4. \A i \in Ids : Waiting(i)' <=> Waiting(i)
    BY <1>2, <1>3, <1>4 DEF Waiting
  <2>5. \A s \in Sides : \A i \in heap'[s] :
          /\ spec'[i].side = s
          /\ i \in live' \/ (~Waiting(i)' /\ (ord'[i].remaining = 0 \/ ord'[i].status = "cancelled"))
    <3> SUFFICES ASSUME NEW s \in Sides, NEW i \in heap[s]
                 PROVE  /\ spec[i].side = s
                        /\ i \in live \/ (~Waiting(i)' /\ (ord'[i].remaining = 0 \/ ord'[i].status = "cancelled"))
      BY <1>3
    <3>1. i \in Ids
      BY <1>4
    <3>2. spec[i].side = s /\ (i \in live \/ (~Waiting(i) /\ (ord[i].remaining = 0 \/ ord[i].status = "cancelled")))
      BY <1>1 DEF Places
    <3>3. CASE i \in live
      BY <3>2, <3>3
    <3>4. CASE i \notin live
      <4>1. i # o
        BY <3>2, <3>4 DEF Waiting
      <4> QED
        BY <1>9, <2>4, <3>1, <3>2, <3>4, <4>1
    <3> QED
      BY <3>3, <3>4
  <2>6. \A i \in live' : /\ i \in heap'[spec'[i].side] /\ ord'[i].remaining > 0 /\ ord'[i].seq > 0
                         /\ ord'[i].status \in {"new", "partiallyFilled"} \/ ord'[i].type = "fok"
    BY <1>1, <1>3, <2>1 DEF Places
  <2>7. taker' # 0 => /\ ord'[taker'].type \in TakerTypes
                      /\ ord'[taker'].type = "iceberg" => slice' <= ord'[taker'].remaining
    BY <1>2, <1>6, <1>8, <1>9
  <2> QED
    BY <2>2, <2>3, <2>5, <2>6, <2>7 DEF Places
<1>13. Kinds'
  BY <1>1, <1>3, <1>4, <1>5, <1>8, <1>9, <1>11 DEF Kinds
<1>14. Numbered'
  <2>1. \A i \in Ids : ord'[i].seq = ord[i].seq
    BY <1>8, <1>9
  <2> QED
    BY <1>1, <1>2, <1>3, <1>4, <1>11, <2>1 DEF Numbered
<1>15. Uncrossed'
  BY <1>1, <1>3, <1>11, UncrossedStays
<1>16. FillOrKill'
  <2>1. spec'[o].type # "fok"
    BY <1>3, <1>4 DEF StopTypes
  <2>2. \A i \in Ids : i # taker
    BY <1>4
  <2> QED
    BY <1>1, <1>2, <1>3, <1>11, <2>1, <2>2, FillOrKillStep DEF SameAmounts
<1> QED
  BY <1>11, <1>12, <1>13, <1>14, <1>15, <1>16 DEF MatchInv

\* A cancelled order leaves its entry behind.
LEMMA CancelKeeps ==
  ASSUME MatchInv, NEW c \in Ids, Cancel(c)
  PROVE  MatchInv' /\ LeavesAlone
<1>1. TypeInv /\ Quantities /\ Places /\ Kinds /\ Numbered /\ Uncrossed /\ FillOrKill /\ TradesInv
  BY DEF MatchInv
<1>2. /\ ord' = [ord EXCEPT ![c].status = "cancelled"] /\ live' = live \ {c} /\ seqNo' = seqNo + 1
      /\ c \in live /\ phase = "idle" /\ phase' = phase /\ taker' = taker /\ spec' = spec /\ heap' = heap
      /\ stops' = stops /\ triggered' = triggered /\ triggered = {} /\ lastPrice' = lastPrice /\ slice' = slice
      /\ batchOpen' = batchOpen /\ trades' = trades
  BY DEF Cancel, Idle
<1>3. /\ 0 \notin Ids /\ taker = 0 /\ ord[c] \in OrderState /\ ord \in Seq(OrderState) /\ c # 0
      /\ live \subseteq Ids /\ stops \subseteq Ids /\ heap \in [Sides -> SUBSET Ids]
      /\ c \notin stops \cup triggered /\ seqNo \in Nat /\ slice \in Nat /\ batchOpen \in BOOLEAN
  BY <1>1, <1>2, Known, IdsFinite DEF TypeInv, Places
<1>4. PICK r : r = [ord[c] EXCEPT !.status = "cancelled"]
  OBVIOUS
<1>5. /\ r \in OrderState /\ r.type = ord[c].type /\ r.seq = ord[c].seq /\ r.status = "cancelled"
      /\ r.filled = ord[c].filled /\ r.remaining = ord[c].remaining
  BY <1>3, <1>4 DEF OrderState, Statuses
<1>6. /\ ord' \in Seq(OrderState) /\ Len(ord') = Len(ord) /\ ord'[c] = r
      /\ \A i \in Ids \ {c} : ord'[i] = ord[i]
  <2>1. ord' = [ord EXCEPT ![c] = r]
    BY <1>2, <1>4
  <2> QED
    BY <1>3, <1>5, <2>1 DEF Ids
<1>7. Quiet
  <2>1. \A i \in Ids : ~Waiting(i) => i # c /\ ~Waiting(i)'
    BY <1>2 DEF Waiting
  <2> QED
    BY <1>2, <1>5, <1>6, <2>1 DEF Quiet, SameAmounts
<1>8. TypeInv' /\ LeavesAlone /\ Quantities' /\ TradesInv' /\ SameAmounts /\ Ids' = Ids
  <2>1. /\ live' \subseteq Ids /\ stops' \subseteq Ids /\ triggered' \subseteq Ids
        /\ heap' \in [Sides -> SUBSET Ids] /\ seqNo' \in Nat /\ batchOpen' \in BOOLEAN /\ slice' \in Nat
        /\ taker' = 0
    BY <1>2, <1>3
  <2> QED
    BY <1>1, <1>2, <1>7, <2>1, QuietFrame
<1>9. Places'
  <2>1. \A i \in live' \cup stops : ord'[i] = ord[i]
    BY <1>2, <1>3, <1>6
  <2>2. \A i \in stops' \cup triggered' :
          /\ ord'[i].filled = 0 /\ ord'[i].status = "new" /\ ord'[i].seq > 0
          /\ spec'[i].type \in StopTypes /\ ord'[i].type = spec'[i].type
    <3>1. \A i \in stops :
            /\ ord[i].filled = 0 /\ ord[i].status = "new" /\ ord[i].seq > 0
            /\ spec[i].type \in StopTypes /\ ord[i].type = spec[i].type
      BY <1>1 DEF Places
    <3> QED
      BY <1>2, <2>1, <3>1
  <2>3. /\ live' \cap (stops' \cup triggered') = {} /\ stops' \cap triggered' = {}
        /\ taker' \notin live' \cup stops' \cup triggered'
    BY <1>1, <1>2 DEF Places
  <2>4. \A s \in Sides : \A i \in heap'[s] :
          /\ spec'[i].side = s
          /\ i \in live' \/ (~Waiting(i)' /\ (ord'[i].remaining = 0 \/ ord'[i].status = "cancelled"))
    <3> SUFFICES ASSUME NEW s \in Sides, NEW i \in heap[s]
                 PROVE  /\ spec[i].side = s
                        /\ i \in live' \/ (~Waiting(i)' /\ (ord'[i].remaining = 0 \/ ord'[i].status = "cancelled"))
      BY <1>2
    <3>1. i \in Ids
      BY <1>3
    <3>2. spec[i].side = s /\ (i \in live \/ (~Waiting(i) /\ (ord[i].remaining = 0 \/ ord[i].status = "cancelled")))
      BY <1>1 DEF Places
    <3>3. CASE i = c
      BY <1>2, <1>3, <1>5, <1>6, <3>2, <3>3 DEF Waiting
    <3>4. CASE i # c
      BY <1>2, <1>6, <3>1, <3>2, <3>4 DEF Waiting
    <3> QED
      BY <3>3, <3>4
  <2>5. \A i \in live' : /\ i \in heap'[spec'[i].side] /\ ord'[i].remaining > 0 /\ ord'[i].seq > 0
                         /\ ord'[i].status \in {"new", "partiallyFilled"} \/ ord'[i].type = "fok"
    BY <1>1, <1>2, <2>1 DEF Places
  <2>6. taker' = 0
    BY <1>2, <1>3
  <2> QED
    BY <2>2, <2>3, <2>4, <2>5, <2>6 DEF Places
<1>10. Kinds'
  BY <1>1, <1>2, <1>5, <1>6, <1>8 DEF Kinds
<1>11. Numbered'
  <2>1. \A i \in Ids : ord'[i].seq = ord[i].seq /\ ord[i].seq \in Nat
    BY <1>1, <1>5, <1>6, Known
  <2> QED
    BY <1>1, <1>2, <1>3, <1>8, <2>1 DEF Numbered
<1>12. Uncrossed'
  BY <1>1, <1>2, <1>8, UncrossedStays
<1>13. FillOrKill'
  <2>1. \A i \in Ids : i # taker /\ i # taker'
    BY <1>2, <1>3
  <2> QED
    BY <1>1, <1>2, <1>8, <2>1, FillOrKillStep DEF SameAmounts
<1> QED
  BY <1>8, <1>9, <1>10, <1>11, <1>12, <1>13 DEF MatchInv
-----------------------------------------------------------------------------
(***************************************************************************)
(* Every step.                                                             *)
(***************************************************************************)
\* The empty book.
LEMMA InitMatchInv ==
  ASSUME Init
  PROVE  MatchInv
<1>1. /\ spec = << >> /\ ord = << >> /\ trades = << >> /\ live = {} /\ stops = {} /\ triggered = {}
      /\ heap = [s \in Sides |-> {}] /\ seqNo = 0 /\ lastPrice = 0 /\ slice = 0 /\ batchOpen = FALSE
      /\ taker = 0 /\ phase = "idle"
  BY DEF Init
<1>2. Ids = {} /\ DOMAIN trades = {} /\ Len(spec) = Len(ord)
  BY <1>1 DEF Ids
<1>3. TypeInv
  <2>1. spec \in Seq(Menu) /\ ord \in Seq(OrderState) /\ trades \in Seq(Trade)
    BY <1>1
  <2>2. heap \in [Sides -> SUBSET Ids]
    BY <1>1
  <2> QED
    BY <1>1, <1>2, <2>1, <2>2 DEF TypeInv
<1>4. Places
  BY <1>1 DEF Places
<1>5. Quantities /\ Kinds /\ FillOrKill
  BY <1>2 DEF Quantities, Kinds, FillOrKill
<1>6. Numbered /\ Uncrossed
  BY <1>1, <1>2 DEF Numbered, Uncrossed
<1>7. TradesInv
  BY <1>2 DEF TradesInv, PricesRespected, NoSelfTrade
<1> QED
  BY <1>3, <1>4, <1>5, <1>6, <1>7 DEF MatchInv

\* Every step preserves the invariant and leaves alone who has left.
LEMMA NextMatchInv ==
  ASSUME MatchInv, [Next]_vars
  PROVE  MatchInv' /\ LeavesAlone
<1>1. CASE \E f \in OpenFlows : \E sp \in f.menu : Submit(sp)
  <2>0. PICK f \in OpenFlows : \E sp \in f.menu : Submit(sp)
    BY <1>1
  <2>1. PICK sp \in f.menu : Submit(sp)
    BY <2>0
  <2>2. sp \in Menu
    BY DEF Menu, OpenFlows
  <2> QED
    BY <2>1, <2>2, SubmitKeeps
<1>2. CASE Match
  BY <1>2, FillKeeps, PreventSelfTradeKeeps, StopMatchingKeeps, FinishLimitKeeps, FinishImmediateKeeps,
     IcebergSliceKeeps, FinishIcebergKeeps DEF Match
<1>3. CASE TriggerStops
  BY <1>3, TriggerStopsKeeps
<1>4. CASE MatchTriggered
  BY <1>4, MatchTriggeredKeeps
<1>5. CASE \E i \in Ids : Cancel(i)
  BY <1>5, CancelKeeps
<1>6. CASE UNCHANGED vars
  <2>1. /\ spec' = spec /\ ord' = ord /\ live' = live /\ heap' = heap /\ seqNo' = seqNo
        /\ stops' = stops /\ triggered' = triggered /\ lastPrice' = lastPrice /\ taker' = taker
        /\ phase' = phase /\ slice' = slice /\ batchOpen' = batchOpen /\ trades' = trades
    BY <1>6 DEF vars, bookVars
  <2>2. Ids' = Ids
    BY <2>1 DEF Ids
  <2>3. LeavesAlone
    BY <2>1, <2>2 DEF LeavesAlone, Waiting
  <2>4. TypeInv' /\ Places'
    BY <2>1, <2>2 DEF MatchInv, TypeInv, Places, Waiting
  <2>5. Kinds' /\ Numbered' /\ TradesInv'
    BY <2>1, <2>2 DEF MatchInv, Kinds, Numbered, TradesInv, PricesRespected, NoSelfTrade
  <2>6. Uncrossed'
    BY <2>1 DEF MatchInv, Uncrossed, Reached, Facing, MayBeStopped, Mode
  <2>7. Quantities'
    <3>1. \A i : Traded(i)' = Traded(i)
      BY <2>1 DEF Traded, Shares
    <3> QED
      BY <2>1, <2>2, <3>1 DEF MatchInv, Quantities
  <2>8. FillOrKill'
    <3>1. \A i \in Ids : Excused(i)' <=> Excused(i)
      BY <2>1, <2>2 DEF Excused, GoneUnfilled, MayBeStopped, Mode, Waiting
    <3>2. \A i \in Ids : Counted(i) => Counted(i)'
      <4>1. Remaining' = Remaining
        BY <2>1, <2>2 DEF Remaining
      <4>2. \A i \in Ids : Partners(i)' = Partners(i)
        BY <2>1 DEF Partners, Reached, Facing, SelfTrade
      <4>3. \A i \in Ids : SumOver(Remaining, Partners(i))' = SumOver(Remaining, Partners(i))
        BY <4>1, <4>2
      <4> QED
        BY <2>1, <4>3 DEF Counted
    <3> QED
      BY <2>1, <2>2, <3>1, <3>2 DEF MatchInv, FillOrKill
  <2> QED
    BY <2>3, <2>4, <2>5, <2>6, <2>7, <2>8 DEF MatchInv
<1> QED
  BY <1>1, <1>2, <1>3, <1>4, <1>5, <1>6 DEF Next

\* The inductive invariant holds in every reachable state.
LEMMA MatchInvAlways == Spec => []MatchInv
<1> QED
  BY InitMatchInv, NextMatchInv, PTL DEF Spec
-----------------------------------------------------------------------------
(***************************************************************************)
(* What follows.                                                           *)
(***************************************************************************)
\* The book's structures agree, its orders add up, and it is not crossed.
LEMMA InvBookSound ==
  ASSUME MatchInv
  PROVE  BookSound
<1>1. TypeInv /\ Quantities /\ Places /\ Kinds /\ Numbered /\ Uncrossed
  BY DEF MatchInv
<1>2. MatchingTypeOK
  <2>1. \A i \in Ids : spec[i] \in Menu /\ ord[i] \in OrderState
    BY <1>1, Known
  <2> QED
    BY <1>1, <2>1 DEF MatchingTypeOK, TypeInv, OrderState, Statuses
<1>3. QuantityConserved
  BY <1>1, SharesKnown DEF QuantityConserved, Quantities
<1>4. NotCrossed
  BY <1>1 DEF NotCrossed, Uncrossed
<1>5. BookConsistent
  <2>1. live \subseteq Ids
    BY <1>1 DEF TypeInv
  <2>2. \A i, j \in live : i # j => ord[i].seq # ord[j].seq
    <3>1. \A i \in live : i \in Nat /\ ord[i].seq \in Nat /\ ord[i].seq > 0
      BY <1>1, <2>1, Known DEF Places
    <3> QED
      BY <1>1, <2>1, <3>1 DEF Numbered
  <2>3. \A i \in stops : i \notin live /\ ord[i].filled = 0
    BY <1>1 DEF Places
  <2> QED
    BY <1>1, <2>2, <2>3 DEF BookConsistent, Places
<1> QED
  BY <1>2, <1>3, <1>4, <1>5 DEF BookSound

\* A fill-or-kill order is filled in full or not at all, unless excused.
LEMMA InvTradesLawful ==
  ASSUME MatchInv
  PROVE  TradesLawful
<1>1. FillOrKill /\ TradesInv
  BY DEF MatchInv
<1>2. \A i \in Ids : Excused(i) => MayBeStopped(spec[i]) \/ CancelledUnfilled(Opposite(spec[i].side))
  BY DEF Excused, GoneUnfilled, CancelledUnfilled
<1>3. FOKAllOrNothing
  BY <1>1, <1>2 DEF FOKAllOrNothing, FillOrKill
<1> QED
  BY <1>1, <1>3 DEF TradesLawful, TradesInv

\* Only a fill trades.
LEMMA OnlyFillTrades ==
  ASSUME MatchInv, [Next]_vars, trades' # trades
  PROVE  Fill
<1>1. CASE \E f \in OpenFlows : \E sp \in f.menu : Submit(sp)
  <2>0. PICK f \in OpenFlows : \E sp \in f.menu : Submit(sp)
    BY <1>1
  <2>1. PICK sp \in f.menu : Submit(sp)
    BY <2>0
  <2>2. sp \in Menu /\ TypeInv
    BY DEF Menu, OpenFlows, MatchInv
  <2> QED
    BY <2>1, <2>2, SubmitOutcomes DEF Outcomes
<1>2. CASE Match
  BY <1>2 DEF Match, PreventSelfTrade, StopMatching, FinishLimit, FinishImmediate, IcebergSlice, FinishIceberg
<1> QED
  BY <1>1, <1>2 DEF Next, TriggerStops, MatchTriggered, Cancel, vars

\* The best order of a side is the one that should trade first.
LEMMA FillIsFair ==
  ASSUME MatchInv, Fill
  PROVE  \A k \in DOMAIN trades' \ DOMAIN trades :
           \A j \in live \ {trades'[k].maker} :
             spec[j].side = spec[trades'[k].maker].side =>
               \/ IF spec[trades'[k].maker].side = "buy" THEN spec[j].price < spec[trades'[k].maker].price
                                                         ELSE spec[j].price > spec[trades'[k].maker].price
               \/ spec[j].price = spec[trades'[k].maker].price /\ trades'[k].maker < j
<1>1. TypeInv /\ Places /\ Numbered
  BY DEF MatchInv
<1>2. PICK t, m, q : Exchange(t, m, q)
  BY <1>1, FillExchanges
<1>3. PICK e : e = [taker |-> t, maker |-> m, qty |-> q, price |-> spec[m].price]
  OBVIOUS
<1>4. trades \in Seq(Trade) /\ trades' = Append(trades, e) /\ e.maker = m
  BY <1>1, <1>2, <1>3 DEF Exchange, TypeInv
<1>5. \A k \in DOMAIN trades' \ DOMAIN trades : trades'[k].maker = m
  <2>1. Len(trades) \in Nat /\ DOMAIN trades' = DOMAIN trades \cup {Len(trades) + 1} /\ trades'[Len(trades) + 1] = e
    BY <1>4
  <2> QED
    BY <1>4, <2>1
<1>6. ASSUME NEW j \in live \ {m}, spec[j].side = spec[m].side
      PROVE  \/ IF spec[m].side = "buy" THEN spec[j].price < spec[m].price ELSE spec[j].price > spec[m].price
             \/ spec[j].price = spec[m].price /\ m < j
  <2>1. Less(spec[m].side, m, j) /\ m \in live /\ m \in Ids /\ j \in Ids
    BY <1>1, <1>2, <1>6 DEF Exchange, TypeInv
  <2>2. /\ spec[j].price \in Nat /\ spec[m].price \in Nat /\ ord[j].seq \in Nat /\ ord[m].seq \in Nat
        /\ ord[j].seq > 0 /\ ord[m].seq > 0 /\ m \in Nat /\ j \in Nat
    BY <1>1, <1>6, <2>1, Known DEF Places
  <2>3. ord[m].seq < ord[j].seq => m < j
    BY <1>1, <1>6, <2>1, <2>2 DEF Numbered
  <2> QED
    BY <2>1, <2>2, <2>3 DEF Less
<1> QED
  BY <1>5, <1>6

(***************************************************************************)
(* In every reachable state, whatever the menu of orders and the modes of  *)
(* self-trade prevention: an order's fills are what the trades naming it   *)
(* add up to, the index, the heaps and the parked stops agree, sequence    *)
(* numbers tell resting orders apart, and between orders no bid crosses an *)
(* ask unless self-trade prevention stopped one of them (orderbook.go).    *)
(***************************************************************************)
THEOREM MatchingBookSound == Spec => []BookSound
<1> QED
  BY MatchInvAlways, InvBookSound, PTL

(***************************************************************************)
(* In every reachable state: each trade was at the maker's price and in    *)
(* the limits of both sides, nobody traded with himself where prevention   *)
(* is on, and a fill-or-kill order was filled in full or not at all unless *)
(* stale heap entries or his own orders misled the sum (engine.go,         *)
(* matchLimitLocked, applySTP and matchFOKLocked).                         *)
(***************************************************************************)
THEOREM MatchingTradesLawful == Spec => []TradesLawful
<1> QED
  BY MatchInvAlways, InvTradesLawful, PTL

(***************************************************************************)
(* A trade's maker is the best priced live order of his side and, among    *)
(* those of that price, the one that arrived first - stops counted from    *)
(* the time they were parked (orderbook.go, OrderHeap.Less, addLocked).    *)
(***************************************************************************)
THEOREM MatchingFairPriority == Spec => FairPriority
<1>1. MatchInv /\ [Next]_vars =>
        [\A k \in DOMAIN trades' \ DOMAIN trades :
           LET m == trades'[k].maker IN
           \A j \in live \ {m} :
             spec[j].side = spec[m].side =>
               \/ IF spec[m].side = "buy" THEN spec[j].price < spec[m].price
                                          ELSE spec[j].price > spec[m].price
               \/ spec[j].price = spec[m].price /\ m < j]_vars
  <2> SUFFICES ASSUME MatchInv, [Next]_vars
               PROVE  \A k \in DOMAIN trades' \ DOMAIN trades :
                        LET m == trades'[k].maker IN
                        \A j \in live \ {m} :
                          spec[j].side = spec[m].side =>
                            \/ IF spec[m].side = "buy" THEN spec[j].price < spec[m].price
                                                       ELSE spec[j].price > spec[m].price
                            \/ spec[j].price = spec[m].price /\ m < j
    OBVIOUS
  <2>1. CASE trades' = trades
    BY <2>1
  <2>2. CASE trades' # trades
    BY <2>2, OnlyFillTrades, FillIsFair
  <2> QED
    BY <2>1, <2>2
<1> QED
  BY <1>1, MatchInvAlways, PTL DEF Spec, FairPriority

(***************************************************************************)
(* An order that is neither resting, parked nor being matched never rests  *)
(* and never trades again, though its heap entry be still there            *)
(* (orderbook.go, removeLocked leaves it to be popped later).              *)
(***************************************************************************)
THEOREM MatchingGoneForGood == Spec => GoneForGood
<1>1. MatchInv /\ [Next]_vars =>
        [\A i \in Ids : ~Waiting(i) => i \notin live' /\ ord'[i].filled = ord[i].filled]_vars
  <2> SUFFICES ASSUME MatchInv, [Next]_vars, NEW i \in Ids, ~Waiting(i)
               PROVE  i \notin live' /\ ord'[i].filled = ord[i].filled
    OBVIOUS
  <2>1. ord'[i] = ord[i] /\ ~Waiting(i)'
    BY NextMatchInv DEF LeavesAlone
  <2> QED
    BY <2>1 DEF Waiting
<1> QED
  BY <1>1, MatchInvAlways, PTL DEF Spec, GoneForGood
=============================================================================
