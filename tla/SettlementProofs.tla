-------------------------- MODULE SettlementProofs --------------------------
(***************************************************************************)
(* What the money side of spot trading keeps up for every set of users,    *)
(* fees, orders and faults: nobody overspends, trading makes no money, no  *)
(* fill whose claim and settlement were answered is settled twice while    *)
(* the process or its shared store remembers it, and what is locked is     *)
(* what reservations hold.                                                 *)
(***************************************************************************)
EXTENDS Settlement, SumTheorems, SequenceTheorems

Sides == {"buy", "sell"}
Places == {"new", "track", "submit", "accepted", "refused", "dead"}
FillType == [taker : Orders, maker : Orders, qty : Nat, takerDone : BOOLEAN, makerDone : BOOLEAN]
Steps == {"idle", "load", "debit", "sync", "settle", "restore", "resync", "unclaim", "taker", "maker"}
ReleaseType == [at : {"take", "unlock", "delete"}, order : Orders, ref : Nat]

\* Objects of reservations, and those who refer to them.
TypeRefs ==
  /\ amounts \in Seq(Nat)
  /\ res \in [Orders -> Nat] /\ \A o \in Orders : res[o] <= Len(amounts)
  /\ rel \in [Threads -> ReleaseType \cup {NotReleasing}]
  /\ \A t \in Threads : rel[t].at = "unlock" => rel[t].ref \in 1..Len(amounts)
  /\ br.ref \in [Sides -> Nat] /\ \A s \in Sides : br.ref[s] <= Len(amounts)

TypeBridge ==
  /\ br = [at |-> br.at, fill |-> br.fill, ref |-> br.ref, unlock |-> br.unlock, loaded |-> br.loaded,
              claimed |-> br.claimed]
  /\ br.at \in Steps
  /\ br.at # "idle" => br.fill \in FillType
  /\ br.unlock \in [Sides -> Nat] /\ br.loaded \in [Sides -> Nat \cup {None}]

TypeEngine ==
  /\ queue \in Seq(Orders) /\ taker \in Orders \cup {None} /\ resting \in Seq(Orders)
  /\ rem \in [Orders -> Nat]
  /\ fills \in Seq(FillType) /\ emitted \in Seq(FillType) /\ snapAt \in Nat

TypeMoney ==
  /\ bal \in [Users -> [Assets -> Int]] /\ locked \in [Users -> [Assets -> Nat]]
  /\ funding \in [Users -> [Assets -> Int]]
  /\ l2 \in [Orders -> Nat \cup {None}]
  /\ settled \in Seq(FillType)

TypeOK ==
  /\ deployment \in Deployments
  /\ at \in [Orders -> Places]
  /\ TypeRefs /\ TypeBridge /\ TypeEngine /\ TypeMoney
  /\ crashes \in Nat /\ transfers \in Nat
-----------------------------------------------------------------------------
(***************************************************************************)
(* Helpers of the model.                                                   *)
(***************************************************************************)
USE DEF dbVars, svcVars, sharedVars, engVars, notes

\* The smaller of two numbers: what an order fills, and how much a channel takes.
LEMMA MinOfTwo ==
  ASSUME NEW m \in Int, NEW n \in Int
  PROVE  Min({m, n}) \in {m, n} /\ Min({m, n}) <= m /\ Min({m, n}) <= n
<1>1. \E x \in {m, n} : \A y \in {m, n} : x <= y
  <2>1. CASE m <= n
    BY <2>1
  <2>2. CASE ~(m <= n)
    BY <2>2
  <2> QED
    BY <2>1, <2>2
<1> QED
  BY <1>1 DEF Min

\* What is known of an order.
LEMMA OrderType ==
  ASSUME TypeOK, NEW o \in Orders
  PROVE  /\ UserOf(o) \in Users /\ OrderOf[o].side \in Sides /\ OrderOf[o].price \in Nat
         /\ OrderOf[o].qty \in Nat \ {0} /\ OrderOf[o].kind \in Kinds
         /\ IsBuy(o) \in BOOLEAN /\ ReservedAsset(o) \in Assets /\ Reserved(o) \in Nat
         /\ o \in Nat
<1>1. OrderOf[o] \in OrderSpec
  BY DeploymentAssumption DEF TypeOK, Orders, OrderOf
<1>2. /\ UserOf(o) \in Users /\ OrderOf[o].side \in Sides /\ OrderOf[o].price \in Nat
      /\ OrderOf[o].qty \in Nat \ {0} /\ OrderOf[o].kind \in Kinds
  BY <1>1 DEF OrderSpec, UserOf, Sides
<1>3. IsBuy(o) \in BOOLEAN /\ ReservedAsset(o) \in Assets
  BY DEF IsBuy, ReservedAsset, Assets
<1>4. /\ Notional(o, OrderOf[o].qty) \in Nat
      /\ FeeUnit + TakerRate \in Nat
  BY <1>2, FeeAssumption DEF Notional
<1>5. Notional(o, OrderOf[o].qty) * (FeeUnit + TakerRate) \in Nat
  BY <1>4
<1>6. Reserved(o) \in Nat
  BY <1>2, <1>5 DEF Reserved
<1>7. o \in Nat
  BY DeploymentAssumption DEF TypeOK, Orders, OrderOf
<1> QED
  BY <1>2, <1>3, <1>6, <1>7

\* What is known of a fill, and what its settlement moves.
LEMMA FillMoves ==
  ASSUME TypeOK, NEW f \in FillType
  PROVE  /\ Buyer(f) \in Orders /\ Seller(f) \in Orders
         /\ UserOf(Buyer(f)) \in Users /\ UserOf(Seller(f)) \in Users
         /\ f.qty \in Nat /\ Cost(f) \in Nat /\ Proceeds(f) \in Nat /\ Fees(f) \in Int
         /\ \A s \in Sides : Party(f, s) \in Orders /\ Wanted(f, s) \in Nat
<1>1. f.taker \in Orders /\ f.maker \in Orders /\ f.qty \in Nat
  BY DEF FillType
<1>2. Buyer(f) \in Orders /\ Seller(f) \in Orders
  BY <1>1 DEF Buyer, Seller
<1>3. Value(f) \in Nat
  BY <1>1, OrderType DEF Value, Notional
<1>4. \A o \in Orders : FeeUnit + Rate(f, o) \in Nat /\ FeeUnit - Rate(f, o) \in Nat
  BY FeeAssumption DEF Rate
<1>5. Cost(f) \in Nat /\ Proceeds(f) \in Nat
  BY <1>2, <1>3, <1>4 DEF Cost, Proceeds
<1> QED
  BY <1>1, <1>2, <1>5, OrderType DEF Fees, Party, Wanted

\* The engine finds the maker that comes first.
LEMMA BestIsMaker ==
  ASSUME TypeOK, taker \in Orders, Makers(taker) # {}
  PROVE  Best \in Makers(taker) /\ Best \in Orders /\ Best \in ToSet(resting) /\ Best # taker
<1> DEFINE R == {p \in Makers(taker) \X Makers(taker) : Before(p[1], p[2])}
<1>1. Makers(taker) \subseteq ToSet(resting) /\ ToSet(resting) \subseteq Orders
  BY DEF Makers, ToSet, TypeOK, TypeEngine
<1>2. IsFiniteSet(Makers(taker))
  <2>1. /\ resting \in [1..Len(resting) -> ToSet(resting)]
        /\ DOMAIN resting = 1..Len(resting) /\ Len(resting) \in Nat
    BY DEF TypeOK, TypeEngine, ToSet
  <2>2. resting \in Surjection(1..Len(resting), ToSet(resting))
    BY <2>1 DEF Surjection, ToSet
  <2>3. IsFiniteSet(1..Len(resting))
    BY <2>1, FS_Interval
  <2> QED
    BY <1>1, <2>2, <2>3, FS_Surjection, FS_Subset
<1>3. \A m \in Makers(taker) :
        /\ m \in Orders /\ OrderOf[m].price \in Nat /\ IsBuy(m) = ~IsBuy(taker)
        /\ Position(m) \in Nat /\ resting[Position(m)] = m
  <2> SUFFICES ASSUME NEW m \in Makers(taker)
               PROVE  /\ m \in Orders /\ OrderOf[m].price \in Nat /\ IsBuy(m) = ~IsBuy(taker)
                      /\ Position(m) \in Nat /\ resting[Position(m)] = m
    OBVIOUS
  <2>1. m \in Orders /\ OrderOf[m].price \in Nat /\ IsBuy(m) = ~IsBuy(taker)
    BY <1>1, OrderType DEF Makers, IsBuy, Sides
  <2>2. \E i \in DOMAIN resting : resting[i] = m
    BY <1>1 DEF ToSet
  <2>3. Position(m) \in DOMAIN resting /\ resting[Position(m)] = m
    BY <2>2 DEF Position
  <2> QED
    BY <2>1, <2>3 DEF TypeOK, TypeEngine
<1>4. \A x, y \in Makers(taker) : x # y => Before(x, y) \/ Before(y, x)
  BY <1>3 DEF Before
<1>5. \A x, y, z \in Makers(taker) : Before(x, y) /\ Before(y, z) => Before(x, z)
  BY <1>3 DEF Before
<1>6. PICK m \in Makers(taker) : \A n \in Makers(taker) \ {m} : <<m, n>> \in R
  <2>1. \A x, y \in Makers(taker) : <<x, y>> \in R <=> Before(x, y)
    OBVIOUS
  <2> HIDE DEF R
  <2> QED
    BY <1>2, <1>4, <1>5, <2>1, LeastExists
<1>7. Best \in Makers(taker)
  BY <1>6 DEF Best
<1> QED
  BY <1>1, <1>7 DEF Makers

\* What is taken out of the book was in it.
LEMMA WithoutType ==
  ASSUME TypeOK, NEW m \in ToSet(resting)
  PROVE  Without(m) \in Seq(Orders)
<1>1. Position(m) \in DOMAIN resting
  BY DEF Position, ToSet
<1>2. Position(m) \in 1..Len(resting)
  BY <1>1 DEF TypeOK, TypeEngine
<1>3. /\ SubSeq(resting, 1, Position(m) - 1) \in Seq(Orders)
      /\ SubSeq(resting, Position(m) + 1, Len(resting)) \in Seq(Orders)
  BY <1>2, SubSeqProperties DEF TypeOK, TypeEngine
<1> QED
  BY <1>3 DEF Without, RemoveAt

\* The unlock of a settlement or a release takes what it says, or nothing.
LEMMA UnlockedType ==
  ASSUME NEW lk \in [Users -> [Assets -> Nat]], NEW u \in Users, NEW a \in Assets, NEW n \in Nat
  PROVE  /\ Unlocked(lk, u, a, n) \in [Users -> [Assets -> Nat]]
         /\ \A v \in Users, b \in Assets :
              /\ Unlocked(lk, u, a, n)[v][b] <= lk[v][b]
              /\ b # a => Unlocked(lk, u, a, n)[v][b] = lk[v][b]
<1>0. \A v \in Users, b \in Assets : lk[v][b] \in Nat
  OBVIOUS
<1>1. CASE lk[u][a] >= n
  <2> DEFINE row == [lk[u] EXCEPT ![a] = lk[u][a] - n]
  <2>1. Unlocked(lk, u, a, n) = [lk EXCEPT ![u] = row]
    BY <1>1 DEF Unlocked
  <2>2. lk[u][a] - n \in Nat
    BY <1>1
  <2>3. /\ row \in [Assets -> Nat]
        /\ \A b \in Assets : row[b] = IF b = a THEN lk[u][a] - n ELSE lk[u][b]
    BY <2>2
  <2> HIDE DEF row
  <2> QED
    BY <1>0, <1>1, <2>1, <2>3
<1>2. CASE ~(lk[u][a] >= n)
  BY <1>0, <1>2 DEF Unlocked
<1> QED
  BY <1>1, <1>2

\* The capacity of the channel.
LEMMA CapacityType == TypeOK => FillCap \in Nat
  BY DeploymentAssumption DEF TypeOK, FillCap

\* A full channel loses what is new.
LEMMA EmitType ==
  ASSUME TypeOK, NEW channel \in Seq(FillType), NEW new \in Seq(FillType)
  PROVE  Emit(channel, new) \in Seq(FillType)
<1> DEFINE all == channel \o new
           k == Len(channel) + Len(new)
           n == Min({FillCap, k})
<1>1. all \in Seq(FillType) /\ Len(all) = k /\ k \in Nat
  BY ConcatProperties
<1>2. n \in Nat /\ n <= k
  <2> HIDE DEF k, all
  <2>1. FillCap \in Int /\ k \in Int /\ FillCap \in Nat
    BY <1>1, CapacityType
  <2>2. Min({FillCap, k}) \in {FillCap, k} /\ Min({FillCap, k}) <= k
    BY <2>1, MinOfTwo
  <2> QED
    BY <1>1, <2>1, <2>2
<1>3. Emit(channel, new) = SubSeq(all, 1, n)
  BY DEF Emit
<1> HIDE DEF all, k, n
<1> QED
  BY <1>1, <1>2, <1>3, SubSeqProperties
-----------------------------------------------------------------------------
(***************************************************************************)
(* Types.                                                                  *)
(***************************************************************************)
LEMMA TypeInit == Init => TypeOK
<1> SUFFICES ASSUME Init PROVE TypeOK
  OBVIOUS
<1>1. \A o \in Orders : OrderOf[o].qty \in Nat
  BY DeploymentAssumption DEF Init, Orders, OrderOf, OrderSpec
<1>2. TypeRefs /\ TypeBridge
  BY DEF Init, TypeRefs, TypeBridge, Idle, NotReleasing, Steps, Sides
<1>3. TypeEngine
  BY <1>1 DEF Init, TypeEngine
<1>4. TypeMoney
  BY FundsAssumption DEF Init, TypeMoney, Assets
<1> QED
  BY <1>2, <1>3, <1>4 DEF Init, TypeOK, Places

\* What stays as it is keeps its type.
LEMMA TypeFrame ==
  ASSUME TypeOK, UNCHANGED deployment
  PROVE  /\ Orders' = Orders /\ Threads' = Threads /\ FillType' = FillType /\ ReleaseType' = ReleaseType
         /\ UNCHANGED <<amounts, res, rel, br>> => TypeRefs'
         /\ UNCHANGED br => TypeBridge'
         /\ UNCHANGED <<queue, taker, resting, rem, emitted, snapAt, fills>> => TypeEngine'
         /\ UNCHANGED <<bal, locked, funding, l2, settled>> => TypeMoney'
<1>1. Orders' = Orders
  BY DEF Orders, OrderOf
<1>2. Threads' = Threads /\ FillType' = FillType /\ ReleaseType' = ReleaseType
  BY <1>1 DEF Threads, FillType, ReleaseType
<1> QED
  BY <1>1, <1>2 DEF TypeOK, TypeRefs, TypeBridge, TypeEngine, TypeMoney

\* The order handler keeps the types: reserve, track, submit, refuse.
LEMMA TypeOrders ==
  ASSUME TypeOK, NEW o \in Orders, Reserve(o) \/ Track(o) \/ Submit(o) \/ Refuse(o),
         UNCHANGED deployment
  PROVE  TypeOK'
<1>1. Orders' = Orders /\ Threads' = Threads /\ o \in Threads
  BY TypeFrame DEF Threads
<1>2. CASE Reserve(o)
  <2>1. UserOf(o) \in Users /\ ReservedAsset(o) \in Assets /\ Reserved(o) \in Nat
    BY OrderType
  <2>2. locked' \in [Users -> [Assets -> Nat]]
    BY <1>2, <2>1 DEF Reserve, TypeOK, TypeMoney
  <2>3. TypeMoney' /\ TypeRefs' /\ TypeBridge' /\ TypeEngine'
    BY <1>1, <1>2, <2>2, TypeFrame DEF Reserve, TypeOK, TypeMoney, FillType
  <2> QED
    BY <1>1, <1>2, <2>3 DEF Reserve, TypeOK, Places
<1>3. CASE Track(o)
  <2>1. Reserved(o) \in Nat
    BY OrderType
  <2>2. amounts' \in Seq(Nat) /\ Len(amounts') = Len(amounts) + 1
    BY <1>3, <2>1 DEF Track, TypeOK, TypeRefs
  <2>3. TypeRefs'
    BY <1>1, <1>3, <2>2, TypeFrame DEF Track, TypeOK, TypeRefs
  <2>4. TypeMoney' /\ TypeBridge' /\ TypeEngine'
    BY <1>1, <1>3, <2>1, TypeFrame DEF Track, TypeOK, TypeMoney
  <2> QED
    BY <1>1, <1>3, <2>3, <2>4 DEF Track, TypeOK, Places
<1>4. CASE Submit(o)
  <2>1. TypeRefs' /\ TypeMoney' /\ TypeBridge'
    BY <1>4, TypeFrame DEF Submit
  <2>2. TypeEngine'
    BY <1>1, <1>4, TypeFrame DEF Submit, TypeOK, TypeEngine
  <2> QED
    BY <1>1, <1>4, <2>1, <2>2 DEF Submit, TypeOK, Places
<1>5. CASE Refuse(o)
  <2>1. TypeEngine' /\ TypeMoney' /\ TypeBridge'
    BY <1>5, TypeFrame DEF Refuse
  <2>2. TypeRefs'
    BY <1>1, <1>5, TypeFrame DEF Refuse, TypeOK, TypeRefs, Releasing, ReleaseType
  <2> QED
    BY <1>1, <1>5, <2>1, <2>2 DEF Refuse, TypeOK, Places
<1> QED
  BY <1>2, <1>3, <1>4, <1>5

\* Handing a lock back keeps the types.
LEMMA TypeRelease ==
  ASSUME TypeOK, NEW t \in Threads, Release(t), UNCHANGED deployment
  PROVE  TypeOK'
<1>1. Orders' = Orders /\ Threads' = Threads /\ ReleaseType' = ReleaseType
  BY TypeFrame
<1>2. rel[t].at # "none" => rel[t] \in ReleaseType /\ rel[t].order \in Orders
  BY DEF TypeOK, TypeRefs, NotReleasing, ReleaseType
<1>3. CASE ReleaseTake(t)
  <2>1. PICK o \in Orders : o = rel[t].order
    BY <1>2, <1>3 DEF ReleaseTake
  <2>0. PICK lost \in Unreachable({o}) :
          LET fromL2 == res[o] = 0 /\ SharedStore /\ l2[o] # None /\ o \notin lost
              all == IF fromL2 THEN Append(amounts, l2[o]) ELSE amounts
              ref == IF fromL2 THEN Len(all) ELSE res[o]
          IN  /\ amounts' = all /\ res' = [res EXCEPT ![o] = 0]
              /\ rel' = [rel EXCEPT ![t] = IF ref = 0 THEN NotReleasing
                                           ELSE IF all[ref] = 0 THEN NotReleasing
                                           ELSE [at |-> "unlock", order |-> o, ref |-> ref]]
    BY <1>3, <2>1 DEF ReleaseTake
  <2> DEFINE fromL2 == res[o] = 0 /\ SharedStore /\ l2[o] # None /\ o \notin lost
             all == IF fromL2 THEN Append(amounts, l2[o]) ELSE amounts
             ref == IF fromL2 THEN Len(all) ELSE res[o]
  <2>2. all \in Seq(Nat) /\ Len(amounts) <= Len(all) /\ ref \in 0..Len(all)
    <3>1. CASE fromL2
      <4>1. l2[o] \in Nat
        BY <3>1 DEF TypeOK, TypeMoney
      <4>2. all = Append(amounts, l2[o]) /\ ref = Len(all)
        BY <3>1
      <4> QED
        BY <4>1, <4>2 DEF TypeOK, TypeRefs
    <3>2. CASE ~fromL2
      <4>1. all = amounts /\ ref = res[o]
        BY <3>2
      <4> QED
        BY <4>1 DEF TypeOK, TypeRefs
    <3> QED
      BY <3>1, <3>2
  <2>3. /\ amounts' = all /\ res' = [res EXCEPT ![o] = 0]
        /\ rel' = [rel EXCEPT ![t] = IF ref = 0 THEN NotReleasing
                                     ELSE IF all[ref] = 0 THEN NotReleasing
                                     ELSE [at |-> "unlock", order |-> o, ref |-> ref]]
        /\ UNCHANGED <<dbVars, processed, sharedVars, engVars, fills, at, br, settled, notes>>
    BY <1>3, <2>0 DEF ReleaseTake
  <2> HIDE DEF all, ref
  <2>4. TypeRefs'
    BY <1>1, <2>2, <2>3, TypeFrame DEF TypeOK, TypeRefs, ReleaseType, NotReleasing
  <2>5. TypeEngine' /\ TypeMoney' /\ TypeBridge'
    BY <2>3, TypeFrame
  <2> QED
    BY <1>1, <2>3, <2>4, <2>5 DEF TypeOK
<1>4. CASE ReleaseUnlock(t)
  <2>1. PICK o \in Orders : o = rel[t].order
    BY <1>2, <1>4 DEF ReleaseUnlock
  <2>2. amounts[rel[t].ref] \in Nat /\ UserOf(o) \in Users /\ ReservedAsset(o) \in Assets
    BY <1>4, OrderType DEF ReleaseUnlock, TypeOK, TypeRefs
  <2>3. locked' \in [Users -> [Assets -> Nat]]
    <3>1. locked \in [Users -> [Assets -> Nat]]
      BY DEF TypeOK, TypeMoney
    <3>2. \/ locked' = locked
          \/ locked' = Unlocked(locked, UserOf(o), ReservedAsset(o), amounts[rel[t].ref])
      BY <1>4, <2>1 DEF ReleaseUnlock
    <3> QED
      BY <2>2, <3>1, <3>2, UnlockedType
  <2>4. /\ rel'[t] \in {NotReleasing, [at |-> "delete", order |-> rel[t].order, ref |-> rel[t].ref]}
        /\ \A u \in Threads \ {t} : rel'[u] = rel[u]
        /\ rel' \in [Threads -> ReleaseType \cup {NotReleasing}]
    <3>1. rel \in [Threads -> ReleaseType \cup {NotReleasing}] /\ rel[t] \in ReleaseType
      BY <1>2, <1>4 DEF ReleaseUnlock, TypeOK, TypeRefs
    <3>2. [rel[t] EXCEPT !.at = "delete"] = [at |-> "delete", order |-> rel[t].order, ref |-> rel[t].ref]
      BY <3>1 DEF ReleaseType
    <3>3. [at |-> "delete", order |-> rel[t].order, ref |-> rel[t].ref] \in ReleaseType
      BY <3>1 DEF ReleaseType
    <3>4. \/ rel' = [rel EXCEPT ![t] = NotReleasing]
          \/ rel' = [rel EXCEPT ![t] = [rel[t] EXCEPT !.at = "delete"]]
      BY <1>4 DEF ReleaseUnlock
    <3> HIDE DEF ReleaseType
    <3> QED
      BY <3>1, <3>2, <3>3, <3>4
  <2>5. TypeRefs'
    <3>1. \A u \in Threads : rel'[u].at = "unlock" => rel'[u] = rel[u] /\ u # t
      BY <2>4 DEF NotReleasing
    <3>2. \A u \in Threads : rel'[u].at = "unlock" => rel'[u].ref \in 1..Len(amounts)
      BY <3>1 DEF TypeOK, TypeRefs
    <3>3. UNCHANGED <<amounts, res, br>>
      BY <1>4 DEF ReleaseUnlock
    <3>4. rel' \in [Threads' -> ReleaseType' \cup {NotReleasing}]
      BY <1>1, <2>4
    <3>5. /\ amounts' \in Seq(Nat)
          /\ res' \in [Orders' -> Nat] /\ \A k \in Orders' : res'[k] <= Len(amounts')
          /\ br'.ref \in [Sides -> Nat] /\ \A s \in Sides : br'.ref[s] <= Len(amounts')
      BY <1>1, <3>3 DEF TypeOK, TypeRefs
    <3> QED
      BY <1>1, <3>2, <3>3, <3>4, <3>5 DEF TypeRefs
  <2>6. TypeEngine' /\ TypeBridge' /\ TypeMoney'
    BY <1>1, <1>4, <2>3, TypeFrame DEF ReleaseUnlock, TypeOK, TypeMoney
  <2> QED
    BY <1>1, <1>4, <2>5, <2>6 DEF ReleaseUnlock, TypeOK
<1>5. CASE ReleaseDelete(t)
  <2>1. TypeRefs'
    BY <1>1, <1>5, TypeFrame DEF ReleaseDelete, TypeOK, TypeRefs, NotReleasing
  <2>2. TypeEngine' /\ TypeBridge' /\ TypeMoney'
    BY <1>1, <1>5, TypeFrame DEF ReleaseDelete, TypeOK, TypeMoney
  <2> QED
    BY <1>1, <1>5, <2>1, <2>2 DEF ReleaseDelete, TypeOK
<1> QED
  BY <1>3, <1>4, <1>5 DEF Release

\* The engine keeps the types: taking, matching, cancelling, its snapshots.
LEMMA TypeMatching ==
  ASSUME TypeOK, EngineStep \/ Snapshot \/ \E o \in Orders : Cancel(o), UNCHANGED deployment
  PROVE  TypeOK'
<1>1. Orders' = Orders /\ Threads' = Threads /\ FillType' = FillType
  BY TypeFrame
<1> USE DEF TypeOK
<1>2. CASE Take
  <2>1. TypeEngine'
    BY <1>1, <1>2 DEF Take, TypeEngine
  <2> QED
    BY <1>1, <1>2, <2>1, TypeFrame DEF Take
<1>3. CASE Finish
  <2>1. resting' \in Seq(Orders)
    BY <1>3 DEF Finish, TypeEngine
  <2>2. TypeEngine'
    BY <1>1, <1>3, <2>1 DEF Finish, TypeEngine
  <2> QED
    BY <1>1, <1>3, <2>2, TypeFrame DEF Finish
<1>4. CASE Trade
  <2>1. taker \in Orders /\ rem[taker] \in Nat
    BY <1>4 DEF Trade, TypeEngine
  <2> DEFINE m == Best
             q == Min({rem[taker], rem[m]})
             f == [taker |-> taker, maker |-> m, qty |-> q,
                   takerDone |-> rem[taker] = q, makerDone |-> rem[m] = q]
  <2>2. m \in Orders /\ m # taker /\ m \in ToSet(resting)
    BY <1>4, <2>1, BestIsMaker DEF Trade
  <2>3. /\ rem' = [rem EXCEPT ![taker] = @ - q, ![m] = @ - q]
        /\ resting' = IF f.makerDone THEN Without(m) ELSE resting
        /\ fills' = Emit(fills, <<f>>) /\ emitted' = Append(emitted, f)
        /\ UNCHANGED <<dbVars, svcVars, sharedVars, queue, taker, snapAt, at, rel, br, settled, notes>>
    BY <1>4 DEF Trade
  <2> HIDE DEF m
  <2>4. q \in Nat /\ q <= rem[taker] /\ q <= rem[m]
    <3>1. rem[m] \in Nat /\ rem[m] \in Int /\ rem[taker] \in Int
      BY <2>1, <2>2 DEF TypeEngine
    <3>2. q \in {rem[taker], rem[m]} /\ q <= rem[taker] /\ q <= rem[m]
      BY <3>1, MinOfTwo
    <3> QED
      BY <2>1, <3>1, <3>2
  <2> HIDE DEF q
  <2>5. f \in FillType
    BY <2>1, <2>2, <2>4 DEF FillType
  <2>6. rem' \in [Orders -> Nat]
    <3>1. rem \in [Orders -> Nat]
      BY DEF TypeEngine
    <3>2. rem' = [[rem EXCEPT ![taker] = rem[taker] - q] EXCEPT ![m] = rem[m] - q]
      BY <2>1, <2>2, <2>3, <3>1
    <3>3. rem[taker] - q \in Nat /\ rem[m] - q \in Nat
      BY <2>1, <2>2, <2>4, <3>1
    <3> QED
      BY <2>1, <2>2, <3>1, <3>2, <3>3
  <2>7. resting' \in Seq(Orders)
    BY <2>2, <2>3, WithoutType DEF TypeEngine
  <2> HIDE DEF f
  <2>8. <<f>> \in Seq(FillType) /\ emitted' \in Seq(FillType)
    BY <2>3, <2>5 DEF TypeEngine
  <2>9. fills' \in Seq(FillType)
    BY <2>3, <2>8, EmitType DEF TypeEngine
  <2>10. TypeEngine'
    BY <1>1, <2>3, <2>6, <2>7, <2>8, <2>9 DEF TypeEngine
  <2> QED
    BY <1>1, <2>3, <2>10, TypeFrame
<1>5. CASE Snapshot
  <2>1. TypeEngine'
    BY <1>1, <1>5 DEF Snapshot, TypeEngine
  <2> QED
    BY <1>1, <1>5, <2>1, TypeFrame DEF Snapshot
<1>6. ASSUME NEW o \in Orders, Cancel(o)
      PROVE  TypeOK'
  <2>1. resting' \in Seq(Orders)
    BY <1>6, WithoutType DEF Cancel
  <2>2. TypeEngine'
    BY <1>1, <1>6, <2>1 DEF Cancel, TypeEngine
  <2>3. TypeRefs'
    BY <1>1, <1>6 DEF Cancel, TypeRefs, Releasing, ReleaseType, Threads
  <2> QED
    BY <1>1, <1>6, <2>2, <2>3, TypeFrame DEF Cancel
<1> QED
  BY <1>2, <1>3, <1>4, <1>5, <1>6 DEF EngineStep

\* The bridge keeps its fill from one step to the next.
LEMMA BridgeGoesOn ==
  ASSUME TypeOK, UNCHANGED deployment, NEW x \in Steps, br' = [br EXCEPT !.at = x],
         br.at # "idle"
  PROVE  /\ TypeBridge'
         /\ br'.at = x /\ br'.fill = br.fill /\ br'.ref = br.ref /\ br'.unlock = br.unlock
<1>1. br = [at |-> br.at, fill |-> br.fill, ref |-> br.ref, unlock |-> br.unlock, loaded |-> br.loaded,
              claimed |-> br.claimed]
  BY DEF TypeOK, TypeBridge
<1>2. br' = [at |-> x, fill |-> br.fill, ref |-> br.ref, unlock |-> br.unlock, loaded |-> br.loaded,
              claimed |-> br.claimed]
  BY <1>1
<1>3. /\ br'.at = x /\ br'.fill = br.fill /\ br'.ref = br.ref /\ br'.unlock = br.unlock
      /\ br'.loaded = br.loaded
  BY <1>2
<1> QED
  BY <1>2, <1>3, TypeFrame DEF TypeOK, TypeBridge

\* The bridge takes a fill from the channel.
LEMMA TypeBridgeTake ==
  ASSUME TypeOK, BridgeTake \/ BridgeTakeUnsure, UNCHANGED deployment
  PROVE  TypeOK'
<1>1. fills \in Seq(FillType) /\ fills # << >>
  BY DEF BridgeTake, BridgeTakeUnsure, TypeOK, TypeEngine
<1>2. Head(fills) \in FillType /\ Tail(fills) \in Seq(FillType)
  BY <1>1, HeadTailProperties
<1>3. ASSUME NEW x \in {"taker", "load", "debit"}, br' = [Idle EXCEPT !.fill = Head(fills), !.at = x]
      PROVE  br' = [at |-> x, fill |-> Head(fills), ref |-> [s \in Sides |-> 0],
                    unlock |-> [s \in Sides |-> 0], loaded |-> [s \in Sides |-> None],
                    claimed |-> FALSE]
  BY <1>3 DEF Idle, Sides
<1>4. PICK x \in {"taker", "load", "debit"}, c \in BOOLEAN :
        br' = [at |-> x, fill |-> Head(fills), ref |-> [s \in Sides |-> 0],
               unlock |-> [s \in Sides |-> 0], loaded |-> [s \in Sides |-> None], claimed |-> c]
  <2>1. CASE BridgeTake
    <3>1. PICK x \in {"taker", "load", "debit"}, c \in BOOLEAN :
            br' = [Idle EXCEPT !.fill = Head(fills), !.at = x, !.claimed = c]
      BY <2>1 DEF BridgeTake, ToSettle
    <3> QED
      BY <3>1 DEF Idle, Sides
  <2>2. CASE BridgeTakeUnsure
    <3>1. \/ br' = [Idle EXCEPT !.fill = Head(fills), !.at = "load"]
          \/ br' = [Idle EXCEPT !.fill = Head(fills), !.at = "taker"]
      BY <2>2 DEF BridgeTakeUnsure
    <3> QED
      BY <1>3, <3>1
  <2> QED
    BY <2>1, <2>2
<1>5. TypeBridge' /\ br'.ref = [s \in Sides |-> 0]
  BY <1>2, <1>4, TypeFrame DEF TypeBridge, Steps
<1>6. TypeRefs'
  BY <1>5, TypeFrame DEF BridgeTake, BridgeTakeUnsure, TypeOK, TypeRefs
<1>7. TypeEngine'
  BY <1>2, TypeFrame DEF BridgeTake, BridgeTakeUnsure, TypeOK, TypeEngine
<1> QED
  BY <1>5, <1>6, <1>7, TypeFrame DEF BridgeTake, BridgeTakeUnsure, TypeOK

\* The bridge reads reservations from the shared store.
LEMMA TypeBridgeLoad ==
  ASSUME TypeOK, BridgeLoad, UNCHANGED deployment
  PROVE  TypeOK'
<1>0. PICK lost \in Unreachable({Buyer(br.fill), Seller(br.fill)}) :
        br' = [br EXCEPT !.at = "debit", !.loaded =
                [s \in {"buy", "sell"} |->
                  LET o == Party(br.fill, s) IN IF res[o] = 0 /\ o \notin lost THEN l2[o] ELSE None]]
  BY DEF BridgeLoad
<1> DEFINE ld == [s \in {"buy", "sell"} |->
                   LET o == Party(br.fill, s) IN IF res[o] = 0 /\ o \notin lost THEN l2[o] ELSE None]
<1>1. br.fill \in FillType
  BY DEF BridgeLoad, TypeOK, TypeBridge
<1>2. ld \in [Sides -> Nat \cup {None}]
  BY <1>1, FillMoves DEF TypeOK, TypeMoney, Sides
<1>3. br' = [br EXCEPT !.at = "debit", !.loaded = ld]
  BY <1>0
<1> HIDE DEF ld
<1>4. br = [at |-> br.at, fill |-> br.fill, ref |-> br.ref, unlock |-> br.unlock, loaded |-> br.loaded,
              claimed |-> br.claimed]
  BY DEF TypeOK, TypeBridge
<1>5. br' = [at |-> "debit", fill |-> br.fill, ref |-> br.ref, unlock |-> br.unlock, loaded |-> ld,
              claimed |-> br.claimed]
  BY <1>3, <1>4
<1>6. TypeBridge' /\ br'.ref = br.ref
  BY <1>1, <1>2, <1>5, TypeFrame DEF TypeOK, TypeBridge, Steps
<1>7. TypeRefs'
  BY <1>6, TypeFrame DEF BridgeLoad, TypeOK, TypeRefs
<1> QED
  BY <1>6, <1>7, TypeFrame DEF BridgeLoad, TypeOK

\* The bridge takes what a fill needs from the reservations of its parties.
LEMMA TypeBridgeDebit ==
  ASSUME TypeOK, BridgeDebit, UNCHANGED deployment
  PROVE  TypeOK'
<1> DEFINE f == br.fill
           insert(s) == br.loaded[s] # None /\ res[Party(f, s)] = 0
           all1 == IF insert("buy") THEN Append(amounts, br.loaded["buy"]) ELSE amounts
           all2 == IF insert("sell") THEN Append(all1, br.loaded["sell"]) ELSE all1
           ref == [s \in {"buy", "sell"} |->
                    IF ~insert(s) THEN res[Party(f, s)]
                    ELSE IF s = "buy" THEN Len(all1) ELSE Len(all2)]
           part == [s \in {"buy", "sell"} |->
                     IF ref[s] = 0 THEN 0 ELSE Portion(all2[ref[s]], Wanted(f, s))]
           x == IF SharedStore THEN "sync" ELSE "settle"
<1>1. f \in FillType
  BY DEF BridgeDebit, TypeOK, TypeBridge
<1>2. /\ amounts' = [i \in DOMAIN all2 |->
              IF i = ref["buy"] THEN all2[i] - part["buy"]
              ELSE IF i = ref["sell"] THEN all2[i] - part["sell"] ELSE all2[i]]
      /\ res' = [o \in Orders |->
              IF \E s \in {"buy", "sell"} : o = Party(f, s)
                THEN LET s == OrderOf[o].side
                     IN  IF ref[s] = 0 \/ all2[ref[s]] = part[s] THEN 0 ELSE ref[s]
                ELSE res[o]]
      /\ br' = [br EXCEPT !.at = x, !.ref = ref, !.unlock = part]
      /\ UNCHANGED <<dbVars, processed, sharedVars, engVars, fills, at, rel, settled, notes>>
  BY DEF BridgeDebit
<1> HIDE DEF f
<1>3. /\ amounts \in Seq(Nat) /\ Len(amounts) \in Nat
      /\ \A s \in Sides : Party(f, s) \in Orders /\ Wanted(f, s) \in Nat
      /\ \A s \in Sides : res[Party(f, s)] \in 0..Len(amounts)
      /\ \A s \in Sides : br.loaded[s] \in Nat \cup {None}
  BY <1>1, FillMoves DEF TypeOK, TypeRefs, TypeBridge
<1>4. all1 \in Seq(Nat) /\ Len(all1) \in Nat /\ Len(amounts) <= Len(all1)
  <2>1. CASE insert("buy")
    <3>1. br.loaded["buy"] \in Nat /\ all1 = Append(amounts, br.loaded["buy"])
      BY <1>3, <2>1 DEF Sides
    <3> QED
      BY <1>3, <3>1
  <2>2. CASE ~insert("buy")
    BY <1>3, <2>2
  <2> QED
    BY <2>1, <2>2
<1> HIDE DEF all1
<1>5. /\ all2 \in Seq(Nat) /\ Len(all2) \in Nat /\ Len(all1) <= Len(all2) /\ DOMAIN all2 = 1..Len(all2)
      /\ \A i \in 1..Len(all2) : all2[i] \in Nat
  <2>1. CASE insert("sell")
    <3>1. br.loaded["sell"] \in Nat /\ all2 = Append(all1, br.loaded["sell"])
      BY <1>3, <2>1 DEF Sides
    <3> QED
      BY <1>4, <3>1
  <2>2. CASE ~insert("sell")
    BY <1>4, <2>2
  <2> QED
    BY <2>1, <2>2
<1> HIDE DEF all2
<1>6. \A s \in Sides : ref[s] \in 0..Len(all2)
  BY <1>3, <1>4, <1>5 DEF Sides
<1>7. ref \in [Sides -> 0..Len(all2)]
  BY <1>6 DEF Sides
<1> HIDE DEF ref
<1>8. \A s \in Sides : part[s] \in Nat /\ (ref[s] # 0 => part[s] <= all2[ref[s]])
  <2> SUFFICES ASSUME NEW s \in Sides
               PROVE  part[s] \in Nat /\ (ref[s] # 0 => part[s] <= all2[ref[s]])
    OBVIOUS
  <2>1. CASE ref[s] = 0
    BY <2>1 DEF Sides
  <2>2. CASE ref[s] # 0
    <3>1. all2[ref[s]] \in Nat /\ all2[ref[s]] \in Int /\ Wanted(f, s) \in Nat /\ Wanted(f, s) \in Int
      BY <1>3, <1>5, <1>6, <2>2
    <3>2. part[s] = Min({all2[ref[s]], Wanted(f, s)})
      BY <2>2 DEF Portion, Sides
    <3>3. /\ Min({all2[ref[s]], Wanted(f, s)}) \in {all2[ref[s]], Wanted(f, s)}
          /\ Min({all2[ref[s]], Wanted(f, s)}) <= all2[ref[s]]
      BY <3>1, MinOfTwo
    <3> HIDE DEF part
    <3> QED
      BY <3>1, <3>2, <3>3
  <2> QED
    BY <2>1, <2>2
<1>9. part \in [Sides -> Nat]
  BY <1>8 DEF Sides
<1> HIDE DEF part
<1>10. amounts' \in Seq(Nat) /\ Len(amounts') = Len(all2)
  <2>1. \A i \in 1..Len(all2) : amounts'[i] \in Nat
    BY <1>2, <1>5, <1>6, <1>8, SMTT(30) DEF Sides
  <2>2. amounts' \in [1..Len(all2) -> Nat]
    BY <1>2, <1>5, <2>1
  <2> QED
    BY <1>5, <2>2, SeqDef, LenProperties
<1>11. res' \in [Orders -> Nat] /\ \A o \in Orders : res'[o] <= Len(all2)
  <2>1. \A o \in Orders : OrderOf[o].side \in Sides
    BY OrderType
  <2>2. \A o \in Orders : res[o] \in 0..Len(all2)
    BY <1>3, <1>4, <1>5 DEF TypeOK, TypeRefs
  <2>3. \A o \in Orders : res'[o] \in 0..Len(all2)
    BY <1>2, <1>6, <2>1, <2>2
  <2> QED
    BY <1>2, <1>5, <2>3
<1>12. br = [at |-> br.at, fill |-> br.fill, ref |-> br.ref, unlock |-> br.unlock, loaded |-> br.loaded,
              claimed |-> br.claimed]
  BY DEF TypeOK, TypeBridge
<1>13. br' = [at |-> x, fill |-> br.fill, ref |-> ref, unlock |-> part, loaded |-> br.loaded,
              claimed |-> br.claimed]
  BY <1>2, <1>12
<1>14. TypeBridge' /\ br'.ref = ref
  BY <1>1, <1>9, <1>13, TypeFrame DEF f, TypeOK, TypeBridge, Steps
<1>15. \A t \in Threads : rel[t].at = "unlock" => rel[t].ref \in 1..Len(all2)
  BY <1>3, <1>4, <1>5 DEF TypeOK, TypeRefs
<1>16. TypeRefs'
  <2>1. /\ Orders' = Orders /\ Threads' = Threads /\ ReleaseType' = ReleaseType
        /\ rel' = rel /\ rel \in [Threads -> ReleaseType \cup {NotReleasing}]
    BY <1>2, TypeFrame DEF TypeOK, TypeRefs
  <2>2. br'.ref \in [Sides -> Nat] /\ \A s \in Sides : br'.ref[s] <= Len(all2)
    BY <1>5, <1>7, <1>14
  <2> QED
    BY <1>10, <1>11, <1>15, <2>1, <2>2 DEF TypeRefs
<1> QED
  BY <1>2, <1>14, <1>16, TypeFrame DEF TypeOK

\* What a settlement makes of the balances.
LEMMA BalanceMoves ==
  ASSUME TypeOK, NEW f \in FillType
  PROVE  /\ BalanceAfter(f) \in [Users -> [Assets -> Int]]
         /\ \A u \in Users :
              /\ BalanceAfter(f)[u]["quote"] = bal[u]["quote"]
                   + (IF u = UserOf(Buyer(f)) THEN 0 - Cost(f) ELSE 0)
                   + (IF u = UserOf(Seller(f)) THEN Proceeds(f) ELSE 0)
              /\ BalanceAfter(f)[u]["base"] = bal[u]["base"]
                   + (IF u = UserOf(Buyer(f)) THEN f.qty ELSE 0)
                   + (IF u = UserOf(Seller(f)) THEN 0 - f.qty ELSE 0)
<1>1. PICK b \in Users, s \in Users : b = UserOf(Buyer(f)) /\ s = UserOf(Seller(f))
  BY FillMoves
<1>2. PICK c \in Int, g \in Int, q \in Int : c = Cost(f) /\ g = Proceeds(f) /\ q = f.qty
  BY FillMoves
<1> DEFINE rowB == [bal[b] EXCEPT !["quote"] = bal[b]["quote"] - c, !["base"] = bal[b]["base"] + q]
           bal1 == [bal EXCEPT ![b] = rowB]
           rowS == [bal1[s] EXCEPT !["base"] = bal1[s]["base"] - q, !["quote"] = bal1[s]["quote"] + g]
           bal2 == [bal1 EXCEPT ![s] = rowS]
<1>3. bal \in [Users -> [Assets -> Int]]
  BY DEF TypeOK, TypeMoney
<1>4. BalanceAfter(f) = bal2
  <2> DEFINE bought == [bal EXCEPT ![b]["quote"] = @ - c, ![b]["base"] = @ + q]
  <2>1. BalanceAfter(f) = [bought EXCEPT ![s]["base"] = @ - q, ![s]["quote"] = @ + g]
    BY <1>1, <1>2 DEF BalanceAfter
  <2>2. bought = bal1
    BY <1>3 DEF Assets
  <2> HIDE DEF bought
  <2>3. bal1 \in [Users -> [Assets -> Int]]
    BY <1>3 DEF Assets
  <2> HIDE DEF bal1
  <2>4. [bal1 EXCEPT ![s]["base"] = @ - q, ![s]["quote"] = @ + g] = bal2
    BY <2>3 DEF Assets
  <2> QED
    BY <2>1, <2>2, <2>4
<1>5. /\ rowB \in [Assets -> Int]
      /\ rowB["quote"] = bal[b]["quote"] - c /\ rowB["base"] = bal[b]["base"] + q
  BY <1>3 DEF Assets
<1> HIDE DEF rowB
<1>6. /\ bal1 \in [Users -> [Assets -> Int]]
      /\ bal1[b] = rowB /\ \A u \in Users : u # b => bal1[u] = bal[u]
  BY <1>3, <1>5
<1> HIDE DEF bal1
<1>7. /\ rowS \in [Assets -> Int]
      /\ rowS["quote"] = bal1[s]["quote"] + g /\ rowS["base"] = bal1[s]["base"] - q
  BY <1>6 DEF Assets
<1> HIDE DEF rowS
<1>8. /\ bal2 \in [Users -> [Assets -> Int]]
      /\ bal2[s] = rowS /\ \A u \in Users : u # s => bal2[u] = bal1[u]
  BY <1>6, <1>7
<1>9. \A u \in Users : bal[u]["quote"] \in Int /\ bal[u]["base"] \in Int
  BY <1>3 DEF Assets
<1> HIDE DEF bal2
<1>10. \A u \in Users :
         /\ bal2[u]["quote"] = bal[u]["quote"] + (IF u = b THEN 0 - c ELSE 0) + (IF u = s THEN g ELSE 0)
         /\ bal2[u]["base"] = bal[u]["base"] + (IF u = b THEN q ELSE 0) + (IF u = s THEN 0 - q ELSE 0)
  BY <1>5, <1>6, <1>7, <1>8, <1>9
<1> QED
  BY <1>1, <1>2, <1>4, <1>8, <1>10

\* The rest of what the bridge does with a fill.
LEMMA TypeBridgeOn ==
  ASSUME TypeOK, UNCHANGED deployment,
         BridgeSync \/ BridgeSettle \/ BridgeSettleFails \/ BridgeRestore \/ BridgeUnclaim
  PROVE  TypeOK'
<1>1. Orders' = Orders /\ Threads' = Threads /\ ReleaseType' = ReleaseType /\ FillType' = FillType
  BY TypeFrame
<1>2. br.fill \in FillType /\ br.at # "idle"
  BY DEF BridgeSync, BridgeSettle, BridgeSettleFails, BridgeRestore, BridgeUnclaim, TypeOK, TypeBridge
<1>3. TypeBridge' /\ br'.fill = br.fill /\ br'.ref = br.ref /\ br'.unlock = br.unlock
  <2>1. \E x \in Steps : br' = [br EXCEPT !.at = x]
    BY DEF BridgeSync, BridgeSettle, BridgeSettleFails, BridgeRestore, BridgeUnclaim, Steps
  <2> QED
    BY <1>2, <2>1, BridgeGoesOn
<1>4. UNCHANGED <<amounts, res, rel>> => TypeRefs'
  BY <1>1, <1>3 DEF TypeOK, TypeRefs
<1>5. CASE BridgeSync
  <2>1. \A o \in Orders : res[o] # 0 => amounts[res[o]] \in Nat
    BY DEF TypeOK, TypeRefs
  <2>2. l2' \in [Orders -> Nat \cup {None}]
    BY <1>5, <2>1 DEF BridgeSync, TypeOK, TypeMoney
  <2>3. TypeMoney'
    BY <1>1, <1>5, <2>2 DEF BridgeSync, TypeOK, TypeMoney
  <2> QED
    BY <1>1, <1>3, <1>4, <1>5, <2>3, TypeFrame DEF BridgeSync, TypeOK
<1>6. CASE BridgeSettle
  <2>1. /\ UserOf(Buyer(br.fill)) \in Users /\ UserOf(Seller(br.fill)) \in Users
        /\ br.unlock["buy"] \in Nat /\ br.unlock["sell"] \in Nat
        /\ "quote" \in Assets /\ "base" \in Assets
    BY <1>2, FillMoves DEF TypeOK, TypeBridge, Sides, Assets
  <2>2. locked' \in [Users -> [Assets -> Nat]]
    <3>1. locked \in [Users -> [Assets -> Nat]]
      BY DEF TypeOK, TypeMoney
    <3>2. Unlocked(locked, UserOf(Buyer(br.fill)), "quote", br.unlock["buy"]) \in [Users -> [Assets -> Nat]]
      BY <2>1, <3>1, UnlockedType
    <3>3. locked' = Unlocked(Unlocked(locked, UserOf(Buyer(br.fill)), "quote", br.unlock["buy"]),
                             UserOf(Seller(br.fill)), "base", br.unlock["sell"])
      BY <1>6 DEF BridgeSettle, LockedAfter
    <3> QED
      BY <2>1, <3>2, <3>3, UnlockedType
  <2>3. bal' \in [Users -> [Assets -> Int]]
    BY <1>2, <1>6, BalanceMoves DEF BridgeSettle
  <2>4. settled' \in Seq(FillType)
    BY <1>2, <1>6 DEF BridgeSettle, TypeOK, TypeMoney
  <2>5. TypeMoney'
    BY <1>1, <1>6, <2>2, <2>3, <2>4 DEF BridgeSettle, TypeOK, TypeMoney
  <2> QED
    BY <1>1, <1>3, <1>4, <1>6, <2>5, TypeFrame DEF BridgeSettle, TypeOK
<1>7. CASE BridgeSettleFails
  BY <1>1, <1>3, <1>4, <1>7, TypeFrame DEF BridgeSettleFails, TypeOK
<1>8. CASE BridgeRestore
  <2>1. amounts \in Seq(Nat) /\ DOMAIN amounts = 1..Len(amounts) /\ Len(amounts) \in Nat
    BY DEF TypeOK, TypeRefs
  <2>2. \A s \in Sides : br.unlock[s] \in Nat /\ br.ref[s] \in 0..Len(amounts)
    BY <2>1 DEF TypeOK, TypeRefs, TypeBridge
  <2> DEFINE given(i, s) == IF br.ref[s] = i THEN br.unlock[s] ELSE 0
  <2>3. amounts' = [i \in DOMAIN amounts |-> amounts[i] + given(i, "buy") + given(i, "sell")]
    BY <1>8 DEF BridgeRestore
  <2>4. \A i \in 1..Len(amounts) : amounts'[i] \in Nat
    <3>1. \A i \in 1..Len(amounts) : amounts[i] \in Nat
      BY <2>1
    <3>2. \A i \in 1..Len(amounts) : given(i, "buy") \in Nat /\ given(i, "sell") \in Nat
      BY <2>2 DEF Sides
    <3> HIDE DEF given
    <3> QED
      BY <2>1, <2>3, <3>1, <3>2
  <2>5. amounts' \in Seq(Nat) /\ Len(amounts') = Len(amounts)
    <3>1. amounts' \in [1..Len(amounts) -> Nat]
      BY <2>1, <2>3, <2>4
    <3> QED
      BY <2>1, <3>1, SeqDef, LenProperties
  <2>6. res' \in [Orders -> 0..Len(amounts)]
    <3>1. \A o \in Orders : OrderOf[o].side \in Sides /\ res[o] \in 0..Len(amounts)
      BY <2>1, OrderType DEF TypeOK, TypeRefs
    <3>2. res' = [o \in Orders |->
               IF \E s \in {"buy", "sell"} : o = Party(br.fill, s) /\ br.ref[s] # 0
                 THEN br.ref[OrderOf[o].side] ELSE res[o]]
      BY <1>8 DEF BridgeRestore
    <3> QED
      BY <2>2, <3>1, <3>2
  <2>7. TypeRefs'
    <3>1. /\ rel' = rel /\ rel \in [Threads -> ReleaseType \cup {NotReleasing}]
          /\ \A t \in Threads : rel[t].at = "unlock" => rel[t].ref \in 1..Len(amounts)
          /\ br.ref \in [Sides -> Nat]
      BY <1>8 DEF BridgeRestore, TypeOK, TypeRefs
    <3>2. res' \in [Orders -> Nat] /\ \A o \in Orders : res'[o] <= Len(amounts)
      BY <2>1, <2>6
    <3> QED
      BY <1>1, <1>3, <2>2, <2>5, <3>1, <3>2 DEF TypeRefs
  <2> QED
    BY <1>1, <1>3, <1>8, <2>7, TypeFrame DEF BridgeRestore, TypeOK
<1>9. CASE BridgeUnclaim
  BY <1>1, <1>3, <1>4, <1>9, TypeFrame DEF BridgeUnclaim, TypeOK
<1> QED
  BY <1>5, <1>6, <1>7, <1>8, <1>9

\* The bridge goes on to release what is left of a filled order.
LEMMA TypeBridgeReleases ==
  ASSUME TypeOK, UNCHANGED deployment, BridgeReleaseTaker \/ BridgeReleaseMaker
  PROVE  TypeOK'
<1>1. Orders' = Orders /\ Threads' = Threads /\ ReleaseType' = ReleaseType /\ FillType' = FillType
  BY TypeFrame
<1>2. br.fill \in FillType /\ br.at # "idle"
  BY DEF BridgeReleaseTaker, BridgeReleaseMaker, TypeOK, TypeBridge
<1>3. Releasing(br.fill.taker) \in ReleaseType /\ Releasing(br.fill.maker) \in ReleaseType
  BY <1>2 DEF FillType, ReleaseType, Releasing
<1>4. /\ TypeBridge'
      /\ br'.ref \in [Sides -> Nat] /\ \A s \in Sides : br'.ref[s] <= Len(amounts)
  <2>1. CASE BridgeReleaseTaker
    <3>1. br' = [br EXCEPT !.at = "maker"] /\ "maker" \in Steps
      BY <2>1 DEF BridgeReleaseTaker, Steps
    <3> QED
      BY <1>2, <3>1, BridgeGoesOn DEF TypeOK, TypeRefs
  <2>2. CASE BridgeReleaseMaker
    <3>1. br' = Idle
      BY <2>2 DEF BridgeReleaseMaker
    <3>2. Len(amounts) \in Nat
      BY DEF TypeOK, TypeRefs
    <3> QED
      BY <3>1, <3>2 DEF Idle, TypeBridge, Steps, Sides
  <2> QED
    BY <2>1, <2>2
<1>5. /\ Bridge \in Threads
      /\ \E r \in ReleaseType \cup {NotReleasing} :
           rel' = [rel EXCEPT ![Bridge] = r] /\ (r.at = "unlock" => r = rel[Bridge])
  BY <1>3 DEF BridgeReleaseTaker, BridgeReleaseMaker, Threads, Releasing, TypeOK, TypeRefs
<1>6. TypeRefs'
  <2>1. rel' \in [Threads -> ReleaseType \cup {NotReleasing}]
    BY <1>5 DEF TypeOK, TypeRefs
  <2>2. \A t \in Threads : rel'[t].at = "unlock" => rel'[t].ref \in 1..Len(amounts)
    BY <1>5 DEF TypeOK, TypeRefs
  <2>3. UNCHANGED <<amounts, res>>
    BY DEF BridgeReleaseTaker, BridgeReleaseMaker
  <2> QED
    BY <1>1, <1>4, <2>1, <2>2, <2>3 DEF TypeOK, TypeRefs
<1>7. TypeEngine' /\ TypeMoney'
  BY TypeFrame DEF BridgeReleaseTaker, BridgeReleaseMaker
<1> QED
  BY <1>1, <1>4, <1>6, <1>7 DEF BridgeReleaseTaker, BridgeReleaseMaker, TypeOK

\* A transfer leaves the wallet what is locked, or adds to it.
LEMMA TransferMoves ==
  ASSUME TypeOK, NEW u \in Users, NEW a \in Assets, Transfer(u, a)
  PROVE  \E d \in Int :
           /\ bal' = [bal EXCEPT ![u][a] = bal[u][a] + d]
           /\ funding' = [funding EXCEPT ![u][a] = funding[u][a] - d]
           /\ bal[u][a] + d >= locked[u][a] \/ d > 0
           /\ bal[u][a] \in Int /\ funding[u][a] \in Int
<1>1. bal[u][a] \in Int /\ funding[u][a] \in Int /\ locked[u][a] \in Int
  BY DEF TypeOK, TypeMoney
<1>2. CASE bal' = [bal EXCEPT ![u][a] = @ - Available(u, a)]
           /\ funding' = [funding EXCEPT ![u][a] = @ + Available(u, a)]
  <2> DEFINE d == 0 - Available(u, a)
  <2>1. d \in Int /\ Available(u, a) \in Int /\ bal[u][a] + d = locked[u][a]
    BY <1>1 DEF Available
  <2>2. bal[u][a] - Available(u, a) = bal[u][a] + d /\ funding[u][a] + Available(u, a) = funding[u][a] - d
    BY <1>1, <2>1
  <2>3. bal' = [bal EXCEPT ![u][a] = bal[u][a] - Available(u, a)]
        /\ funding' = [funding EXCEPT ![u][a] = funding[u][a] + Available(u, a)]
    BY <1>2 DEF TypeOK, TypeMoney
  <2> HIDE DEF d
  <2>4. /\ bal' = [bal EXCEPT ![u][a] = bal[u][a] + d]
        /\ funding' = [funding EXCEPT ![u][a] = funding[u][a] - d]
    BY <2>2, <2>3
  <2>5. bal[u][a] + d >= locked[u][a] \/ d > 0
    BY <1>1, <2>1
  <2> QED
    BY <1>1, <2>1, <2>4, <2>5
<1>3. CASE /\ funding[u][a] > 0
           /\ bal' = [bal EXCEPT ![u][a] = @ + funding[u][a]]
           /\ funding' = [funding EXCEPT ![u][a] = 0]
  <2> DEFINE d == funding[u][a]
  <2>1. d \in Int /\ d > 0 /\ funding[u][a] - d = 0
    BY <1>1, <1>3
  <2>2. bal' = [bal EXCEPT ![u][a] = bal[u][a] + d]
        /\ funding' = [funding EXCEPT ![u][a] = funding[u][a] - d]
    BY <1>3, <2>1 DEF TypeOK, TypeMoney
  <2> QED
    BY <1>1, <2>1, <2>2
<1> QED
  BY <1>2, <1>3 DEF Transfer

\* A transfer between accounts keeps the types.
LEMMA TypeTransfer ==
  ASSUME TypeOK, NEW u \in Users, NEW a \in Assets, Transfer(u, a), UNCHANGED deployment
  PROVE  TypeOK'
<1>1. bal' \in [Users -> [Assets -> Int]] /\ funding' \in [Users -> [Assets -> Int]]
  <2>1. PICK d \in Int : /\ bal' = [bal EXCEPT ![u][a] = bal[u][a] + d]
                         /\ funding' = [funding EXCEPT ![u][a] = funding[u][a] - d]
                         /\ bal[u][a] \in Int /\ funding[u][a] \in Int
    BY TransferMoves
  <2>2. bal[u][a] + d \in Int /\ funding[u][a] - d \in Int
    BY <2>1
  <2> QED
    BY <2>1, <2>2 DEF TypeOK, TypeMoney
<1>2. TypeMoney'
  BY <1>1, TypeFrame DEF Transfer, TypeOK, TypeMoney
<1>3. TypeRefs' /\ TypeBridge' /\ TypeEngine'
  BY TypeFrame DEF Transfer
<1> QED
  BY <1>2, <1>3, TypeFrame DEF Transfer, TypeOK

\* What a crash leaves, and what recovery emits again.
LEMMA TypeCrash ==
  ASSUME TypeOK, Crash, UNCHANGED deployment
  PROVE  TypeOK'
<1>1. Orders' = Orders /\ Threads' = Threads /\ ReleaseType' = ReleaseType /\ FillType' = FillType
  BY TypeFrame
<1>2. fills' \in Seq(FillType)
  <2>1. /\ emitted \in Seq(FillType) /\ Len(emitted) \in Nat /\ snapAt + 1 \in Nat \ {0}
        /\ << >> \in Seq(FillType)
    BY DEF TypeOK, TypeEngine
  <2>2. SubSeq(emitted, snapAt + 1, Len(emitted)) \in Seq(FillType)
    <3>1. \A i \in (snapAt + 1)..Len(emitted) : emitted[i] \in FillType
      BY <2>1
    <3>2. ASSUME NEW i \in (snapAt + 1)..Len(emitted)
          PROVE  i \in 1..Len(emitted)
      BY <2>1
    <3> QED
      BY <2>1, <3>2, SubSeqProperties
  <2>3. fills' = Emit(<< >>, SubSeq(emitted, snapAt + 1, Len(emitted)))
    BY DEF Crash
  <2> QED
    BY <2>1, <2>2, <2>3, EmitType
<1>3. TypeRefs'
  BY <1>1 DEF Crash, TypeRefs, Idle, NotReleasing, Sides
<1>4. TypeBridge'
  BY <1>1 DEF Crash, TypeBridge, Idle, Steps, Sides
<1>5. TypeEngine'
  BY <1>1, <1>2 DEF Crash, TypeOK, TypeEngine
<1>6. TypeMoney'
  BY TypeFrame DEF Crash
<1>7. at' \in [Orders' -> Places]
  BY <1>1 DEF Crash, TypeOK, Places
<1> QED
  BY <1>3, <1>4, <1>5, <1>6, <1>7 DEF Crash, TypeOK

\* Every step keeps the types.
LEMMA TypeNext == TypeOK /\ [Next]_vars => TypeOK'
<1> SUFFICES ASSUME TypeOK, [Next]_vars PROVE TypeOK'
  OBVIOUS
<1>1. CASE UNCHANGED vars
  BY <1>1, TypeFrame DEF vars, TypeOK
<1>2. CASE Next
  <2>1. UNCHANGED deployment /\ Bridge \in Threads /\ Orders \subseteq Threads
    BY <1>2 DEF Next, Threads
  <2>2. CASE \E o \in Orders : Reserve(o) \/ Track(o) \/ Submit(o) \/ Refuse(o) \/ Cancel(o) \/ Release(o)
    BY <2>1, <2>2, TypeOrders, TypeMatching, TypeRelease
  <2>3. CASE EngineStep \/ Snapshot
    BY <2>1, <2>3, TypeMatching
  <2>4. CASE BridgeStep
    BY <2>1, <2>4, TypeBridgeTake, TypeBridgeLoad, TypeBridgeDebit, TypeBridgeOn,
       TypeBridgeReleases, TypeRelease DEF BridgeStep
  <2>5. CASE Crash
    BY <2>1, <2>5, TypeCrash
  <2>6. CASE \E u \in Users, a \in Assets : Transfer(u, a)
    BY <2>1, <2>6, TypeTransfer
  <2> QED
    BY <1>2, <2>2, <2>3, <2>4, <2>5, <2>6 DEF Next
<1> QED
  BY <1>1, <1>2
-----------------------------------------------------------------------------
(***************************************************************************)
(* Nobody owes.                                                            *)
(***************************************************************************)
\* The wallets change only when an order is reserved or released, a fill is
\* settled, or a user transfers.
LEMMA MoneyMoves ==
  ASSUME TypeOK, [Next]_vars
  PROVE  \/ UNCHANGED <<bal, locked, funding, settled>>
         \/ \E o \in Orders : Reserve(o)
         \/ \E t \in Threads : ReleaseUnlock(t)
         \/ BridgeSettle
         \/ \E u \in Users, a \in Assets : Transfer(u, a)
<1>1. CASE UNCHANGED vars
  BY <1>1 DEF vars
<1>2. CASE Next
  <2>1. Bridge \in Threads /\ Orders \subseteq Threads
    BY DEF Threads
  <2>2. \A t \in Threads : Release(t) => ReleaseUnlock(t) \/ UNCHANGED <<bal, locked, funding, settled>>
    BY DEF Release, ReleaseTake, ReleaseDelete
  <2>3. CASE \E o \in Orders : Reserve(o) \/ Track(o) \/ Submit(o) \/ Refuse(o) \/ Cancel(o) \/ Release(o)
    BY <2>1, <2>2, <2>3 DEF Track, Submit, Refuse, Cancel
  <2>4. CASE EngineStep \/ Snapshot \/ Crash
    BY <2>4 DEF EngineStep, Take, Trade, Finish, Snapshot, Crash
  <2>5. CASE BridgeStep
    BY <2>1, <2>2, <2>5 DEF BridgeStep, BridgeTake, BridgeTakeUnsure, BridgeLoad, BridgeDebit,
       BridgeSync, BridgeSettleFails, BridgeRestore, BridgeUnclaim, BridgeReleaseTaker, BridgeReleaseMaker
  <2> QED
    BY <1>2, <2>3, <2>4, <2>5 DEF Next
<1> QED
  BY <1>1, <1>2

\* What is locked after a settlement.
LEMMA LockedMoves ==
  ASSUME TypeOK, br.at = "settle"
  PROVE  LET b  == UserOf(Buyer(br.fill))
             s  == UserOf(Seller(br.fill))
             lk == Unlocked(locked, b, "quote", br.unlock["buy"])
         IN  /\ lk \in [Users -> [Assets -> Nat]]
             /\ LockedAfter(br.fill, br.unlock) \in [Users -> [Assets -> Nat]]
             /\ \A u \in Users :
                  /\ LockedAfter(br.fill, br.unlock)[u]["quote"] = lk[u]["quote"]
                  /\ LockedAfter(br.fill, br.unlock)[u]["base"] <= locked[u]["base"]
                  /\ lk[u]["quote"] <= locked[u]["quote"]
<1> DEFINE b == UserOf(Buyer(br.fill))
           s == UserOf(Seller(br.fill))
           lk == Unlocked(locked, b, "quote", br.unlock["buy"])
           lk2 == Unlocked(lk, s, "base", br.unlock["sell"])
<1>1. br.fill \in FillType
  BY DEF TypeOK, TypeBridge
<1>2. /\ b \in Users /\ s \in Users /\ br.unlock["buy"] \in Nat /\ br.unlock["sell"] \in Nat
      /\ "quote" \in Assets /\ "base" \in Assets /\ "base" # "quote"
      /\ locked \in [Users -> [Assets -> Nat]]
  BY <1>1, FillMoves DEF TypeOK, TypeBridge, TypeMoney, Sides, Assets
<1>3. LockedAfter(br.fill, br.unlock) = lk2
  BY DEF LockedAfter
<1> HIDE DEF b, s
<1>4. /\ lk \in [Users -> [Assets -> Nat]]
      /\ \A u \in Users : lk[u]["quote"] <= locked[u]["quote"] /\ lk[u]["base"] = locked[u]["base"]
  <2>1. PICK n \in Nat, c \in Assets : c = "quote" /\ lk = Unlocked(locked, b, c, n)
    BY <1>2
  <2> HIDE DEF lk
  <2>2. /\ lk = Unlocked(locked, b, c, n) /\ b \in Users
        /\ locked \in [Users -> [Assets -> Nat]]
    BY <1>2, <2>1
  <2>3. /\ Unlocked(locked, b, c, n) \in [Users -> [Assets -> Nat]]
        /\ \A v \in Users, a \in Assets :
             /\ Unlocked(locked, b, c, n)[v][a] <= locked[v][a]
             /\ a # c => Unlocked(locked, b, c, n)[v][a] = locked[v][a]
    BY <2>2, UnlockedType, ZenonT(30)
  <2> QED
    BY <1>2, <2>1, <2>3
<1> HIDE DEF lk
<1>5. /\ lk2 \in [Users -> [Assets -> Nat]]
      /\ \A u \in Users : lk2[u]["base"] <= lk[u]["base"] /\ lk2[u]["quote"] = lk[u]["quote"]
  <2>1. PICK n \in Nat, c \in Assets : c = "base" /\ lk2 = Unlocked(lk, s, c, n)
    BY <1>2
  <2> HIDE DEF lk2
  <2>2. /\ lk2 = Unlocked(lk, s, c, n) /\ s \in Users
        /\ lk \in [Users -> [Assets -> Nat]]
    BY <1>4, <1>2, <2>1
  <2>3. /\ Unlocked(lk, s, c, n) \in [Users -> [Assets -> Nat]]
        /\ \A v \in Users, a \in Assets :
             /\ Unlocked(lk, s, c, n)[v][a] <= lk[v][a]
             /\ a # c => Unlocked(lk, s, c, n)[v][a] = lk[v][a]
    BY <2>2, UnlockedType, ZenonT(30)
  <2> QED
    BY <1>2, <2>1, <2>3
<1> QED
  BY <1>3, <1>4, <1>5 DEF lk, b, s

\* No step makes a balance negative: every statement that takes money asks for it.
LEMMA SolventNext == TypeOK /\ Solvent /\ [Next]_vars => Solvent'
<1> SUFFICES ASSUME TypeOK, Solvent, [Next]_vars PROVE Solvent'
  OBVIOUS
<1>1. \A u \in Users, a \in Assets : bal[u][a] \in Int /\ locked[u][a] \in Nat /\ locked[u][a] <= bal[u][a]
  BY DEF TypeOK, TypeMoney, Solvent
<1>2. CASE UNCHANGED <<bal, locked, funding, settled>>
  BY <1>2 DEF Solvent
<1>3. ASSUME NEW o \in Orders, Reserve(o)
      PROVE  Solvent'
  <2>1. PICK u \in Users, a \in Assets, n \in Nat :
          /\ bal[u][a] - locked[u][a] >= n
          /\ locked' = [locked EXCEPT ![u][a] = @ + n] /\ bal' = bal
    BY <1>3, OrderType DEF Reserve, Available
  <2>2. \A v \in Users, b \in Assets :
          locked'[v][b] = IF v = u /\ b = a THEN locked[u][a] + n ELSE locked[v][b]
    BY <2>1 DEF TypeOK, TypeMoney
  <2> QED
    BY <1>1, <2>1, <2>2 DEF Solvent
<1>4. ASSUME NEW t \in Threads, ReleaseUnlock(t)
      PROVE  Solvent'
  <2>1. rel[t].order \in Orders
    BY <1>4 DEF ReleaseUnlock, TypeOK, TypeRefs, NotReleasing, ReleaseType
  <2>2. /\ amounts[rel[t].ref] \in Nat /\ UserOf(rel[t].order) \in Users
        /\ ReservedAsset(rel[t].order) \in Assets
    <3>1. amounts[rel[t].ref] \in Nat
      BY <1>4 DEF ReleaseUnlock, TypeOK, TypeRefs
    <3> QED
      BY <2>1, <3>1, OrderType
  <2>3. PICK u \in Users, a \in Assets, n \in Nat : locked' \in {locked, Unlocked(locked, u, a, n)}
    BY <1>4, <2>2 DEF ReleaseUnlock
  <2>4. locked \in [Users -> [Assets -> Nat]]
    BY DEF TypeOK, TypeMoney
  <2>5. /\ Unlocked(locked, u, a, n) \in [Users -> [Assets -> Nat]]
        /\ \A v \in Users, b \in Assets : Unlocked(locked, u, a, n)[v][b] <= locked[v][b]
    BY <2>4, UnlockedType
  <2>6. \A v \in Users, b \in Assets : locked'[v][b] \in Nat /\ locked'[v][b] <= locked[v][b]
    BY <1>1, <2>3, <2>5
  <2>7. bal' = bal
    BY <1>4 DEF ReleaseUnlock
  <2> QED
    BY <1>1, <2>6, <2>7 DEF Solvent
<1>5. CASE BridgeSettle
  <2> DEFINE b == UserOf(Buyer(br.fill))
             s == UserOf(Seller(br.fill))
             lk == Unlocked(locked, b, "quote", br.unlock["buy"])
             q == br.fill.qty
             c == Cost(br.fill)
             g == Proceeds(br.fill)
             after == BalanceAfter(br.fill)
             kept == LockedAfter(br.fill, br.unlock)
  <2>1. br.fill \in FillType /\ br.at = "settle" /\ bal' = after /\ locked' = kept
    BY <1>5 DEF BridgeSettle, TypeOK, TypeBridge
  <2>2. b \in Users /\ s \in Users /\ q \in Nat /\ c \in Nat /\ g \in Nat
    BY <2>1, FillMoves
  <2>3. /\ lk \in [Users -> [Assets -> Nat]] /\ kept \in [Users -> [Assets -> Nat]]
        /\ \A u \in Users :
             /\ kept[u]["quote"] = lk[u]["quote"] /\ kept[u]["base"] <= locked[u]["base"]
             /\ lk[u]["quote"] <= locked[u]["quote"]
    BY <2>1, LockedMoves
  <2>4. /\ bal[b]["quote"] - lk[b]["quote"] >= c
        /\ bal[s]["base"] + (IF b = s THEN q ELSE 0) - kept[s]["base"] >= q
    BY <1>5 DEF BridgeSettle, Funded
  <2>5. \A u \in Users :
          /\ after[u]["quote"] = bal[u]["quote"] + (IF u = b THEN 0 - c ELSE 0) + (IF u = s THEN g ELSE 0)
          /\ after[u]["base"] = bal[u]["base"] + (IF u = b THEN q ELSE 0) + (IF u = s THEN 0 - q ELSE 0)
    BY <2>1, BalanceMoves
  <2> HIDE DEF b, s, lk, q, c, g, after, kept
  <2>6. \A u \in Users : kept[u]["quote"] \in Nat /\ kept[u]["base"] \in Nat /\ lk[u]["quote"] \in Nat
    BY <2>3 DEF Assets
  <2>7. \A u \in Users : /\ bal[u]["quote"] \in Int /\ locked[u]["quote"] \in Nat
                         /\ locked[u]["quote"] <= bal[u]["quote"]
                         /\ bal[u]["base"] \in Int /\ locked[u]["base"] \in Nat
                         /\ locked[u]["base"] <= bal[u]["base"]
    BY <1>1 DEF Assets
  <2>8. \A u \in Users : kept[u]["quote"] <= after[u]["quote"]
    BY <2>2, <2>3, <2>4, <2>5, <2>6, <2>7
  <2>9. \A u \in Users : kept[u]["base"] <= after[u]["base"]
    BY <2>2, <2>3, <2>4, <2>5, <2>6, <2>7
  <2> QED
    BY <2>1, <2>6, <2>8, <2>9 DEF Solvent, Assets
<1>6. ASSUME NEW u \in Users, NEW a \in Assets, Transfer(u, a)
      PROVE  Solvent'
  <2>1. PICK d \in Int : /\ bal' = [bal EXCEPT ![u][a] = bal[u][a] + d]
                         /\ bal[u][a] + d >= locked[u][a] \/ d > 0
    BY <1>6, TransferMoves
  <2>2. \A v \in Users, b \in Assets :
          bal'[v][b] = IF v = u /\ b = a THEN bal[u][a] + d ELSE bal[v][b]
    BY <2>1 DEF TypeOK, TypeMoney
  <2>3. locked' = locked
    BY <1>6 DEF Transfer
  <2> QED
    BY <1>1, <2>1, <2>2, <2>3 DEF Solvent
<1> QED
  BY <1>2, <1>3, <1>4, <1>5, <1>6, MoneyMoves
-----------------------------------------------------------------------------
(***************************************************************************)
(* Trading makes no money.                                                 *)
(***************************************************************************)
PaidFees == SumOver(Paid, DOMAIN settled)

\* The property, with the sums of SumTheorems.
Conserved ==
  /\ SumOver(Wealth("base"), Users) = SumOver(Started("base"), Users)
  /\ SumOver(Wealth("quote"), Users) + PaidFees = SumOver(Started("quote"), Users)

\* What is conserved, one value per user and per fill, in the words of the model.
LEMMA ConservedFunds == Conserved => FundsConserved
<1>1. \A a : /\ Total(a) = SumOver(Wealth(a), Users)
            /\ Initial(a) = SumOver(Started(a), Users)
  BY DEF Total, Initial, SumOver
<1>2. PaidFees = MapThenSumSet(LAMBDA i : Paid[i], DOMAIN settled)
  BY DEF PaidFees, SumOver
<1> QED
  BY <1>1, <1>2 DEF FundsConserved, Conserved

\* They are of integers, over finite sets.
LEMMA SumsFinite ==
  ASSUME TypeOK
  PROVE  /\ IsFiniteSet(Users) /\ IsFiniteSet(DOMAIN settled)
         /\ \A a \in Assets : IntOn(Wealth(a), Users) /\ SumOver(Wealth(a), Users) \in Int
         /\ IntOn(Paid, DOMAIN settled) /\ PaidFees \in Int
<1>1. IsFiniteSet(Users)
  BY UsersAssumption
<1>2. settled \in Seq(FillType) /\ Len(settled) \in Nat /\ DOMAIN settled = 1..Len(settled)
  BY DEF TypeOK, TypeMoney
<1>3. IsFiniteSet(DOMAIN settled)
  BY <1>2, FS_Interval
<1>4. \A a \in Assets : IntOn(Wealth(a), Users)
  BY DEF TypeOK, TypeMoney, IntOn, Wealth
<1>5. IntOn(Paid, DOMAIN settled)
  <2>1. \A i \in DOMAIN settled : settled[i] \in FillType
    BY <1>2
  <2> QED
    BY <2>1, FillMoves DEF IntOn, Paid
<1> QED
  BY <1>1, <1>3, <1>4, <1>5, SumType DEF PaidFees

\* At the start everybody has what they began with.
LEMMA ConservedInit == Init => Conserved
<1> SUFFICES ASSUME Init PROVE Conserved
  OBVIOUS
<1>1. \A a \in Assets, u \in Users : Wealth(a)[u] = Started(a)[u]
  <2>1. \A a \in Assets, u \in Users : bal[u][a] \in Int /\ bal[u][a] = Funds[u][a] /\ funding[u][a] = 0
    BY FundsAssumption DEF Init
  <2> QED
    BY <2>1 DEF Wealth, Started
<1>2. ASSUME NEW a \in Assets
      PROVE  SumOver(Wealth(a), Users) = SumOver(Started(a), Users)
  BY <1>1, SumEqual, UsersAssumption
<1>3. PaidFees = 0
  <2>1. DOMAIN settled = {}
    BY DEF Init
  <2> QED
    BY <2>1, SumEmpty DEF PaidFees
<1>4. SumOver(Wealth("quote"), Users) \in Int
  BY TypeInit, SumsFinite DEF Assets
<1>5. SumOver(Wealth("quote"), Users) + 0 = SumOver(Wealth("quote"), Users)
  BY <1>4
<1> QED
  BY <1>2, <1>3, <1>5 DEF Conserved, Assets

\* A fill costs what its orders say, which do not change.
LEMMA FeesFrame ==
  ASSUME UNCHANGED deployment
  PROVE  \A f : Fees(f)' = Fees(f) /\ FillId(f)' = FillId(f)
<1>1. OrderOf' = OrderOf
  BY DEF OrderOf
<1> QED
  BY <1>1 DEF Fees, Cost, Proceeds, Value, Notional, Rate, Buyer, Seller, IsBuy, FillId

\* No step makes or loses money: what one wallet gives, another or the fees get.
LEMMA ConservedNext == TypeOK /\ Conserved /\ [Next]_vars => Conserved'
<1> SUFFICES ASSUME TypeOK, Conserved, [Next]_vars PROVE Conserved'
  OBVIOUS
<1>1. TypeOK' /\ UNCHANGED deployment
  BY TypeNext DEF Next, vars
<1>2. \A a \in Assets : Started(a)' = Started(a)
  BY DEF Started
<1>3. /\ SumOver(Wealth("base"), Users) = SumOver(Started("base"), Users)
      /\ SumOver(Wealth("quote"), Users) + PaidFees = SumOver(Started("quote"), Users)
  BY DEF Conserved
<1>4. ASSUME SumOver(Wealth("base")', Users) = SumOver(Wealth("base"), Users),
             SumOver(Wealth("quote")', Users) + PaidFees' = SumOver(Wealth("quote"), Users) + PaidFees
      PROVE  Conserved'
  BY <1>2, <1>3, <1>4 DEF Conserved, Assets
<1>6. settled' = settled => PaidFees' = PaidFees
  <2> SUFFICES ASSUME settled' = settled PROVE PaidFees' = PaidFees
    OBVIOUS
  <2>1. Paid' = Paid
    BY <1>1, FeesFrame DEF Paid
  <2> QED
    BY <2>1 DEF PaidFees
<1>7. ASSUME \A a \in Assets, u \in Users : (Wealth(a)')[u] = Wealth(a)[u], settled' = settled
      PROVE  Conserved'
  <2>1. ASSUME NEW a \in Assets
        PROVE  SumOver(Wealth(a)', Users) = SumOver(Wealth(a), Users)
    BY <1>7, SumEqual, UsersAssumption
  <2> QED
    BY <1>4, <1>6, <1>7, <2>1 DEF Assets
<1>8. CASE UNCHANGED <<bal, locked, funding, settled>>
  BY <1>7, <1>8 DEF Wealth
<1>9. ASSUME NEW o \in Orders, Reserve(o)
      PROVE  Conserved'
  BY <1>7, <1>9 DEF Reserve, Wealth
<1>10. ASSUME NEW t \in Threads, ReleaseUnlock(t)
       PROVE  Conserved'
  BY <1>7, <1>10 DEF ReleaseUnlock, Wealth
<1>11. ASSUME NEW u \in Users, NEW a \in Assets, Transfer(u, a)
       PROVE  Conserved'
  <2>1. PICK d \in Int : /\ bal' = [bal EXCEPT ![u][a] = bal[u][a] + d]
                         /\ funding' = [funding EXCEPT ![u][a] = funding[u][a] - d]
    BY <1>11, TransferMoves
  <2>2. \A v \in Users, b \in Assets : bal[v][b] \in Int /\ funding[v][b] \in Int
    BY DEF TypeOK, TypeMoney
  <2>3. \A v \in Users, b \in Assets :
          /\ bal'[v][b] = IF v = u /\ b = a THEN bal[u][a] + d ELSE bal[v][b]
          /\ funding'[v][b] = IF v = u /\ b = a THEN funding[u][a] - d ELSE funding[v][b]
    BY <2>1 DEF TypeOK, TypeMoney
  <2>4. \A v \in Users, b \in Assets : bal'[v][b] + funding'[v][b] = bal[v][b] + funding[v][b]
    BY <2>2, <2>3
  <2>5. settled' = settled
    BY <1>11 DEF Transfer
  <2>6. \A b \in Assets, v \in Users : (Wealth(b)')[v] = Wealth(b)[v]
    BY <2>4 DEF Wealth
  <2> QED
    BY <1>7, <2>5, <2>6
<1>12. CASE BridgeSettle
  <2>1. PICK f \in FillType : f = br.fill
    BY <1>12 DEF BridgeSettle, TypeOK, TypeBridge
  <2>2. PICK b \in Users, s \in Users, q \in Nat, c \in Nat, g \in Nat :
          b = UserOf(Buyer(f)) /\ s = UserOf(Seller(f)) /\ q = f.qty /\ c = Cost(f) /\ g = Proceeds(f)
    BY FillMoves
  <2>3. bal' = BalanceAfter(f) /\ funding' = funding /\ settled' = Append(settled, f)
    BY <1>12, <2>1 DEF BridgeSettle
  <2>4. \A u \in Users :
          /\ bal'[u]["quote"] = bal[u]["quote"] + (IF u = b THEN 0 - c ELSE 0) + (IF u = s THEN g ELSE 0)
          /\ bal'[u]["base"] = bal[u]["base"] + (IF u = b THEN q ELSE 0) + (IF u = s THEN 0 - q ELSE 0)
    BY <2>2, <2>3, BalanceMoves
  <2>5. \A u \in Users : /\ bal[u]["quote"] \in Int /\ bal[u]["base"] \in Int
                         /\ funding[u]["quote"] \in Int /\ funding[u]["base"] \in Int
    <3>1. \A u \in Users, a \in Assets : bal[u][a] \in Int /\ funding[u][a] \in Int
      BY DEF TypeOK, TypeMoney
    <3> QED
      BY <3>1 DEF Assets
  <2>6. SumOver(Wealth("base")', Users) = SumOver(Wealth("base"), Users)
    <3>1. PICK v, w : v = Wealth("base") /\ w = Wealth("base")'
      OBVIOUS
    <3>2. \A u \in Users : /\ v[u] \in Int
                           /\ w[u] = v[u] + (IF u = b THEN q ELSE 0) + (IF u = s THEN 0 - q ELSE 0)
      BY <2>3, <2>4, <2>5, <3>1, SMTT(30) DEF Wealth
    <3>3. IntOn(v, Users) /\ q \in Int /\ 0 - q \in Int
      BY <3>2 DEF IntOn
    <3>4. SumOver(w, Users) = SumOver(v, Users) + q + (0 - q)
      <4>1. PICK e \in Int : e = 0 - q
        BY <3>3
      <4>2. \A u \in Users : w[u] = v[u] + (IF u = b THEN q ELSE 0) + (IF u = s THEN e ELSE 0)
        BY <3>2, <4>1
      <4>3. SumOver(w, Users) = SumOver(v, Users) + q + e
        BY <3>3, <4>2, SumMoves, UsersAssumption
      <4> QED
        BY <4>1, <4>3
    <3>5. SumOver(v, Users) \in Int
      BY <3>3, SumType, UsersAssumption
    <3> QED
      BY <3>1, <3>3, <3>4, <3>5
  <2>7. SumOver(Wealth("quote")', Users) = SumOver(Wealth("quote"), Users) + (0 - c) + g
    <3>1. PICK v, w : v = Wealth("quote") /\ w = Wealth("quote")'
      OBVIOUS
    <3>2. \A u \in Users : /\ v[u] \in Int
                           /\ w[u] = v[u] + (IF u = b THEN 0 - c ELSE 0) + (IF u = s THEN g ELSE 0)
      <4>1. \A u \in Users : /\ v[u] = bal[u]["quote"] + funding[u]["quote"]
                             /\ w[u] = bal'[u]["quote"] + funding[u]["quote"]
        BY <2>3, <3>1 DEF Wealth
      <4> QED
        BY <2>4, <2>5, <4>1
    <3>3. IntOn(v, Users) /\ g \in Int /\ 0 - c \in Int
      BY <3>2 DEF IntOn
    <3>4. SumOver(w, Users) = SumOver(v, Users) + (0 - c) + g
      <4>1. PICK e \in Int : e = 0 - c
        BY <3>3
      <4>2. \A u \in Users : w[u] = v[u] + (IF u = b THEN e ELSE 0) + (IF u = s THEN g ELSE 0)
        BY <3>2, <4>1
      <4>3. SumOver(w, Users) = SumOver(v, Users) + e + g
        BY <3>3, <4>2, SumMoves, UsersAssumption
      <4> QED
        BY <4>1, <4>3
    <3> QED
      BY <3>1, <3>4
  <2>8. PaidFees' = PaidFees + (c - g)
    <3>1. PICK v, w : v = Paid /\ w = Paid'
      OBVIOUS
    <3>2. PICK n \in Nat : n = Len(settled)
      BY DEF TypeOK, TypeMoney
    <3>3. /\ settled \in Seq(FillType) /\ DOMAIN settled = 1..n
          /\ Len(settled') = n + 1 /\ DOMAIN settled' = 1..(n + 1)
          /\ settled'[n + 1] = f /\ \A i \in 1..n : settled'[i] = settled[i]
      BY <2>3, <3>2 DEF TypeOK, TypeMoney
    <3>4. 1..(n + 1) = (1..n) \cup {n + 1} /\ n + 1 \notin 1..n
      OBVIOUS
    <3>5. Fees(f) = c - g
      BY <2>2 DEF Fees
    <3>6. /\ \A i \in 1..n : w[i] = v[i]
          /\ w[n + 1] = c - g
      BY <1>1, <3>1, <3>3, <3>4, <3>5, FeesFrame DEF Paid
    <3>7. /\ IntOn(v, 1..n) /\ IsFiniteSet(1..n)
          /\ SumOver(v, 1..n) = PaidFees /\ PaidFees \in Int
      BY <3>1, <3>3, SumsFinite DEF PaidFees
    <3>8. IntOn(w, (1..n) \cup {n + 1})
      BY <3>6, <3>7 DEF IntOn
    <3>9. SumOver(w, (1..n) \cup {n + 1}) = SumOver(w, 1..n) + w[n + 1]
      <4>1. PICK S, x : S = 1..n /\ x = n + 1
        OBVIOUS
      <4>2. IsFiniteSet(S) /\ x \notin S /\ IntOn(w, S \cup {x})
        BY <3>4, <3>7, <3>8, <4>1
      <4>3. SumOver(w, S \cup {x}) = SumOver(w, S) + w[x]
        BY <4>2, SumAdd
      <4> QED
        BY <4>1, <4>3
    <3>10. SumOver(w, 1..n) = SumOver(v, 1..n)
      BY <3>6, <3>7, SumEqual
    <3>11. PaidFees' = SumOver(w, 1..(n + 1))
      BY <3>1, <3>3 DEF PaidFees
    <3> QED
      BY <3>4, <3>6, <3>7, <3>9, <3>10, <3>11
  <2>9. SumOver(Wealth("quote"), Users) \in Int /\ PaidFees \in Int
    BY SumsFinite DEF Assets
  <2>10. SumOver(Wealth("quote")', Users) + PaidFees' = SumOver(Wealth("quote"), Users) + PaidFees
    BY <2>7, <2>8, <2>9
  <2> QED
    BY <1>4, <2>6, <2>10
<1> QED
  BY <1>8, <1>9, <1>10, <1>11, <1>12, MoneyMoves
-----------------------------------------------------------------------------
(***************************************************************************)
(* No fill is settled twice of whose claim and settlement the bridge was   *)
(* told.  A process that has not crashed knows what it settled, and does   *)
(* not start on a fill it knows; a shared store has a claim on all that    *)
(* was settled, and a claim is given up only for a fill that was not.      *)
(***************************************************************************)
Settling == {"load", "debit", "sync", "settle"}
Claiming == Settling \cup {"restore", "resync", "unclaim"}

SettledIds == {FillId(settled[i]) : i \in DOMAIN settled}

Remembered ==
  /\ crashes = 0 =>
       /\ SettledIds \subseteq processed \cup unsure
       /\ br.at \in Settling => FillId(br.fill) \notin processed
  /\ SharedStore =>
       /\ SettledIds \subseteq claims \cup unsure
       /\ br.at \in Claiming => FillId(br.fill) \in (claims \ SettledIds) \cup unsure
  /\ SettledAtMostOnce

\* What a step leaves alone stays remembered.
LEMMA RememberedFrame ==
  ASSUME TypeOK, Remembered, UNCHANGED <<deployment, settled, processed, claims, unsure>>, crashes' \in Nat,
         crashes <= crashes', br'.at \in Claiming => br.at \in Claiming /\ br'.fill = br.fill,
         br'.at \in Settling => br.at \in Settling
  PROVE  Remembered'
<1>1. SettledIds' = SettledIds /\ SharedStore' = SharedStore /\ FillId(br.fill)' = FillId(br'.fill)
  BY DEF SettledIds, SharedStore, FillId
<1>2. crashes \in Nat /\ (crashes' = 0 => crashes = 0) /\ Settling \subseteq Claiming
  BY DEF TypeOK, Claiming
<1>3. SettledAtMostOnce => SettledAtMostOnce'
  BY <1>1, <1>2 DEF SettledAtMostOnce, FillId
<1> QED
  BY <1>1, <1>2, <1>3 DEF Remembered

\* A fill the bridge works on stays the same, and becomes one to settle or to
\* give up only from one that was.
LEMMA BridgeSteps ==
  ASSUME TypeOK, UNCHANGED deployment,
         BridgeLoad \/ BridgeDebit \/ BridgeSync \/ BridgeSettleFails \/ BridgeRestore \/ BridgeReleaseTaker
  PROVE  /\ br'.fill = br.fill /\ UNCHANGED <<settled, processed, claims, unsure, crashes>>
         /\ br'.at \in Claiming => br.at \in Claiming
         /\ br'.at \in Settling => br.at \in Settling
<1>1. br = [at |-> br.at, fill |-> br.fill, ref |-> br.ref, unlock |-> br.unlock, loaded |-> br.loaded,
              claimed |-> br.claimed]
  BY DEF TypeOK, TypeBridge
<1>2. UNCHANGED <<settled, processed, claims, unsure, crashes>>
  BY DEF BridgeLoad, BridgeDebit, BridgeSync, BridgeSettleFails, BridgeRestore, BridgeReleaseTaker
<1>3. CASE BridgeLoad
  <2>1. \E ld : br' = [br EXCEPT !.at = "debit", !.loaded = ld] /\ br.at = "load"
    BY <1>3 DEF BridgeLoad
  <2> QED
    BY <1>1, <1>2, <2>1 DEF Claiming, Settling
<1>4. CASE BridgeDebit
  <2>1. \E x, ref, part : br' = [br EXCEPT !.at = x, !.ref = ref, !.unlock = part] /\ br.at = "debit"
    BY <1>4 DEF BridgeDebit
  <2> QED
    BY <1>1, <1>2, <2>1 DEF Claiming, Settling
<1>5. CASE BridgeSync \/ BridgeSettleFails \/ BridgeRestore \/ BridgeReleaseTaker
  <2>1. PICK x \in Steps :
          /\ br' = [br EXCEPT !.at = x] /\ br.at # "idle"
          /\ x \in Claiming => br.at \in Claiming
          /\ x \in Settling => br.at \in Settling
    BY <1>5 DEF BridgeSync, BridgeSettleFails, BridgeRestore, BridgeReleaseTaker, Steps, Claiming, Settling
  <2> QED
    BY <1>2, <2>1, BridgeGoesOn
<1> QED
  BY <1>3, <1>4, <1>5

\* No step settles a fill that the ledger does not show, or changes one it shows.
LEMMA RememberedNext == TypeOK /\ Remembered /\ [Next]_vars => Remembered'
<1> SUFFICES ASSUME TypeOK, Remembered, [Next]_vars PROVE Remembered'
  OBVIOUS
<1>1. TypeOK' /\ UNCHANGED deployment /\ SharedStore' = SharedStore
  BY TypeNext DEF Next, vars, SharedStore
<1>2. crashes \in Nat
  BY DEF TypeOK
<1>3. CASE UNCHANGED <<settled, processed, claims, unsure, crashes, br>>
  BY <1>1, <1>2, <1>3, RememberedFrame
<1>11. ASSUME settled' = settled, unsure \subseteq unsure', crashes' = 0 => crashes = 0
      PROVE  SettledIds' = SettledIds /\ (SettledAtMostOnce => SettledAtMostOnce')
  BY <1>1, <1>11 DEF SettledIds, SettledAtMostOnce, FillId
<1>4. CASE BridgeTake
  <2>1. PICK id : id = FillId(Head(fills))
    OBVIOUS
  <2>2. /\ br'.fill = Head(fills)
        /\ br'.at = (IF id \in processed \/ (SharedStore /\ id \in claims) THEN "taker" ELSE ToSettle)
        /\ processed' = IF id \notin processed /\ SharedStore /\ id \in claims THEN processed \cup {id}
                        ELSE processed
        /\ claims' = IF SharedStore /\ id \notin processed THEN claims \cup {id} ELSE claims
        /\ UNCHANGED <<settled, unsure, crashes>>
    BY <1>4, <2>1 DEF BridgeTake, Idle
  <2>3. FillId(br.fill)' = id
    BY <2>1, <2>2 DEF FillId
  <2>4. SettledIds' = SettledIds /\ SettledAtMostOnce'
    BY <1>11, <2>2 DEF Remembered
  <2>5. br'.at \in Claiming => id \notin processed /\ ~(SharedStore /\ id \in claims)
    BY <2>2 DEF Claiming, Settling
  <2> QED
    BY <1>1, <2>2, <2>3, <2>4, <2>5 DEF Remembered, Claiming
<1>12. CASE BridgeTakeUnsure
  <2>1. PICK id : id = FillId(Head(fills))
    OBVIOUS
  <2>2. /\ br'.fill = Head(fills) /\ br'.at \in {"load", "taker"} /\ id \notin processed
        /\ processed \subseteq processed' /\ (br'.at = "load" => processed' = processed)
        /\ claims \subseteq claims' /\ unsure' = unsure \cup {id}
        /\ UNCHANGED <<settled, crashes>>
    BY <1>12, <2>1 DEF BridgeTakeUnsure, Idle
  <2>3. FillId(br.fill)' = id
    BY <2>1, <2>2 DEF FillId
  <2>4. SettledIds' = SettledIds /\ SettledAtMostOnce'
    BY <1>11, <2>2 DEF Remembered
  <2> QED
    BY <1>1, <2>2, <2>3, <2>4 DEF Remembered, Claiming, Settling
<1>5. CASE BridgeSettle
  <2>1. PICK f : f = br.fill
    OBVIOUS
  <2>2. /\ br.at = "settle" /\ br'.fill = f /\ br'.at \in {"taker", "restore"}
        /\ settled' = Append(settled, f) /\ UNCHANGED <<claims, crashes>>
        /\ \/ processed' = processed \cup {FillId(f)} /\ unsure' = unsure /\ br'.at = "taker"
           \/ processed' = processed /\ unsure' = unsure \cup {FillId(f)}
    BY <1>5, <2>1 DEF BridgeSettle, TypeOK, TypeBridge
  <2>3. PICK n \in Nat : n = Len(settled)
    BY DEF TypeOK, TypeMoney
  <2>4. /\ DOMAIN settled = 1..n /\ DOMAIN settled' = 1..(n + 1)
        /\ settled'[n + 1] = f /\ \A i \in 1..n : settled'[i] = settled[i]
    BY <2>2, <2>3 DEF TypeOK, TypeMoney
  <2>5. SettledIds' = SettledIds \cup {FillId(f)} /\ FillId(br.fill)' = FillId(f)
    BY <2>2, <2>4 DEF SettledIds, FillId
  <2>6. ASSUME crashes = 0 \/ SharedStore
        PROVE  FillId(f) \notin SettledIds \/ FillId(f) \in unsure
    BY <2>1, <2>2, <2>6 DEF Remembered, Settling, Claiming
  <2>7. SettledAtMostOnce'
    <3> SUFFICES ASSUME crashes' = 0 \/ SharedStore'
                 PROVE  \A i, j \in 1..(n + 1) : FillId(settled'[i]) = FillId(settled'[j]) =>
                          i = j \/ FillId(settled'[i]) \in unsure'
      BY <2>4 DEF SettledAtMostOnce, FillId
    <3>0. crashes = 0 \/ SharedStore
      BY <1>1, <2>2
    <3>1. \A i, j \in 1..n : FillId(settled[i]) = FillId(settled[j]) => i = j \/ FillId(settled[i]) \in unsure
      BY <2>4, <3>0 DEF Remembered, SettledAtMostOnce
    <3>2. \A i \in 1..n : FillId(settled[i]) = FillId(f) => FillId(f) \in unsure
      BY <2>4, <2>6, <3>0 DEF SettledIds
    <3> QED
      BY <2>2, <2>4, <3>1, <3>2
  <2>8. SharedStore => FillId(f) \in claims \cup unsure
    BY <2>1, <2>2 DEF Remembered, Settling, Claiming
  <2> QED
    BY <1>1, <2>2, <2>5, <2>7, <2>8 DEF Remembered, Settling, Claiming
<1>6. CASE BridgeLoad \/ BridgeDebit \/ BridgeSync \/ BridgeSettleFails \/ BridgeRestore \/ BridgeReleaseTaker
  BY <1>1, <1>2, <1>6, BridgeSteps, RememberedFrame
<1>7. CASE BridgeUnclaim
  <2>1. /\ br.at = "unclaim" /\ br'.at = "taker" /\ claims \ {FillId(br.fill)} \subseteq claims'
        /\ UNCHANGED <<settled, processed, unsure, crashes>>
    BY <1>7 DEF BridgeUnclaim, TypeOK, TypeBridge
  <2>2. SettledIds' = SettledIds /\ SettledAtMostOnce'
    BY <1>11, <2>1 DEF Remembered
  <2> QED
    BY <1>1, <2>1, <2>2 DEF Remembered, Settling, Claiming
<1>8. CASE BridgeReleaseMaker \/ Crash
  <2>1. br' = Idle /\ UNCHANGED <<settled, claims, unsure>> /\ crashes' \in {crashes, crashes + 1}
        /\ (crashes' = 0 => processed' = processed)
    BY <1>2, <1>8 DEF BridgeReleaseMaker, Crash
  <2>2. br'.at \notin Claiming /\ br'.at \notin Settling /\ (crashes' = 0 => crashes = 0)
    BY <1>2, <2>1 DEF Claiming, Settling, Idle
  <2>3. SettledIds' = SettledIds /\ SettledAtMostOnce'
    BY <1>11, <2>1, <2>2 DEF Remembered
  <2> QED
    BY <1>1, <2>1, <2>2, <2>3 DEF Remembered
<1>9. CASE UNCHANGED vars
  BY <1>3, <1>9 DEF vars
<1>10. CASE Next
  <2>1. \A t : Release(t) => UNCHANGED <<settled, processed, claims, unsure, crashes, br>>
    BY DEF Release, ReleaseTake, ReleaseUnlock, ReleaseDelete
  <2>2. CASE \E o \in Orders : Reserve(o) \/ Track(o) \/ Submit(o) \/ Refuse(o) \/ Cancel(o) \/ Release(o)
    <3>1. UNCHANGED <<settled, processed, claims, unsure, crashes, br>>
      BY <2>1, <2>2 DEF Reserve, Track, Submit, Refuse, Cancel
    <3> QED
      BY <1>3, <3>1
  <2>3. CASE EngineStep \/ Snapshot \/ \E u \in Users, a \in Assets : Transfer(u, a)
    <3>1. UNCHANGED <<settled, processed, claims, unsure, crashes, br>>
      BY <2>3 DEF EngineStep, Take, Trade, Finish, Snapshot, Transfer
    <3> QED
      BY <1>3, <3>1
  <2>4. CASE BridgeStep
    BY <1>3, <1>4, <1>12, <1>5, <1>6, <1>7, <1>8, <2>1, <2>4 DEF BridgeStep
  <2> QED
    BY <1>8, <1>10, <2>2, <2>3, <2>4 DEF Next
<1> QED
  BY <1>9, <1>10

\* Nothing is settled at the start.
LEMMA RememberedInit == Init => Remembered
  BY DEF Init, Remembered, SettledIds, SettledAtMostOnce, Settling, Claiming, Idle
-----------------------------------------------------------------------------
(***************************************************************************)
(* Locks have owners.                                                      *)
(***************************************************************************)
\* A fill that is the last of an order's, and which orders nobody releases yet:
\* those the engine may still match and those whose last fill is under way.
Ends(f, o)   == (o = f.taker /\ f.takerDone) \/ (o = f.maker /\ f.makerDone)
Booked(o)    == o = taker \/ o \in ToSet(queue) \/ o \in ToSet(resting)
Alive(o)     == at[o] = "submit" \/ (Booked(o) /\ rem[o] > 0)
Working      == {"debit", "settle", "restore", "taker"}
InHand(o)    == \/ br.at \in Working /\ Ends(br.fill, o)
                \/ br.at = "maker" /\ o = br.fill.maker /\ br.fill.makerDone
InChannel(o) == \E i \in 1..Len(fills) : Ends(fills[i], o)
Open(o)      == Alive(o) \/ InHand(o) \/ InChannel(o)

\* What a single process with limit orders never does.
PlainSteps ==
  /\ br.at \notin {"load", "sync", "resync", "unclaim"}
  /\ br.loaded = [s \in Sides |-> None]
  /\ \A t \in Threads : rel[t].at # "delete"

\* Every order is in one place.
Once(q) == \A i, j \in 1..Len(q) : q[i] = q[j] => i = j
Placed ==
  /\ Once(queue) /\ Once(resting) /\ ToSet(queue) \cap ToSet(resting) = {}
  /\ taker \notin ToSet(queue) /\ taker \notin ToSet(resting)
  /\ \A o \in Orders :
       /\ Booked(o) => at[o] = "accepted"
       /\ o \in ToSet(queue) \/ o \in ToSet(resting) => rem[o] > 0
       /\ at[o] \in {"new", "track", "submit"} => rem[o] = OrderOf[o].qty

\* A fill is between two orders, of both sides, at a price the buyer accepts.
Crosses(f) ==
  /\ IsBuy(f.taker) # IsBuy(f.maker) /\ (f.takerDone \/ f.makerDone)
  /\ OrderOf[f.maker].price <= OrderOf[Buyer(f)].price
  /\ at[f.taker] = "accepted" /\ at[f.maker] = "accepted"
Traded ==
  /\ \A i \in 1..Len(fills) : Crosses(fills[i])
  /\ br.at # "idle" => Crosses(br.fill)

\* An order has one last fill, and nothing remains of it then.
EndsOnce ==
  \A o \in Orders :
    /\ InHand(o) \/ InChannel(o) => rem[o] = 0
    /\ InHand(o) => ~InChannel(o)
    /\ \A i, j \in 1..Len(fills) : Ends(fills[i], o) /\ Ends(fills[j], o) => i = j

\* One at most releases an order, when it is no longer open.
Releasers ==
  /\ \A o \in Orders, t \in Threads :
       rel[t].order = o => ~Open(o) /\ at[o] \notin {"new", "track"}
  /\ \A t, s \in Threads : rel[t].order = rel[s].order /\ rel[t].order \in Orders => t = s
  /\ \A t \in Orders : rel[t].order \in Orders => rel[t].order = t
  /\ br.at \in Working => rel[Bridge] = NotReleasing

\* Who refers to an object of a reservation.
Lent(o, i) ==
  \/ \E t \in Threads : rel[t].at = "unlock" /\ rel[t].order = o /\ rel[t].ref = i
  \/ br.at \in {"settle", "restore"} /\ \E s \in Sides : Party(br.fill, s) = o /\ br.ref[s] = i
Holds(o, i) == i # 0 /\ (res[o] = i \/ Lent(o, i))
Owned ==
  /\ \A o, p \in Orders : \A i \in Nat : Holds(o, i) /\ Holds(p, i) => o = p
  /\ \A o \in Orders : \A i, j \in Nat : Holds(o, i) /\ Holds(o, j) => i = j
  /\ \A o \in Orders : \A i \in Nat : at[o] \in {"new", "track"} => ~Holds(o, i)
  /\ \A o \in Orders, t \in Threads : rel[t].at = "unlock" /\ rel[t].order = o => res[o] = 0

\* A reservation covers what fills under way and what remains of its order take.
Takes(f, o) == IF o = Buyer(f) THEN Cost(f) ELSE IF o = Seller(f) THEN f.qty ELSE 0
Needs(o)    == IF IsBuy(o) THEN Notional(o, rem[o]) * (FeeUnit + TakerRate) ELSE rem[o]
InDebit(o)  == IF br.at = "debit" THEN Takes(br.fill, o) ELSE 0
Covers(w, o) ==
  /\ w \in [1..Len(fills) + 1 -> Nat]
  /\ Left(o) >= InDebit(o) + w[1]
  /\ \A i \in 1..Len(fills) : w[i] >= w[i + 1] + Takes(fills[i], o)
  /\ w[Len(fills) + 1] >= Needs(o)
Covered == \A o \in Orders : res[o] # 0 \/ Open(o) => \E w : Covers(w, o)

\* The bridge holds what the fill takes from a party, unless that one was
\* cancelled; then the other is filled, and nobody releases it meanwhile.
BackedBy(s, o) ==
  /\ br.ref[s] # 0 \/ Ends(br.fill, o) => br.unlock[s] = Wanted(br.fill, s)
  /\ br.ref[s] = 0 => br.unlock[s] = 0
  /\ br.ref[s] # 0 /\ Ends(br.fill, o) => res[o] = br.ref[s] \/ (res[o] = 0 /\ amounts[br.ref[s]] = 0)
Backed ==
  br.at \in {"settle", "restore"} =>
    /\ \A s \in Sides : BackedBy(s, Party(br.fill, s))
    /\ br.at = "restore" => \E s \in Sides : br.ref[s] = 0 /\ ~Ends(br.fill, Party(br.fill, s))

\* A reservation has somebody who will release it, if no fill was dropped.
Found ==
  /\ Len(fills) <= Len(emitted) /\ Len(fills) <= FillCap
  /\ Len(emitted) <= FillCap => \A o \in Orders :
       res[o] # 0 => Open(o) \/ \E t \in Threads : rel[t].at = "take" /\ rel[t].order = o

\* What is locked is what the reservations account for.
Mine(u, a)   == {o \in Orders : UserOf(o) = u /\ ReservedAsset(o) = a}
Adds(lk, f)  == \A u \in Users, a \in Assets : lk[u][a] = SumOver(f, Mine(u, a))
LocksAddUp   == Adds(locked, Accounts)

LockInv ==
  /\ PlainSteps /\ Placed /\ Traded /\ EndsOnce /\ Releasers /\ Owned /\ Covered /\ Backed /\ Found
  /\ LocksAddUp

BookVars == <<at, queue, taker, resting, rem>>
OpenVars == <<at, queue, taker, resting, rem, fills, br>>
-----------------------------------------------------------------------------
\* What does not change with the deployment.
LEMMA PlainFrame ==
  ASSUME UNCHANGED deployment
  PROVE  /\ Orders' = Orders /\ Threads' = Threads /\ OrderOf' = OrderOf /\ Plain' = Plain
         /\ FillCap' = FillCap
         /\ \A o : /\ IsBuy(o)' = IsBuy(o) /\ UserOf(o)' = UserOf(o) /\ Reserved(o)' = Reserved(o)
                   /\ ReservedAsset(o)' = ReservedAsset(o)
         /\ \A f : /\ Buyer(f)' = Buyer(f) /\ Seller(f)' = Seller(f) /\ Cost(f)' = Cost(f)
                   /\ \A s : Party(f, s)' = Party(f, s) /\ Wanted(f, s)' = Wanted(f, s)
                   /\ \A o : Takes(f, o)' = Takes(f, o)
<1>1. OrderOf' = OrderOf
  BY DEF OrderOf
<1>2. Orders' = Orders
  BY DEF Orders, OrderOf
<1>3. Threads' = Threads
  BY <1>2 DEF Threads
<1>4. \A o : /\ IsBuy(o)' = IsBuy(o) /\ UserOf(o)' = UserOf(o) /\ Reserved(o)' = Reserved(o)
             /\ ReservedAsset(o)' = ReservedAsset(o)
  BY <1>1 DEF IsBuy, UserOf, Reserved, ReservedAsset, Notional
<1>5. \A f : Buyer(f)' = Buyer(f) /\ Seller(f)' = Seller(f) /\ Cost(f)' = Cost(f)
  BY <1>1 DEF Buyer, Seller, Cost, Value, Notional, Rate, IsBuy
<1>6. \A f : /\ \A s : Party(f, s)' = Party(f, s) /\ Wanted(f, s)' = Wanted(f, s)
             /\ \A o : Takes(f, o)' = Takes(f, o)
  BY <1>5 DEF Party, Wanted, Takes
<1>7. Plain' = Plain /\ FillCap' = FillCap
  BY <1>1, <1>2 DEF Plain, SharedStore, Faults, FillCap
<1> QED
  BY <1>1, <1>2, <1>3, <1>4, <1>5, <1>6, <1>7

\* The parts of an account.
ReleasersOf(o) == {t \in Threads : rel[t].order = o}
ReleasedFor(o) == SumOver(ReleasedBy, ReleasersOf(o))
TrackedFor(o)  == IF at[o] = "track" THEN Reserved(o) ELSE 0

Parted == \A o : AccountedFor(o) = TrackedFor(o) + Left(o) + UnlockingFor(o) + ReleasedFor(o)

LEMMA AccountParts == Parted /\ Parted'
<1>1. Parted
  BY DEF Parted, AccountedFor, TrackedFor, ReleasedFor, ReleasersOf, SumOver
<1>2. Parted'
  BY <1>1, PTL
<1> QED
  BY <1>1, <1>2

\* What a step leaves alone keeps its part of the invariant.
LEMMA LockFrame ==
  ASSUME LockInv, UNCHANGED deployment
  PROVE  /\ UNCHANGED <<rel, br>> => PlainSteps'
         /\ UNCHANGED BookVars => Placed'
         /\ UNCHANGED <<at, fills, br>> => Traded'
         /\ UNCHANGED <<rem, fills, br>> => EndsOnce'
         /\ UNCHANGED <<OpenVars>> => \A o : (Open(o)' <=> Open(o))
         /\ UNCHANGED <<OpenVars, rel>> => Releasers'
         /\ UNCHANGED <<at, res, rel, br>> => Owned'
         /\ UNCHANGED <<OpenVars, res, amounts>> => Covered'
         /\ UNCHANGED <<br, res, amounts>> => Backed'
         /\ UNCHANGED <<OpenVars, emitted, res, rel>> => Found'
         /\ UNCHANGED <<locked, at, res, amounts, br, rel>> => LocksAddUp'
<1> USE PlainFrame
<1>1. UNCHANGED <<rel, br>> => PlainSteps'
  BY DEF LockInv, PlainSteps
<1>2. UNCHANGED BookVars => Placed'
  BY DEF LockInv, Placed, BookVars, Booked
<1>3. UNCHANGED <<at, fills, br>> => Traded'
  BY DEF LockInv, Traded, Crosses
<1>4. UNCHANGED <<rem, fills, br>> => EndsOnce'
  BY DEF LockInv, EndsOnce, InHand, InChannel
<1>5. UNCHANGED <<OpenVars>> => \A o : (Open(o)' <=> Open(o))
  BY DEF OpenVars, Open, Alive, Booked, InHand, InChannel
<1>6. UNCHANGED <<OpenVars, rel>> => Releasers'
  BY <1>5 DEF LockInv, Releasers, OpenVars
<1>7. \A o, i : UNCHANGED <<res, rel, br>> => (Holds(o, i)' <=> Holds(o, i))
  BY DEF Holds, Lent
<1>8. UNCHANGED <<at, res, rel, br>> => Owned'
  BY <1>7 DEF LockInv, Owned
<1>9. \A w, o : UNCHANGED <<OpenVars, res, amounts>> => (Covers(w, o)' <=> Covers(w, o))
  <2> SUFFICES ASSUME NEW w, NEW o, UNCHANGED <<OpenVars, res, amounts>>
               PROVE  (Covers(w, o)' <=> Covers(w, o))
    OBVIOUS
  <2>1. UNCHANGED <<rem, fills, br>>
    BY DEF OpenVars
  <2>2. Left(o)' = Left(o) /\ Needs(o)' = Needs(o)
    BY <2>1 DEF Left, Needs, Notional
  <2>3. InDebit(o)' = InDebit(o)
    BY <2>1 DEF InDebit
  <2> QED
    BY <2>1, <2>2, <2>3 DEF Covers
<1>10. UNCHANGED <<OpenVars, res, amounts>> => Covered'
  BY <1>5, <1>9 DEF LockInv, Covered
<1>11. UNCHANGED <<br, res, amounts>> => Backed'
  BY DEF LockInv, Backed, BackedBy
<1>12. UNCHANGED <<OpenVars, emitted, res, rel>> => Found'
  BY <1>5 DEF LockInv, Found, OpenVars
<1>13. UNCHANGED <<locked, at, res, amounts, br, rel>> => LocksAddUp'
  <2> SUFFICES ASSUME UNCHANGED <<locked, at, res, amounts, br, rel>> PROVE LocksAddUp'
    OBVIOUS
  <2>1. ReleasedBy' = ReleasedBy
    BY DEF ReleasedBy
  <2>2. ASSUME NEW o
        PROVE  AccountedFor(o)' = AccountedFor(o)
    <3>1. TrackedFor(o)' = TrackedFor(o) /\ Left(o)' = Left(o) /\ UnlockingFor(o)' = UnlockingFor(o)
      BY DEF TrackedFor, Left, UnlockingFor
    <3>2. ReleasersOf(o)' = ReleasersOf(o)
      BY DEF ReleasersOf
    <3>3. ReleasedFor(o)' = ReleasedFor(o)
      BY <2>1, <3>2 DEF ReleasedFor
    <3> QED
      BY <3>1, <3>3, AccountParts DEF Parted
  <2>3. Accounts' = Accounts
    BY <2>2 DEF Accounts
  <2>4. \A u, a : Mine(u, a)' = Mine(u, a)
    BY DEF Mine
  <2> QED
    BY <2>3, <2>4 DEF LockInv, LocksAddUp, Adds
<1> QED
  BY <1>1, <1>2, <1>3, <1>4, <1>5, <1>6, <1>8, <1>10, <1>11, <1>12, <1>13

-----------------------------------------------------------------------------
(***************************************************************************)
(* Adding up accounts.                                                     *)
(***************************************************************************)
LEMMA OrdersFinite ==
  ASSUME TypeOK
  PROVE  /\ IsFiniteSet(Orders) /\ IsFiniteSet(Threads)
         /\ \A u, a : IsFiniteSet(Mine(u, a)) /\ Mine(u, a) \subseteq Orders
         /\ \A o : IsFiniteSet(ReleasersOf(o)) /\ ReleasersOf(o) \subseteq Threads
<1>1. IsFiniteSet(Orders)
  BY DeploymentAssumption DEF TypeOK, Orders, OrderOf
<1>2. IsFiniteSet(Threads)
  <2>1. Threads = Orders \cup {Bridge}
    BY DEF Threads
  <2> QED
    BY <1>1, <2>1, FS_AddElement
<1>3. \A u, a : Mine(u, a) \subseteq Orders
  BY DEF Mine
<1>4. \A o : ReleasersOf(o) \subseteq Threads
  BY DEF ReleasersOf
<1> QED
  BY <1>1, <1>2, <1>3, <1>4, FS_Subset

\* What is released of an order: nothing, or the object of the one who releases it.
ReleasedRules ==
  \A o \in Orders :
    /\ TrackedFor(o) \in Nat /\ Left(o) \in Nat /\ UnlockingFor(o) \in Nat
    /\ ReleasedFor(o) \in Nat /\ Accounts[o] \in Nat
    /\ Accounts[o] = TrackedFor(o) + Left(o) + UnlockingFor(o) + ReleasedFor(o)
    /\ (\A t \in Threads : rel[t].order = o => rel[t].at # "unlock") => ReleasedFor(o) = 0
    /\ \A t \in Threads : ReleasersOf(o) = {t} => ReleasedFor(o) = ReleasedBy[t]

LEMMA AccountRules == TypeOK => ReleasedRules
<1> SUFFICES ASSUME TypeOK, NEW o \in Orders
             PROVE  /\ TrackedFor(o) \in Nat /\ Left(o) \in Nat /\ UnlockingFor(o) \in Nat
                    /\ ReleasedFor(o) \in Nat /\ Accounts[o] \in Nat
                    /\ Accounts[o] = TrackedFor(o) + Left(o) + UnlockingFor(o) + ReleasedFor(o)
                    /\ (\A t \in Threads : rel[t].order = o => rel[t].at # "unlock") => ReleasedFor(o) = 0
                    /\ \A t \in Threads : ReleasersOf(o) = {t} => ReleasedFor(o) = ReleasedBy[t]
  BY DEF ReleasedRules
<1>1. TrackedFor(o) \in Nat
  BY OrderType DEF TrackedFor
<1>2. Left(o) \in Nat
  BY DEF Left, TypeOK, TypeRefs
<1>3. UnlockingFor(o) \in Nat
  <2>1. OrderOf[o].side \in Sides
    BY OrderType
  <2>2. br.unlock[OrderOf[o].side] \in Nat
    BY <2>1 DEF TypeOK, TypeBridge
  <2> QED
    BY <2>2 DEF UnlockingFor
<1>4. \A t \in Threads : ReleasedBy[t] \in Nat /\ (rel[t].at # "unlock" => ReleasedBy[t] = 0)
  BY DEF ReleasedBy, TypeOK, TypeRefs
<1>5. IsFiniteSet(ReleasersOf(o)) /\ \A t \in ReleasersOf(o) : ReleasedBy[t] \in Nat
  BY <1>4, OrdersFinite
<1>6. ReleasedFor(o) \in Nat
  BY <1>5, SumNat DEF ReleasedFor
<1>7. (\A t \in Threads : rel[t].order = o => rel[t].at # "unlock") => ReleasedFor(o) = 0
  <2> SUFFICES ASSUME \A t \in Threads : rel[t].order = o => rel[t].at # "unlock"
               PROVE  ReleasedFor(o) = 0
    OBVIOUS
  <2>1. \A t \in ReleasersOf(o) : ReleasedBy[t] = 0
    BY <1>4 DEF ReleasersOf
  <2> QED
    BY <1>5, <2>1, SumZero DEF ReleasedFor
<1>8. ASSUME NEW t \in Threads, ReleasersOf(o) = {t}
      PROVE  ReleasedFor(o) = ReleasedBy[t]
  <2>1. IsFiniteSet({t}) /\ IntOn(ReleasedBy, {t}) /\ {t} \ {t} = {}
    BY <1>4, <1>5, <1>8 DEF IntOn
  <2>2. SumOver(ReleasedBy, {t}) = SumOver(ReleasedBy, {}) + ReleasedBy[t]
    BY <2>1, SumRemove
  <2> QED
    BY <1>4, <1>8, <2>2, SumEmpty DEF ReleasedFor
<1>9. Accounts[o] = TrackedFor(o) + Left(o) + UnlockingFor(o) + ReleasedFor(o)
  BY AccountParts DEF Parted, Accounts
<1> QED
  BY <1>1, <1>2, <1>3, <1>6, <1>7, <1>8, <1>9

LEMMA AccountRulesNext == TypeOK' => ReleasedRules'
  BY AccountRules, PTL

\* Nobody begins or ends to release an order.
LEMMA ReleasedSame ==
  ASSUME TypeOK, TypeOK', UNCHANGED deployment, NEW o \in Orders,
         \A t \in Threads : rel'[t].order = o <=> rel[t].order = o,
         \A t \in Threads : rel[t].order = o => ReleasedBy'[t] = ReleasedBy[t]
  PROVE  ReleasedFor(o)' = ReleasedFor(o)
<1>1. ReleasersOf(o)' = ReleasersOf(o)
  BY PlainFrame DEF ReleasersOf
<1>2. \A t \in ReleasersOf(o) : ReleasedBy'[t] = ReleasedBy[t]
  BY DEF ReleasersOf
<1>3. SumOver(ReleasedBy', ReleasersOf(o)) = SumOver(ReleasedBy, ReleasersOf(o))
  BY <1>2, OrdersFinite, SumEqual
<1> QED
  BY <1>1, <1>3 DEF ReleasedFor

\* The account of one order changes, and what is locked of its user's asset.
LEMMA AddsMove ==
  ASSUME TypeOK, NEW lk, NEW lk2, NEW f, NEW g, NEW x \in Orders, NEW d \in Int,
         Adds(lk, f), IntOn(f, Orders), IntOn(g, Orders),
         \A o \in Orders : g[o] = f[o] + (IF o = x THEN d ELSE 0),
         \A u \in Users, a \in Assets :
           lk2[u][a] = lk[u][a] + (IF u = UserOf(x) /\ a = ReservedAsset(x) THEN d ELSE 0)
  PROVE  Adds(lk2, g)
<1> SUFFICES ASSUME NEW u \in Users, NEW a \in Assets
             PROVE  lk2[u][a] = SumOver(g, Mine(u, a))
  BY DEF Adds
<1>1. lk[u][a] = SumOver(f, Mine(u, a))
  BY DEF Adds
<1>2. IsFiniteSet(Mine(u, a)) /\ IntOn(f, Mine(u, a)) /\ IntOn(g, Mine(u, a)) /\ Mine(u, a) \subseteq Orders
  BY OrdersFinite DEF IntOn
<1>3. SumOver(f, Mine(u, a)) \in Int
  BY <1>2, SumType
<1>4. CASE x \in Mine(u, a)
  <2>1. \A y \in Mine(u, a) \ {x} : f[y] = g[y]
    BY <1>2 DEF IntOn
  <2>2. SumOver(g, Mine(u, a)) = SumOver(f, Mine(u, a)) - f[x] + g[x]
    BY <1>2, <1>4, <2>1, SumChange
  <2>3. f[x] \in Int /\ g[x] = f[x] + d
    BY DEF IntOn
  <2>4. u = UserOf(x) /\ a = ReservedAsset(x)
    BY <1>4 DEF Mine
  <2> QED
    BY <1>1, <1>3, <2>2, <2>3, <2>4
<1>5. CASE x \notin Mine(u, a)
  <2>1. \A y \in Mine(u, a) : f[y] = g[y]
    BY <1>2, <1>5 DEF IntOn
  <2>2. SumOver(f, Mine(u, a)) = SumOver(g, Mine(u, a))
    BY <1>2, <2>1, SumEqual
  <2>3. ~(u = UserOf(x) /\ a = ReservedAsset(x))
    BY <1>5 DEF Mine
  <2> QED
    BY <1>1, <1>3, <2>2, <2>3
<1> QED
  BY <1>4, <1>5

\* An account is at most what is locked of its asset.
LEMMA AccountLocked ==
  ASSUME TypeOK, LocksAddUp, NEW o \in Orders
  PROVE  Accounts[o] <= locked[UserOf(o)][ReservedAsset(o)]
<1>1. UserOf(o) \in Users /\ ReservedAsset(o) \in Assets
  BY OrderType
<1>2. o \in Mine(UserOf(o), ReservedAsset(o))
  BY DEF Mine
<1>3. /\ IsFiniteSet(Mine(UserOf(o), ReservedAsset(o)))
      /\ \A p \in Mine(UserOf(o), ReservedAsset(o)) : Accounts[p] \in Nat
  BY OrdersFinite, AccountRules DEF ReleasedRules
<1>4. Accounts[o] <= SumOver(Accounts, Mine(UserOf(o), ReservedAsset(o)))
  BY <1>2, <1>3, SumBoundsTerm
<1> QED
  BY <1>1, <1>4 DEF LocksAddUp, Adds

-----------------------------------------------------------------------------
(***************************************************************************)
(* Orders, until they are accepted.                                        *)
(***************************************************************************)
LEMMA FillsTyped ==
  ASSUME TypeOK
  PROVE  /\ \A i \in 1..Len(fills) : fills[i] \in FillType
         /\ br.at # "idle" => br.fill \in FillType
         /\ Len(fills) \in Nat /\ DOMAIN fills = 1..Len(fills)
  BY DEF TypeOK, TypeEngine, TypeBridge

\* The two parties of a fill.
LEMMA CrossParties ==
  ASSUME TypeOK, NEW f \in FillType, Crosses(f)
  PROVE  /\ f.taker # f.maker /\ Buyer(f) # Seller(f)
         /\ Buyer(f) \in {f.taker, f.maker} /\ Seller(f) \in {f.taker, f.maker}
         /\ Buyer(f) \in Orders /\ Seller(f) \in Orders /\ IsBuy(Buyer(f)) /\ ~IsBuy(Seller(f))
         /\ Party(f, "buy") = Buyer(f) /\ Party(f, "sell") = Seller(f)
         /\ \A s \in Sides : OrderOf[Party(f, s)].side = s
         /\ \A o : Ends(f, o) \/ o = Buyer(f) \/ o = Seller(f) => at[o] = "accepted"
         /\ \A o : Ends(f, o) => o = Buyer(f) \/ o = Seller(f)
         /\ \A o : at[o] # "accepted" => Takes(f, o) = 0
<1>1. f.taker \in Orders /\ f.maker \in Orders
  BY DEF FillType
<1>2. /\ f.taker # f.maker /\ Buyer(f) # Seller(f) /\ IsBuy(Buyer(f)) /\ ~IsBuy(Seller(f))
      /\ Buyer(f) \in {f.taker, f.maker} /\ Seller(f) \in {f.taker, f.maker}
  BY <1>1, OrderType DEF Crosses, Buyer, Seller
<1>3. Buyer(f) \in Orders /\ Seller(f) \in Orders
  BY <1>1, <1>2
<1>4. Party(f, "buy") = Buyer(f) /\ Party(f, "sell") = Seller(f)
  BY DEF Party
<1>5. OrderOf[Buyer(f)].side = "buy" /\ OrderOf[Seller(f)].side = "sell"
  BY <1>2, <1>3, OrderType DEF IsBuy, Sides
<1>6. \A o : Ends(f, o) => o = Buyer(f) \/ o = Seller(f)
  BY <1>2 DEF Ends
<1>7. at[Buyer(f)] = "accepted" /\ at[Seller(f)] = "accepted"
  BY <1>2 DEF Crosses
<1> QED
  BY <1>2, <1>3, <1>4, <1>5, <1>6, <1>7 DEF Sides, Takes

\* An order that was not accepted is nowhere.
LEMMA Fresh ==
  ASSUME TypeOK, LockInv, NEW o \in Orders, at[o] # "accepted"
  PROVE  /\ ~Booked(o) /\ ~InHand(o) /\ ~InChannel(o) /\ (Open(o) <=> at[o] = "submit")
         /\ InDebit(o) = 0 /\ \A i \in 1..Len(fills) : Takes(fills[i], o) = 0
<1>1. ~Booked(o)
  BY DEF LockInv, Placed
<1>2. /\ \A i \in 1..Len(fills) : fills[i] \in FillType /\ Crosses(fills[i])
      /\ br.at # "idle" => br.fill \in FillType /\ Crosses(br.fill)
  BY FillsTyped DEF LockInv, Traded
<1>3. ~InChannel(o) /\ \A i \in 1..Len(fills) : Takes(fills[i], o) = 0
  BY <1>2, CrossParties DEF InChannel
<1>4. CASE br.at = "idle"
  BY <1>1, <1>3, <1>4 DEF InHand, InDebit, Working, Open, Alive
<1>5. CASE br.at # "idle"
  <2>1. ~Ends(br.fill, o) /\ Takes(br.fill, o) = 0
    BY <1>2, <1>5, CrossParties
  <2>2. ~InHand(o)
    BY <2>1 DEF InHand, Ends
  <2>3. InDebit(o) = 0
    BY <2>1 DEF InDebit
  <2> QED
    BY <1>1, <1>3, <2>2, <2>3 DEF Open, Alive
<1> QED
  BY <1>4, <1>5

\* An order is open as before.
LEMMA OpenSame ==
  ASSUME UNCHANGED <<queue, taker, resting, rem, fills, br>>, NEW p, at'[p] = at[p]
  PROVE  (Open(p)' <=> Open(p))
  BY DEF Open, Alive, Booked, InHand, InChannel

\* A reservation covers as before.
LEMMA CoversSame ==
  ASSUME UNCHANGED <<deployment, fills, br, rem>>, NEW p, Left(p)' = Left(p)
  PROVE  \A w : (Covers(w, p)' <=> Covers(w, p))
  BY PlainFrame DEF Covers, InDebit, Needs, Notional

\* A reserved amount is what a whole limit order needs.
LEMMA ReservedNeeds ==
  ASSUME TypeOK, Plain, NEW o \in Orders, rem[o] = OrderOf[o].qty
  PROVE  Needs(o) = Reserved(o) /\ Reserved(o) \in Nat
<1>1. OrderOf[o].kind = "limit"
  BY DEF Plain
<1> QED
  BY <1>1, OrderType DEF Needs, Reserved

\* An order of which no fill is under way is covered by what it needs.
FreshCovered ==
  \A o \in Orders :
    /\ Left(o) \in Nat /\ Needs(o) = Left(o) /\ InDebit(o) = 0
    /\ \A i \in 1..Len(fills) : Takes(fills[i], o) = 0
    => \E w : Covers(w, o)

LEMMA CoversFresh == TypeOK => FreshCovered
<1> SUFFICES ASSUME TypeOK, NEW o \in Orders, NEW n \in Nat, Left(o) = n, Needs(o) = n, InDebit(o) = 0,
                    \A i \in 1..Len(fills) : Takes(fills[i], o) = 0
             PROVE  \E w : Covers(w, o)
  BY DEF FreshCovered
<1> DEFINE w == [i \in 1..Len(fills) + 1 |-> n]
<1>1. w \in [1..Len(fills) + 1 -> Nat]
  OBVIOUS
<1>2. Len(fills) \in Nat
  BY FillsTyped
<1>3. \A i \in 1..Len(fills) + 1 : w[i] = n
  OBVIOUS
<1> HIDE DEF w
<1>4. Covers(w, o)
  BY <1>1, <1>2, <1>3 DEF Covers
<1> QED
  BY <1>4

LEMMA CoversFreshNext == TypeOK' => FreshCovered'
  BY CoversFresh, PTL

\* Fills are sound as long as their parties stay accepted.
LEMMA TradedSame ==
  ASSUME TypeOK, LockInv, UNCHANGED <<deployment, fills, br>>,
         \A p \in Orders : at[p] = "accepted" => at'[p] = "accepted"
  PROVE  Traded'
<1>1. /\ \A i \in 1..Len(fills) : fills[i] \in FillType /\ Crosses(fills[i])
      /\ br.at # "idle" => br.fill \in FillType /\ Crosses(br.fill)
  BY FillsTyped DEF LockInv, Traded
<1>2. ASSUME NEW f \in FillType, Crosses(f)
      PROVE  Crosses(f)'
  <2>1. f.taker \in Orders /\ f.maker \in Orders
    BY DEF FillType
  <2> QED
    BY <1>2, <2>1, PlainFrame DEF Crosses
<1> QED
  BY <1>1, <1>2 DEF Traded

\* Accounts that stay, like what is locked, add up as before.
LEMMA LocksSame ==
  ASSUME TypeOK, TypeOK', LockInv, UNCHANGED <<deployment, locked>>,
         \A p \in Orders : TrackedFor(p)' + Left(p)' + UnlockingFor(p)' + ReleasedFor(p)'
                            = TrackedFor(p) + Left(p) + UnlockingFor(p) + ReleasedFor(p)
  PROVE  LocksAddUp'
<1>1. \A p \in Orders : Accounts'[p] = Accounts[p]
  BY PlainFrame, AccountRules, AccountRulesNext DEF ReleasedRules
<1>2. Accounts' = Accounts
  BY <1>1, PlainFrame DEF Accounts
<1>3. \A u, a : Mine(u, a)' = Mine(u, a)
  BY PlainFrame DEF Mine
<1> QED
  BY <1>2, <1>3 DEF LockInv, LocksAddUp, Adds

\* Nothing is released meanwhile.
LEMMA ReleasesSame ==
  ASSUME TypeOK, TypeOK', UNCHANGED <<deployment, rel>>,
         \A t \in Threads : rel[t].at = "unlock" => amounts'[rel[t].ref] = amounts[rel[t].ref]
  PROVE  \A p \in Orders : ReleasedFor(p)' = ReleasedFor(p)
<1>1. \A t \in Threads : ReleasedBy'[t] = ReleasedBy[t]
  BY PlainFrame DEF ReleasedBy
<1> QED
  BY <1>1, ReleasedSame

\* An order is reserved.
LEMMA LockReserve ==
  ASSUME TypeOK, TypeOK', Plain, LockInv, UNCHANGED deployment, NEW o \in Orders, Reserve(o)
  PROVE  LockInv'
<1> USE PlainFrame
<1>1. /\ at[o] = "new" /\ at' = [at EXCEPT ![o] = IF Reserved(o) > 0 THEN "track" ELSE "submit"]
      /\ UNCHANGED <<amounts, res, queue, taker, resting, rem, emitted, fills, rel, br>>
  BY DEF Reserve, Plain
<1>2. /\ at'[o] \in {"track", "submit"} /\ (at'[o] = "submit" => Reserved(o) = 0)
      /\ \A p \in Orders \ {o} : at'[p] = at[p]
  BY <1>1, OrderType DEF TypeOK
<1>3. /\ ~Booked(o) /\ ~InHand(o) /\ ~InChannel(o) /\ ~Open(o)
      /\ InDebit(o) = 0 /\ \A i \in 1..Len(fills) : Takes(fills[i], o) = 0
  BY <1>1, Fresh
<1>4. /\ \A p \in Orders \ {o} : (Open(p)' <=> Open(p))
      /\ \A p : (Booked(p)' <=> Booked(p))
  BY <1>1, <1>2, OpenSame DEF Booked
<1>5. PlainSteps' /\ EndsOnce' /\ Backed'
  BY <1>1, LockFrame
<1>6. Placed'
  BY <1>1, <1>2, <1>4 DEF LockInv, Placed
<1>7. Traded'
  BY <1>1, <1>2, TradedSame
<1>8. Releasers'
  BY <1>1, <1>2, <1>4 DEF LockInv, Releasers
<1>9. \A p, i : (Holds(p, i)' <=> Holds(p, i))
  BY <1>1 DEF Holds, Lent
<1>10. \A i \in Nat : ~Holds(o, i)
  BY <1>1 DEF LockInv, Owned
<1>11. Owned'
  BY <1>1, <1>2, <1>9, <1>10 DEF LockInv, Owned
<1>12. res[o] = 0
  BY <1>10 DEF Holds, TypeOK, TypeRefs
<1>13. Covered'
  <2>1. \A p : Left(p)' = Left(p)
    BY <1>1 DEF Left
  <2>2. \A w, p : (Covers(w, p)' <=> Covers(w, p))
    BY <1>1, <2>1, CoversSame
  <2>3. ASSUME Open(o)'
        PROVE  \E w : Covers(w, o)
    <3>1. at'[o] = "submit"
      BY <1>1, <1>3, <2>3 DEF Open, Alive, Booked, InHand, InChannel
    <3>2. rem[o] = OrderOf[o].qty
      BY <1>1 DEF LockInv, Placed
    <3>3. Needs(o) = 0 /\ Left(o) = 0
      BY <1>2, <1>12, <3>1, <3>2, ReservedNeeds DEF Left
    <3> QED
      BY <1>3, <3>3, CoversFresh DEF FreshCovered
  <2> QED
    BY <1>1, <1>4, <1>12, <2>2, <2>3 DEF LockInv, Covered
<1>14. Found'
  BY <1>1, <1>4, <1>12 DEF LockInv, Found
<1>15. LocksAddUp'
  <2>1. \A p \in Orders : /\ ReleasedFor(p)' = ReleasedFor(p) /\ Left(p)' = Left(p)
                           /\ UnlockingFor(p)' = UnlockingFor(p)
    BY <1>1, ReleasesSame DEF Left, UnlockingFor
  <2>2. TrackedFor(o) = 0 /\ TrackedFor(o)' = Reserved(o) /\ Reserved(o) \in Nat
    BY <1>1, <1>2, OrderType DEF TrackedFor
  <2>3. \A p \in Orders \ {o} : TrackedFor(p)' = TrackedFor(p)
    BY <1>2 DEF TrackedFor
  <2>4. \A p \in Orders : Accounts'[p] = Accounts[p] + (IF p = o THEN Reserved(o) ELSE 0)
    BY <2>1, <2>2, <2>3, AccountRules, AccountRulesNext DEF ReleasedRules
  <2>5. IntOn(Accounts, Orders) /\ IntOn(Accounts', Orders)
    BY AccountRules, AccountRulesNext DEF ReleasedRules, IntOn
  <2>6. \A u \in Users, a \in Assets :
          locked'[u][a] = locked[u][a] + (IF u = UserOf(o) /\ a = ReservedAsset(o) THEN Reserved(o) ELSE 0)
    <3>1. locked \in [Users -> [Assets -> Nat]] /\ UserOf(o) \in Users /\ ReservedAsset(o) \in Assets
      BY OrderType DEF TypeOK, TypeMoney
    <3>2. locked' = [locked EXCEPT ![UserOf(o)][ReservedAsset(o)] = @ + Reserved(o)]
      BY DEF Reserve
    <3> QED
      BY <2>2, <3>1, <3>2
  <2>7. Adds(locked', Accounts')
    BY <2>2, <2>4, <2>5, <2>6, AddsMove DEF LockInv, LocksAddUp
  <2> QED
    BY <2>7 DEF LocksAddUp, Adds, Mine
<1> QED
  BY <1>5, <1>6, <1>7, <1>8, <1>11, <1>13, <1>14, <1>15 DEF LockInv

\* Its reservation is recorded.
LEMMA LockTrack ==
  ASSUME TypeOK, TypeOK', Plain, LockInv, UNCHANGED deployment, NEW o \in Orders, Track(o)
  PROVE  LockInv'
<1> USE PlainFrame
<1> DEFINE n == Len(amounts) + 1
<1>1. /\ at[o] = "track" /\ at' = [at EXCEPT ![o] = "submit"]
      /\ amounts' = Append(amounts, Reserved(o)) /\ res' = [res EXCEPT ![o] = Len(amounts')]
      /\ UNCHANGED <<locked, queue, taker, resting, rem, emitted, fills, rel, br>>
  BY DEF Track
<1>2. /\ amounts \in Seq(Nat) /\ Len(amounts) \in Nat /\ Reserved(o) \in Nat
      /\ \A p \in Orders : res[p] \in 0..Len(amounts)
  BY OrderType DEF TypeOK, TypeRefs
<1>3. /\ n \in Nat \ {0} /\ amounts'[n] = Reserved(o) /\ \A i \in 1..Len(amounts) : amounts'[i] = amounts[i]
      /\ res'[o] = n /\ \A p \in Orders \ {o} : res'[p] = res[p]
      /\ at'[o] = "submit" /\ \A p \in Orders \ {o} : at'[p] = at[p]
  BY <1>1, <1>2 DEF TypeOK, TypeRefs
<1>4. /\ ~Booked(o) /\ ~InHand(o) /\ ~InChannel(o) /\ ~Open(o)
      /\ InDebit(o) = 0 /\ \A i \in 1..Len(fills) : Takes(fills[i], o) = 0
  BY <1>1, Fresh
<1>5. /\ \A p \in Orders \ {o} : (Open(p)' <=> Open(p))
      /\ \A p : (Booked(p)' <=> Booked(p))
  BY <1>1, <1>3, OpenSame DEF Booked
<1>6. PlainSteps' /\ EndsOnce'
  BY <1>1, LockFrame
<1>7. Placed'
  BY <1>1, <1>3, <1>5 DEF LockInv, Placed
<1>8. Traded'
  BY <1>1, <1>3, TradedSame
<1>9. Releasers'
  BY <1>1, <1>3, <1>5 DEF LockInv, Releasers
<1>10. \A i \in Nat : ~Holds(o, i)
  BY <1>1 DEF LockInv, Owned
<1>11. res[o] = 0
  BY <1>2, <1>10 DEF Holds
<1>12. \A p \in Orders : \A i \in Nat : Holds(p, i) => i # n
  <2>1. \A t \in Threads : rel[t].at = "unlock" => rel[t].ref # n
    BY <1>2 DEF TypeOK, TypeRefs
  <2>2. \A s \in Sides : br.ref[s] # n
    BY <1>2 DEF TypeOK, TypeRefs
  <2> QED
    BY <1>2, <2>1, <2>2 DEF Holds, Lent
<1>13. \A p \in Orders : \A i \in Nat : Holds(p, i)' <=> Holds(p, i) \/ (p = o /\ i = n)
  <2> SUFFICES ASSUME NEW p \in Orders, NEW i \in Nat
               PROVE  Holds(p, i)' <=> Holds(p, i) \/ (p = o /\ i = n)
    OBVIOUS
  <2>1. res'[p] = i <=> (p # o /\ res[p] = i) \/ (p = o /\ i = n)
    BY <1>3
  <2>2. (Lent(p, i)' <=> Lent(p, i))
    BY <1>1 DEF Lent
  <2>3. n # 0
    BY <1>3
  <2> HIDE DEF n
  <2> QED
    BY <1>10, <2>1, <2>2, <2>3 DEF Holds
<1> HIDE DEF n
<1>14. Owned'
  <2>1. \A p, q \in Orders : \A i \in Nat : Holds(p, i)' /\ Holds(q, i)' => p = q
    BY <1>12, <1>13 DEF LockInv, Owned
  <2>2. \A p \in Orders : \A i, j \in Nat : Holds(p, i)' /\ Holds(p, j)' => i = j
    BY <1>10, <1>13 DEF LockInv, Owned
  <2>3. \A p \in Orders : \A i \in Nat : at'[p] \in {"new", "track"} => ~Holds(p, i)'
    BY <1>3, <1>13 DEF LockInv, Owned
  <2>4. \A p \in Orders, t \in Threads : rel'[t].at = "unlock" /\ rel'[t].order = p => res'[p] = 0
    BY <1>1, <1>3 DEF LockInv, Owned, Releasers
  <2> QED
    BY <2>1, <2>2, <2>3, <2>4 DEF Owned
<1>15. \A p \in Orders \ {o} : Left(p)' = Left(p)
  BY <1>2, <1>3 DEF Left
<1>16. Left(o) = 0 /\ Left(o)' = Reserved(o)
  BY <1>3, <1>11 DEF Left
<1>17. Covered'
  <2>1. \A w : \A p \in Orders \ {o} : (Covers(w, p)' <=> Covers(w, p))
    BY <1>1, <1>15, CoversSame
  <2>2. \E w : Covers(w, o)'
    <3>1. rem[o] = OrderOf[o].qty
      BY <1>1 DEF LockInv, Placed
    <3>2. Needs(o) = Reserved(o)
      BY <3>1, ReservedNeeds
    <3>3. Needs(o)' = Reserved(o) /\ InDebit(o)' = 0
      BY <1>1, <1>4, <3>2 DEF Needs, Notional, InDebit
    <3>4. \A i \in 1..Len(fills') : Takes(fills[i], o)' = 0
      BY <1>1, <1>4
    <3> QED
      BY <1>2, <1>16, <3>3, <3>4, CoversFreshNext DEF FreshCovered
  <2> QED
    BY <1>3, <1>5, <2>1, <2>2 DEF LockInv, Covered
<1>18. Backed'
  <2> SUFFICES ASSUME br.at \in {"settle", "restore"}
               PROVE  Backed'
    BY <1>1 DEF Backed
  <2>1. br.fill \in FillType /\ Crosses(br.fill)
    BY FillsTyped DEF LockInv, Traded
  <2>2. \A s \in Sides : Party(br.fill, s) \in Orders \ {o}
    BY <1>1, <2>1, CrossParties, FillMoves DEF Sides
  <2>3. \A s \in Sides : res'[Party(br.fill, s)] = res[Party(br.fill, s)]
    BY <1>3, <2>2
  <2>4. \A s \in Sides : br.ref[s] # 0 => amounts'[br.ref[s]] = amounts[br.ref[s]]
    <3>1. \A s \in Sides : br.ref[s] # 0 => br.ref[s] \in 1..Len(amounts)
      BY DEF TypeOK, TypeRefs
    <3> QED
      BY <1>2, <1>3, <3>1
  <2>5. ASSUME NEW s \in Sides, BackedBy(s, Party(br.fill, s))
        PROVE  BackedBy(s, Party(br.fill, s))'
    <3>1. PICK p, g : p = Party(br.fill, s) /\ g = br.fill
      OBVIOUS
    <3>2. br' = br /\ Party(br.fill, s)' = p /\ Wanted(g, s)' = Wanted(g, s) /\ res'[p] = res[p]
      BY <1>1, <2>3, <3>1, PlainFrame
    <3>3. BackedBy(s, p)
      BY <2>5, <3>1
    <3>4. BackedBy(s, p)'
      BY <2>4, <3>1, <3>2, <3>3 DEF BackedBy, Ends
    <3> QED
      BY <3>2, <3>4 DEF BackedBy
  <2> QED
    BY <1>1, <2>5 DEF LockInv, Backed
<1>19. Found'
  <2>1. Open(o)'
    BY <1>3 DEF Open, Alive
  <2> QED
    BY <1>1, <1>3, <1>5, <2>1 DEF LockInv, Found
<1>20. LocksAddUp'
  <2>1. \A p \in Orders : ReleasedFor(p)' = ReleasedFor(p) /\ UnlockingFor(p)' = UnlockingFor(p)
    <3>1. \A t \in Threads : rel[t].at = "unlock" => amounts'[rel[t].ref] = amounts[rel[t].ref]
      BY <1>3 DEF TypeOK, TypeRefs
    <3> QED
      BY <1>1, <3>1, ReleasesSame DEF UnlockingFor
  <2>2. TrackedFor(o) = Reserved(o) /\ TrackedFor(o)' = 0
    BY <1>1, <1>3 DEF TrackedFor
  <2>3. \A p \in Orders \ {o} : TrackedFor(p)' = TrackedFor(p)
    BY <1>3 DEF TrackedFor
  <2>4. \A p \in Orders : TrackedFor(p)' + Left(p)' = TrackedFor(p) + Left(p)
    BY <1>2, <1>15, <1>16, <2>2, <2>3
  <2> QED
    BY <1>1, <2>1, <2>4, LocksSame
<1> QED
  BY <1>6, <1>7, <1>8, <1>9, <1>14, <1>17, <1>18, <1>19, <1>20 DEF LockInv

-----------------------------------------------------------------------------
\* Where an order is put in, or taken out of, a sequence that has each order once.
LEMMA OnceAppend ==
  ASSUME NEW S, NEW q \in Seq(S), NEW x \in S, Once(q), x \notin ToSet(q)
  PROVE  Once(Append(q, x)) /\ ToSet(Append(q, x)) = ToSet(q) \cup {x}
<1>1. /\ Len(q) \in Nat /\ DOMAIN q = 1..Len(q) /\ DOMAIN Append(q, x) = 1..Len(q) + 1
      /\ Len(Append(q, x)) = Len(q) + 1
      /\ \A i \in 1..Len(q) + 1 : Append(q, x)[i] = IF i <= Len(q) THEN q[i] ELSE x
  BY AppendProperties
<1>2. ToSet(q) = {q[i] : i \in 1..Len(q)}
  BY <1>1 DEF ToSet
<1>3. Once(Append(q, x))
  BY <1>1, <1>2 DEF Once
<1>4. ToSet(Append(q, x)) = {Append(q, x)[i] : i \in 1..Len(q) + 1}
  BY <1>1 DEF ToSet
<1>5. ToSet(Append(q, x)) = ToSet(q) \cup {x}
  <2>1. \A y \in ToSet(q) : y \in ToSet(Append(q, x))
    BY <1>1, <1>2, <1>4
  <2>2. Append(q, x)[Len(q) + 1] = x /\ Len(q) + 1 \in 1..Len(q) + 1
    BY <1>1
  <2>3. \A y \in ToSet(Append(q, x)) : y \in ToSet(q) \/ y = x
    BY <1>1, <1>2, <1>4
  <2> QED
    BY <1>4, <2>1, <2>2, <2>3
<1> QED
  BY <1>3, <1>5

LEMMA OnceTail ==
  ASSUME NEW S, NEW q \in Seq(S), q # << >>, Once(q)
  PROVE  /\ Once(Tail(q)) /\ ToSet(Tail(q)) = ToSet(q) \ {Head(q)} /\ Head(q) \in ToSet(q)
         /\ Tail(q) \in Seq(S) /\ Len(q) \in Nat \ {0} /\ Len(Tail(q)) = Len(q) - 1 /\ Head(q) = q[1]
         /\ \A i \in 1..Len(Tail(q)) : Tail(q)[i] = q[i + 1]
<1>1. /\ Len(q) \in Nat \ {0} /\ DOMAIN q = 1..Len(q)
      /\ Tail(q) \in Seq(S) /\ Len(Tail(q)) = Len(q) - 1 /\ DOMAIN Tail(q) = 1..Len(q) - 1
      /\ Head(q) = q[1] /\ \A i \in 1..Len(q) - 1 : Tail(q)[i] = q[i + 1]
  BY HeadTailProperties, EmptySeq
<1>2. ToSet(q) = {q[i] : i \in 1..Len(q)} /\ ToSet(Tail(q)) = {Tail(q)[i] : i \in 1..Len(q) - 1}
  BY <1>1 DEF ToSet
<1>3. Once(Tail(q))
  BY <1>1 DEF Once
<1>4. \A y : y \in ToSet(Tail(q)) <=> y \in ToSet(q) /\ y # Head(q)
  <2>1. \A i \in 1..Len(q) - 1 : i + 1 \in 1..Len(q) /\ i + 1 # 1
    BY <1>1
  <2>2. \A i \in 1..Len(q) : i = 1 \/ (i - 1 \in 1..Len(q) - 1 /\ (i - 1) + 1 = i)
    BY <1>1
  <2>3. \A i \in 1..Len(q) : i # 1 => q[i] # q[1]
    BY <1>1 DEF Once
  <2>4. ASSUME NEW y \in ToSet(Tail(q))
        PROVE  y \in ToSet(q) /\ y # Head(q)
    <3>1. PICK i \in 1..Len(q) - 1 : y = Tail(q)[i]
      BY <1>2
    <3>2. y = q[i + 1]
      BY <1>1, <3>1
    <3> QED
      BY <1>1, <1>2, <2>1, <2>3, <3>2
  <2>5. ASSUME NEW y \in ToSet(q), y # Head(q)
        PROVE  y \in ToSet(Tail(q))
    <3>1. PICK i \in 1..Len(q) : y = q[i]
      BY <1>2
    <3>2. i - 1 \in 1..Len(q) - 1 /\ (i - 1) + 1 = i
      BY <1>1, <2>2, <2>5, <3>1
    <3>3. Tail(q)[i - 1] = y
      BY <1>1, <3>1, <3>2
    <3> QED
      BY <1>2, <3>2, <3>3
  <2> QED
    BY <2>4, <2>5
<1>5. Head(q) \in ToSet(q)
  BY <1>1, <1>2
<1> QED
  BY <1>1, <1>3, <1>4, <1>5

LEMMA OnceWithout ==
  ASSUME TypeOK, Once(resting), NEW m \in ToSet(resting)
  PROVE  Once(Without(m)) /\ ToSet(Without(m)) = ToSet(resting) \ {m}
<1> DEFINE k == Position(m)
           n == Len(resting)
           low == SubSeq(resting, 1, k - 1)
           high == SubSeq(resting, k + 1, n)
<1>1. resting \in Seq(Orders) /\ n \in Nat /\ DOMAIN resting = 1..n
  BY DEF TypeOK, TypeEngine
<1>2. k \in 1..n /\ resting[k] = m
  <2>1. \E i \in DOMAIN resting : resting[i] = m
    BY DEF ToSet
  <2> QED
    BY <1>1, <2>1 DEF Position
<1> HIDE DEF k
<1>3. /\ low \in Seq(Orders) /\ Len(low) = k - 1 /\ \A i \in 1..k - 1 : low[i] = resting[i]
  <2>1. \A i \in 1..k - 1 : resting[i] \in Orders
    BY <1>1, <1>2
  <2> QED
    BY <1>1, <1>2, <2>1, SubSeqProperties
<1>4. /\ high \in Seq(Orders) /\ Len(high) = n - k /\ \A i \in 1..n - k : high[i] = resting[i + k]
  <2>1. \A i \in k + 1..n : resting[i] \in Orders
    BY <1>1, <1>2
  <2>2. /\ high \in Seq(Orders) /\ Len(high) = IF k + 1 <= n THEN n - (k + 1) + 1 ELSE 0
        /\ \A i \in 1..n - (k + 1) + 1 : high[i] = resting[(k + 1) + i - 1]
    BY <1>1, <1>2, <2>1, SubSeqProperties
  <2> HIDE DEF n, high
  <2>3. \A i \in Int : (k + 1) + i - 1 = i + k
    BY <1>2
  <2>4. n \in Int /\ k \in Int /\ k <= n
    BY <1>1, <1>2
  <2>5. n - (k + 1) + 1 = n - k /\ (~(k + 1 <= n) => n - k = 0)
    BY <2>4
  <2>6. Len(high) = n - k
    BY <2>2, <2>5
  <2>7. \A i \in 1..n - k : high[i] = resting[(k + 1) + i - 1]
    BY <2>2, <2>5
  <2>8. \A i \in 1..n - k : high[i] = resting[i + k]
    BY <2>3, <2>7
  <2> QED
    BY <2>2, <2>6, <2>8
<1> HIDE DEF low, high
<1>5. Without(m) = low \o high
  BY DEF Without, RemoveAt, k, n, low, high
<1>6. /\ Len(Without(m)) = n - 1 /\ DOMAIN Without(m) = 1..n - 1
      /\ \A i \in 1..n - 1 : Without(m)[i] = IF i < k THEN resting[i] ELSE resting[i + 1]
  <2>1. /\ Len(low \o high) = Len(low) + Len(high) /\ low \o high \in Seq(Orders)
        /\ \A i \in 1..Len(low) + Len(high) :
             (low \o high)[i] = IF i <= Len(low) THEN low[i] ELSE high[i - Len(low)]
    BY <1>3, <1>4, ConcatProperties
  <2>2. Len(low) + Len(high) = n - 1
    BY <1>1, <1>2, <1>3, <1>4
  <2>3. DOMAIN (low \o high) = 1..n - 1
    BY <2>1, <2>2
  <2>4. ASSUME NEW i \in 1..n - 1
        PROVE  (low \o high)[i] = IF i < k THEN resting[i] ELSE resting[i + 1]
    <3>1. CASE i < k
      BY <1>2, <1>3, <2>1, <2>2, <3>1
    <3>2. CASE ~(i < k)
      <4>1. ~(i <= Len(low)) /\ i - Len(low) \in 1..n - k /\ (i - Len(low)) + k = i + 1
        BY <1>1, <1>2, <1>3, <3>2
      <4>2. (low \o high)[i] = high[i - Len(low)]
        BY <2>1, <2>2, <4>1
      <4> QED
        BY <1>4, <3>2, <4>1, <4>2
    <3> QED
      BY <3>1, <3>2
  <2> QED
    BY <1>5, <2>1, <2>2, <2>3, <2>4
<1>7. \A i, j \in 1..n : resting[i] = resting[j] => i = j
  BY DEF Once
<1>8. Once(Without(m))
  BY <1>1, <1>2, <1>6, <1>7 DEF Once
<1>9. /\ ToSet(resting) = {resting[i] : i \in 1..n}
      /\ ToSet(Without(m)) = {Without(m)[i] : i \in 1..n - 1}
  BY <1>1, <1>6 DEF ToSet
<1>10. ASSUME NEW y \in ToSet(Without(m))
       PROVE  y \in ToSet(resting) /\ y # m
  <2>1. PICK i \in 1..n - 1 : y = Without(m)[i]
    BY <1>9
  <2>2. PICK j \in 1..n : y = resting[j] /\ j # k
    BY <1>1, <1>2, <1>6, <2>1
  <2> QED
    BY <1>2, <1>7, <1>9, <2>2
<1>11. ASSUME NEW y \in ToSet(resting), y # m
       PROVE  y \in ToSet(Without(m))
  <2>1. PICK i \in 1..n : y = resting[i] /\ i # k
    BY <1>2, <1>9, <1>11
  <2>2. CASE i < k
    BY <1>1, <1>2, <1>6, <1>9, <2>1, <2>2
  <2>3. CASE i > k
    <3>1. i - 1 \in 1..n - 1 /\ ~(i - 1 < k) /\ (i - 1) + 1 = i
      BY <1>1, <1>2, <2>1, <2>3
    <3> QED
      BY <1>6, <1>9, <2>1, <3>1
  <2> QED
    BY <1>2, <2>1, <2>2, <2>3
<1> QED
  BY <1>8, <1>10, <1>11

LEMMA BookOrders ==
  ASSUME TypeOK
  PROVE  ToSet(queue) \subseteq Orders /\ ToSet(resting) \subseteq Orders
  BY DEF TypeOK, TypeEngine, ToSet

\* Orders change their places in the engine, and stay open.
LEMMA LockPlaces ==
  ASSUME TypeOK, TypeOK', LockInv, UNCHANGED <<deployment, amounts, res, rel, br, locked, fills, rem, emitted>>,
         \A p \in Orders : /\ at'[p] = "new" <=> at[p] = "new"
                           /\ at'[p] = "track" <=> at[p] = "track"
                           /\ at[p] = "accepted" => at'[p] = "accepted"
                           /\ (Open(p)' <=> Open(p)),
         Placed'
  PROVE  LockInv'
<1> USE PlainFrame
<1>1. PlainSteps' /\ EndsOnce' /\ Backed'
  BY LockFrame
<1>2. Traded'
  BY TradedSame
<1>3. Releasers'
  BY DEF LockInv, Releasers
<1>4. \A p, i : (Holds(p, i)' <=> Holds(p, i))
  BY DEF Holds, Lent
<1>5. Owned'
  BY <1>4 DEF LockInv, Owned
<1>6. Covered'
  <2>1. \A p : Left(p)' = Left(p)
    BY DEF Left
  <2>2. \A w, p : (Covers(w, p)' <=> Covers(w, p))
    BY <2>1, CoversSame
  <2> QED
    BY <2>2 DEF LockInv, Covered
<1>7. Found'
  BY DEF LockInv, Found
<1>8. LocksAddUp'
  <2>1. \A p \in Orders : /\ TrackedFor(p)' = TrackedFor(p) /\ Left(p)' = Left(p)
                           /\ UnlockingFor(p)' = UnlockingFor(p) /\ ReleasedFor(p)' = ReleasedFor(p)
    BY ReleasesSame DEF TrackedFor, Left, UnlockingFor
  <2> QED
    BY <2>1, LocksSame
<1> QED
  BY <1>1, <1>2, <1>3, <1>5, <1>6, <1>7, <1>8 DEF LockInv

\* The engine accepts an order.
LEMMA LockSubmit ==
  ASSUME TypeOK, TypeOK', LockInv, UNCHANGED deployment, NEW o \in Orders, Submit(o)
  PROVE  LockInv'
<1> USE PlainFrame
<1>1. /\ at[o] = "submit" /\ at' = [at EXCEPT ![o] = "accepted"] /\ queue' = Append(queue, o)
      /\ UNCHANGED <<amounts, res, rel, br, locked, fills, rem, emitted, taker, resting>>
  BY DEF Submit
<1>2. at'[o] = "accepted" /\ \A p \in Orders \ {o} : at'[p] = at[p]
  BY <1>1 DEF TypeOK
<1>3. ~Booked(o) /\ ~InHand(o) /\ ~InChannel(o) /\ Open(o) /\ rem[o] \in Nat \ {0}
  BY <1>1, Fresh, OrderType DEF LockInv, Placed
<1>4. Once(queue') /\ ToSet(queue') = ToSet(queue) \cup {o}
  <2>1. queue \in Seq(Orders) /\ Once(queue) /\ o \notin ToSet(queue)
    BY <1>3 DEF TypeOK, TypeEngine, LockInv, Placed, Booked
  <2> QED
    BY <1>1, <2>1, OnceAppend
<1>5. \A p : Booked(p)' <=> Booked(p) \/ p = o
  BY <1>1, <1>4 DEF Booked
<1>6. Placed'
  <2>1. ToSet(queue') \cap ToSet(resting') = {} /\ taker' \notin ToSet(queue') /\ taker' \notin ToSet(resting')
    BY <1>1, <1>3, <1>4 DEF LockInv, Placed, Booked
  <2>2. ASSUME NEW p \in Orders
        PROVE  /\ Booked(p)' => at'[p] = "accepted"
               /\ p \in ToSet(queue') \/ p \in ToSet(resting') => rem[p] > 0
               /\ at'[p] \in {"new", "track", "submit"} => rem[p] = OrderOf[p].qty
    BY <1>1, <1>2, <1>3, <1>4, <1>5 DEF LockInv, Placed
  <2> QED
    BY <1>1, <1>4, <2>1, <2>2 DEF LockInv, Placed
<1>7. \A p \in Orders : (Open(p)' <=> Open(p))
  <2>1. \A p : (InHand(p)' <=> InHand(p)) /\ (InChannel(p)' <=> InChannel(p))
    BY <1>1 DEF InHand, InChannel
  <2>2. \A p \in Orders : (Alive(p)' <=> Alive(p))
    BY <1>1, <1>2, <1>3, <1>5 DEF Alive
  <2> QED
    BY <2>1, <2>2 DEF Open
<1> QED
  BY <1>1, <1>2, <1>6, <1>7, LockPlaces

\* The engine takes an order in hand.
LEMMA LockTake ==
  ASSUME TypeOK, TypeOK', LockInv, UNCHANGED deployment, Take
  PROVE  LockInv'
<1> USE PlainFrame
<1>1. /\ taker = None /\ queue # << >> /\ taker' = Head(queue) /\ queue' = Tail(queue)
      /\ UNCHANGED <<amounts, res, rel, br, locked, fills, rem, emitted, at, resting>>
  BY DEF Take
<1>2. /\ Once(queue') /\ ToSet(queue') = ToSet(queue) \ {taker'} /\ taker' \in ToSet(queue)
  <2>1. queue \in Seq(Orders) /\ Once(queue)
    BY DEF TypeOK, TypeEngine, LockInv, Placed
  <2> QED
    BY <1>1, <2>1, OnceTail
<1>3. \A p \in Orders : p # taker
  BY <1>1, OrderType DEF None
<1>4. \A p \in Orders : (Booked(p)' <=> Booked(p))
  BY <1>1, <1>2, <1>3 DEF Booked
<1>5. Placed'
  BY <1>1, <1>2, <1>4 DEF LockInv, Placed
<1>6. \A p \in Orders : (Open(p)' <=> Open(p))
  BY <1>1, <1>4 DEF Open, Alive, InHand, InChannel
<1> QED
  BY <1>1, <1>5, <1>6, LockPlaces

\* What remains of the order in hand rests.
LEMMA LockFinish ==
  ASSUME TypeOK, TypeOK', Plain, LockInv, UNCHANGED deployment, Finish
  PROVE  LockInv'
<1> USE PlainFrame
<1>1. /\ taker # None /\ taker' = None
      /\ resting' = IF rem[taker] > 0 /\ OrderOf[taker].kind = "limit"
                      THEN Append(resting, taker) ELSE resting
      /\ UNCHANGED <<amounts, res, rel, br, locked, fills, rem, emitted, at, queue>>
  BY DEF Finish
<1>2. taker \in Orders /\ rem[taker] \in Nat /\ OrderOf[taker].kind = "limit"
  BY <1>1 DEF TypeOK, TypeEngine, Plain
<1>3. Once(resting') /\ ToSet(resting') = IF rem[taker] > 0 THEN ToSet(resting) \cup {taker} ELSE ToSet(resting)
  <2>1. resting \in Seq(Orders) /\ Once(resting) /\ taker \notin ToSet(resting)
    BY DEF TypeOK, TypeEngine, LockInv, Placed
  <2>2. Once(Append(resting, taker)) /\ ToSet(Append(resting, taker)) = ToSet(resting) \cup {taker}
    BY <1>2, <2>1, OnceAppend
  <2> QED
    BY <1>1, <1>2, <2>1, <2>2
<1>4. \A p \in Orders : p # None
  BY OrderType DEF None
<1>5. /\ \A p \in Orders : Booked(p)' => Booked(p)
      /\ \A p \in Orders : rem[p] > 0 => (Booked(p)' <=> Booked(p))
  BY <1>1, <1>3, <1>4 DEF Booked
<1>6. Placed'
  <2>1. /\ ToSet(queue') \cap ToSet(resting') = {} /\ taker' \notin ToSet(queue') /\ taker' \notin ToSet(resting')
    <3>1. ToSet(queue) \subseteq Orders /\ ToSet(resting) \subseteq Orders
      BY BookOrders
    <3> QED
      BY <1>1, <1>3, <1>4, <3>1 DEF LockInv, Placed
  <2>2. ASSUME NEW p \in Orders
        PROVE  /\ Booked(p)' => at'[p] = "accepted"
               /\ p \in ToSet(queue') \/ p \in ToSet(resting') => rem[p] > 0
    BY <1>1, <1>3, <1>5 DEF LockInv, Placed
  <2> QED
    BY <1>1, <1>3, <2>1, <2>2 DEF LockInv, Placed
<1>7. \A p \in Orders : (Open(p)' <=> Open(p))
  BY <1>1, <1>5 DEF Open, Alive, InHand, InChannel
<1> QED
  BY <1>1, <1>6, <1>7, LockPlaces

-----------------------------------------------------------------------------
(***************************************************************************)
(* Orders, when they are given up.                                         *)
(***************************************************************************)
\* A fill is sound as long as its parties stay accepted.
LEMMA CrossesSame ==
  ASSUME TypeOK, UNCHANGED deployment, \A p \in Orders : at[p] = "accepted" => at'[p] = "accepted",
         NEW f \in FillType, Crosses(f)
  PROVE  Crosses(f)'
<1>1. f.taker \in Orders /\ f.maker \in Orders
  BY DEF FillType
<1> QED
  BY <1>1, PlainFrame DEF Crosses

\* Nothing is released, settled or traded in the step: an order may cease to be open.
BridgeOn ==
  \/ br' = br
  \/ br.at \in {"taker", "maker"} /\ br'.at \in {"maker", "idle"} /\ (br'.at = "idle" \/ br'.fill = br.fill)

LEMMA LockGoesOn ==
  ASSUME TypeOK, TypeOK', LockInv, UNCHANGED <<deployment, amounts, res, locked, fills, rem, emitted>>, BridgeOn,
         \A p \in Orders : /\ at'[p] \in {"new", "track"} <=> at[p] \in {"new", "track"}
                           /\ at[p] = "accepted" => at'[p] = "accepted"
                           /\ Open(p)' => Open(p)
                           /\ InHand(p)' => InHand(p),
         \A s \in Threads : /\ rel'[s].at = "unlock" <=> rel[s].at = "unlock"
                            /\ rel[s].at = "unlock" => rel'[s] = rel[s]
  PROVE  /\ Traded' /\ EndsOnce' /\ Owned' /\ Covered' /\ Backed'
         /\ \A p \in Orders : UnlockingFor(p)' = UnlockingFor(p) /\ Left(p)' = Left(p)
<1>0. Orders' = Orders /\ Threads' = Threads
  BY PlainFrame
<1>1. Traded'
  <2>1. /\ \A i \in 1..Len(fills) : fills[i] \in FillType /\ Crosses(fills[i])
        /\ br.at # "idle" => br.fill \in FillType /\ Crosses(br.fill)
    BY FillsTyped DEF LockInv, Traded
  <2>2. \A i \in 1..Len(fills) : Crosses(fills[i])'
    BY <2>1, CrossesSame
  <2>3. br'.at # "idle" => br.at # "idle" /\ br'.fill = br.fill
    BY DEF BridgeOn
  <2>4. ASSUME br'.at # "idle"
        PROVE  Crosses(br.fill)'
    <3>1. PICK f \in FillType : f = br.fill /\ f = br'.fill /\ Crosses(f)
      BY <2>1, <2>3, <2>4
    <3>2. Crosses(f)'
      BY <3>1, CrossesSame
    <3> QED
      BY <3>1, <3>2 DEF Crosses
  <2> QED
    BY <2>2, <2>4 DEF Traded
<1>2. EndsOnce'
  BY <1>0 DEF LockInv, EndsOnce, InChannel
<1>3. \A p \in Orders, i \in Nat : (Holds(p, i)' <=> Holds(p, i))
  <2> SUFFICES ASSUME NEW p \in Orders, NEW i \in Nat
               PROVE  (Holds(p, i)' <=> Holds(p, i))
    OBVIOUS
  <2>1. (\E t \in Threads : rel'[t].at = "unlock" /\ rel'[t].order = p /\ rel'[t].ref = i)
          <=> (\E t \in Threads : rel[t].at = "unlock" /\ rel[t].order = p /\ rel[t].ref = i)
    OBVIOUS
  <2>2. CASE br' = br
    <3>1. \A s : Party(br.fill, s)' = Party(br.fill, s)
      BY <2>2, PlainFrame
    <3>2. Lent(p, i)' <=> Lent(p, i)
      BY <1>0, <2>1, <2>2, <3>1 DEF Lent
    <3> QED
      BY <1>0, <3>2 DEF Holds
  <2>3. CASE br' # br
    <3>1. br'.at \notin {"settle", "restore"} /\ br.at \notin {"settle", "restore"}
      BY <2>3 DEF BridgeOn
    <3> QED
      BY <1>0, <2>1, <3>1 DEF Holds, Lent
  <2> QED
    BY <2>2, <2>3
<1>4. Owned'
  <2>1. \A p, q \in Orders : \A i \in Nat : Holds(p, i)' /\ Holds(q, i)' => p = q
    BY <1>3 DEF LockInv, Owned
  <2>2. \A p \in Orders : \A i, j \in Nat : Holds(p, i)' /\ Holds(p, j)' => i = j
    BY <1>3 DEF LockInv, Owned
  <2>3. \A p \in Orders : \A i \in Nat : at'[p] \in {"new", "track"} => ~Holds(p, i)'
    BY <1>3 DEF LockInv, Owned
  <2>4. \A p \in Orders, t \in Threads : rel'[t].at = "unlock" /\ rel'[t].order = p => res'[p] = 0
    BY DEF LockInv, Owned
  <2> QED
    BY <1>0, <2>1, <2>2, <2>3, <2>4 DEF Owned
<1>5. \A p : Left(p)' = Left(p)
  BY DEF Left
<1>6. Covered'
  <2>1. \A p : InDebit(p)' = InDebit(p)
    BY PlainFrame DEF BridgeOn, InDebit
  <2>2. \A p : Needs(p)' = Needs(p)
    BY PlainFrame DEF Needs, Notional
  <2>3. \A w, p : (Covers(w, p)' <=> Covers(w, p))
    BY <1>5, <2>1, <2>2, PlainFrame DEF Covers
  <2> QED
    BY <1>0, <2>3 DEF LockInv, Covered
<1>7. Backed'
  <2>1. CASE br' = br
    BY <2>1, LockFrame
  <2>2. CASE br' # br
    BY <2>2 DEF BridgeOn, Backed
  <2> QED
    BY <2>1, <2>2
<1>8. \A p \in Orders : UnlockingFor(p)' = UnlockingFor(p)
  BY PlainFrame DEF UnlockingFor, BridgeOn
<1> QED
  BY <1>1, <1>2, <1>4, <1>5, <1>6, <1>7, <1>8

\* Somebody begins to release an order that is no longer open.
LEMMA LockLetsGo ==
  ASSUME TypeOK, TypeOK', LockInv, UNCHANGED <<deployment, amounts, res, locked, fills, rem, emitted>>, BridgeOn,
         NEW o \in Orders, NEW t \in {o, Bridge}, rel[t] = NotReleasing, rel' = [rel EXCEPT ![t] = Releasing(o)],
         Open(o), ~Open(o)', \A p \in Orders \ {o} : (Open(p)' <=> Open(p)),
         at[o] \notin {"new", "track"}, t = Bridge => br'.at \notin Working,
         t # Bridge => br' = br,
         \A p \in Orders : /\ at'[p] = "new" <=> at[p] = "new"
                           /\ at'[p] = "track" <=> at[p] = "track"
                           /\ at[p] = "accepted" => at'[p] = "accepted"
                           /\ InHand(p)' => InHand(p),
         PlainSteps', Placed'
  PROVE  LockInv'
<1>0. Orders' = Orders /\ Threads' = Threads /\ t \in Threads /\ Bridge \notin Orders
  BY PlainFrame, OrderType DEF Threads, Bridge
<1>1. /\ rel'[t] = Releasing(o) /\ \A s \in Threads \ {t} : rel'[s] = rel[s]
      /\ rel[t].at = "none" /\ rel[t].order \notin Orders
      /\ rel'[t].at = "take" /\ rel'[t].order = o
  BY <1>0, OrderType DEF TypeOK, TypeRefs, Releasing, NotReleasing, None
<1>2. /\ Traded' /\ EndsOnce' /\ Owned' /\ Covered' /\ Backed'
      /\ \A p \in Orders : UnlockingFor(p)' = UnlockingFor(p) /\ Left(p)' = Left(p)
  BY <1>1, LockGoesOn
<1>3. \A s \in Threads : rel[s].order # o
  BY DEF LockInv, Releasers
<1>4. Releasers'
  <2>1. \A p \in Orders, s \in Threads : rel'[s].order = p => ~Open(p)' /\ at'[p] \notin {"new", "track"}
    BY <1>1, <1>3 DEF LockInv, Releasers
  <2>2. \A r, s \in Threads : rel'[r].order = rel'[s].order /\ rel'[r].order \in Orders => r = s
    BY <1>1, <1>3 DEF LockInv, Releasers
  <2>3. \A s \in Orders : rel'[s].order \in Orders => rel'[s].order = s
    BY <1>0, <1>1 DEF LockInv, Releasers, Threads
  <2>4. br'.at \in Working => rel'[Bridge] = NotReleasing
    BY <1>0, <1>1 DEF LockInv, Releasers, Threads
  <2> QED
    BY <1>0, <2>1, <2>2, <2>3, <2>4 DEF Releasers
<1>5. Found'
  <2>1. \A p \in Orders, s \in Threads : rel[s].at = "take" /\ rel[s].order = p
                                          => rel'[s].at = "take" /\ rel'[s].order = p
    BY <1>1
  <2> QED
    BY <1>0, <1>1, <2>1, PlainFrame DEF LockInv, Found
<1>6. LocksAddUp'
  <2>1. \A p \in Orders \ {o} : ReleasedFor(p)' = ReleasedFor(p)
    <3> SUFFICES ASSUME NEW p \in Orders \ {o} PROVE ReleasedFor(p)' = ReleasedFor(p)
      OBVIOUS
    <3>1. \A s \in Threads : rel'[s].order = p <=> rel[s].order = p
      BY <1>1
    <3>2. \A s \in Threads : rel[s].order = p => ReleasedBy'[s] = ReleasedBy[s]
      BY <1>0, <1>1 DEF ReleasedBy
    <3> QED
      BY <3>1, <3>2, ReleasedSame
  <2>2. ReleasedFor(o) = 0
    BY <1>3, AccountRules DEF ReleasedRules
  <2>3. ReleasedFor(o)' = 0
    BY <1>0, <1>1, <1>3, AccountRulesNext DEF ReleasedRules
  <2>4. \A p \in Orders : TrackedFor(p)' = TrackedFor(p)
    BY PlainFrame DEF TrackedFor
  <2> QED
    BY <1>2, <2>1, <2>2, <2>3, <2>4, LocksSame
<1> QED
  BY <1>2, <1>4, <1>5, <1>6 DEF LockInv

\* Who might release an order that is open has nothing to release.
LEMMA NothingToRelease ==
  ASSUME TypeOK, LockInv, NEW o \in Orders, Open(o)
  PROVE  rel[o] = NotReleasing
<1>1. o \in Threads
  BY DEF Threads
<1>2. rel[o].order \notin Orders
  BY <1>1 DEF LockInv, Releasers
<1> QED
  BY <1>1, <1>2 DEF TypeOK, TypeRefs, ReleaseType

\* An order is refused.
LEMMA LockRefuse ==
  ASSUME TypeOK, TypeOK', LockInv, UNCHANGED deployment, NEW o \in Orders, Refuse(o)
  PROVE  LockInv'
<1> USE PlainFrame
<1>1. /\ at[o] = "submit" /\ at' = [at EXCEPT ![o] = "refused"] /\ rel' = [rel EXCEPT ![o] = Releasing(o)]
      /\ UNCHANGED <<amounts, res, locked, fills, rem, emitted, queue, taker, resting, br>>
  BY DEF Refuse
<1>2. at'[o] = "refused" /\ \A p \in Orders \ {o} : at'[p] = at[p]
  BY <1>1 DEF TypeOK
<1>3. ~Booked(o) /\ ~InHand(o) /\ ~InChannel(o) /\ Open(o)
  BY <1>1, Fresh
<1>4. rel[o] = NotReleasing
  BY <1>3, NothingToRelease
<1>5. \A p : (Booked(p)' <=> Booked(p)) /\ (InHand(p)' <=> InHand(p)) /\ (InChannel(p)' <=> InChannel(p))
  BY <1>1 DEF Booked, InHand, InChannel
<1>6. ~Open(o)' /\ \A p \in Orders \ {o} : (Open(p)' <=> Open(p))
  BY <1>1, <1>2, <1>3, <1>5 DEF Open, Alive
<1>7. Placed'
  BY <1>1, <1>2, <1>3, <1>5 DEF LockInv, Placed
<1>8. PlainSteps'
  BY <1>1 DEF LockInv, PlainSteps, Releasing
<1>9. o # Bridge
  BY OrderType DEF Bridge
<1> QED
  BY <1>1, <1>2, <1>3, <1>4, <1>5, <1>6, <1>7, <1>8, <1>9, LockLetsGo DEF BridgeOn

\* An order is cancelled.
LEMMA LockCancel ==
  ASSUME TypeOK, TypeOK', LockInv, UNCHANGED deployment, NEW o \in Orders, Cancel(o)
  PROVE  LockInv'
<1> USE PlainFrame
<1>1. /\ taker = None /\ o \in ToSet(resting) /\ resting' = Without(o) /\ rel' = [rel EXCEPT ![o] = Releasing(o)]
      /\ UNCHANGED <<amounts, res, locked, fills, rem, emitted, queue, taker, at, br>>
  BY DEF Cancel
<1>2. Once(resting') /\ ToSet(resting') = ToSet(resting) \ {o}
  BY <1>1, OnceWithout DEF LockInv, Placed
<1>3. Booked(o) /\ rem[o] > 0 /\ at[o] = "accepted" /\ o \notin ToSet(queue) /\ o # None
  BY <1>1, OrderType DEF LockInv, Placed, Booked, None
<1>4. Open(o) /\ ~InHand(o) /\ ~InChannel(o)
  BY <1>3, OrderType DEF Open, Alive, LockInv, EndsOnce
<1>5. rel[o] = NotReleasing
  BY <1>4, NothingToRelease
<1>6. \A p : (InHand(p)' <=> InHand(p)) /\ (InChannel(p)' <=> InChannel(p))
  BY <1>1 DEF InHand, InChannel
<1>7. ~Booked(o)' /\ \A p : p # o => (Booked(p)' <=> Booked(p))
  BY <1>1, <1>2, <1>3 DEF Booked
<1>8. ~Open(o)' /\ \A p \in Orders \ {o} : (Open(p)' <=> Open(p))
  BY <1>1, <1>3, <1>4, <1>6, <1>7 DEF Open, Alive
<1>9. Placed'
  BY <1>1, <1>2, <1>7 DEF LockInv, Placed
<1>10. PlainSteps'
  BY <1>1 DEF LockInv, PlainSteps, Releasing
<1>11. o # Bridge
  BY OrderType DEF Bridge
<1> QED
  BY <1>1, <1>3, <1>4, <1>5, <1>6, <1>8, <1>9, <1>10, <1>11, LockLetsGo DEF BridgeOn

\* The bridge goes on with nobody to release.
LEMMA LockKeeps ==
  ASSUME TypeOK, TypeOK', LockInv, BridgeOn, \A p \in Orders : (Open(p)' <=> Open(p)) /\ (InHand(p)' => InHand(p)),
         UNCHANGED <<deployment, amounts, res, locked, fills, rem, emitted, rel, at, queue, taker, resting>>,
         br'.at \notin Working, PlainSteps'
  PROVE  LockInv'
<1>1. Placed'
  BY LockFrame DEF BookVars
<1>2. /\ Traded' /\ EndsOnce' /\ Owned' /\ Covered' /\ Backed'
      /\ \A p \in Orders : UnlockingFor(p)' = UnlockingFor(p) /\ Left(p)' = Left(p)
  BY LockGoesOn
<1>3. Releasers'
  BY PlainFrame DEF LockInv, Releasers
<1>4. Found'
  BY PlainFrame DEF LockInv, Found
<1>5. \A p \in Orders : ReleasedFor(p)' = ReleasedFor(p) /\ TrackedFor(p)' = TrackedFor(p)
  BY ReleasesSame, PlainFrame DEF TrackedFor
<1>6. LocksAddUp'
  BY <1>2, <1>5, LocksSame
<1> QED
  BY <1>1, <1>2, <1>3, <1>4, <1>6 DEF LockInv

\* The bridge releases what a filled order has left: the taker's, then the maker's.
LEMMA LockBridgeReleases ==
  ASSUME TypeOK, TypeOK', LockInv, UNCHANGED deployment, BridgeReleaseTaker \/ BridgeReleaseMaker
  PROVE  LockInv'
<1>1. /\ UNCHANGED <<amounts, res, locked, fills, rem, emitted, at, queue, taker, resting>>
      /\ br.at \in {"taker", "maker"} /\ rel[Bridge] = NotReleasing
  BY DEF BridgeReleaseTaker, BridgeReleaseMaker, LockInv, Releasers, Working
<1>2. PICK f \in FillType : f = br.fill /\ Crosses(f) /\ f.taker \in Orders /\ f.maker \in Orders /\ f.taker # f.maker
  BY <1>1, FillsTyped, CrossParties DEF LockInv, Traded, FillType
<1>3. \A p : (Booked(p)' <=> Booked(p)) /\ (Alive(p)' <=> Alive(p)) /\ (InChannel(p)' <=> InChannel(p))
  BY <1>1 DEF Booked, Alive, InChannel
<1>4. Placed'
  BY <1>1, LockFrame DEF BookVars
<1>5. \A p \in Orders : InHand(p) => Open(p) /\ ~Alive(p) /\ ~InChannel(p) /\ at[p] = "accepted"
  <2> SUFFICES ASSUME NEW p \in Orders, InHand(p)
               PROVE  Open(p) /\ ~Alive(p) /\ ~InChannel(p) /\ at[p] = "accepted"
    OBVIOUS
  <2>1. rem[p] = 0 /\ ~InChannel(p)
    BY DEF LockInv, EndsOnce
  <2>2. at[p] = "accepted"
    BY Fresh
  <2> QED
    BY <2>1, <2>2 DEF Open, Alive
<1>6. CASE BridgeReleaseTaker
  <2>1. /\ br.at = "taker" /\ br' = [br EXCEPT !.at = "maker"]
        /\ rel' = [rel EXCEPT ![Bridge] = IF f.takerDone THEN Releasing(f.taker) ELSE @]
    BY <1>2, <1>6 DEF BridgeReleaseTaker
  <2>2. br'.at = "maker" /\ br'.fill = f /\ br'.loaded = br.loaded
    BY <1>2, <2>1 DEF TypeOK, TypeBridge
  <2>3. BridgeOn /\ br'.at \notin Working
    BY <1>2, <2>1, <2>2 DEF BridgeOn, Working
  <2>4. /\ \A p : InHand(p)' <=> p = f.maker /\ f.makerDone
        /\ \A p : InHand(p) <=> (p = f.taker /\ f.takerDone) \/ (p = f.maker /\ f.makerDone)
    BY <1>2, <2>1, <2>2 DEF InHand, Working, Ends
  <2>5. CASE f.takerDone
    <3>1. rel' = [rel EXCEPT ![Bridge] = Releasing(f.taker)]
      BY <2>1, <2>5
    <3>2. InHand(f.taker) /\ ~InHand(f.taker)' /\ \A p : p # f.taker => (InHand(p)' <=> InHand(p))
      BY <1>2, <2>4, <2>5
    <3>3. ~Open(f.taker)' /\ \A p \in Orders \ {f.taker} : (Open(p)' <=> Open(p))
      BY <1>2, <1>3, <1>5, <3>2 DEF Open
    <3>4. PlainSteps'
      BY <2>2, <3>1, PlainFrame DEF LockInv, PlainSteps, Releasing
    <3>5. at[f.taker] \notin {"new", "track"} /\ Open(f.taker) /\ \A p : InHand(p)' => InHand(p)
      BY <1>2, <1>5, <3>2
    <3> QED
      BY <1>1, <1>2, <1>4, <2>3, <3>1, <3>3, <3>4, <3>5, OrderType, LockLetsGo DEF Bridge
  <2>6. CASE ~f.takerDone
    <3>1. rel' = rel
      BY <2>1, <2>6 DEF TypeOK, TypeRefs
    <3>2. \A p : (InHand(p)' <=> InHand(p))
      BY <2>4, <2>6
    <3>3. PlainSteps'
      BY <2>2, <3>1, PlainFrame DEF LockInv, PlainSteps
    <3> QED
      BY <1>1, <1>3, <2>3, <3>1, <3>2, <3>3, LockKeeps DEF Open
  <2> QED
    BY <2>5, <2>6
<1>7. CASE BridgeReleaseMaker
  <2>1. /\ br.at = "maker" /\ br' = Idle
        /\ rel' = [rel EXCEPT ![Bridge] = IF f.makerDone THEN Releasing(f.maker) ELSE @]
    BY <1>2, <1>7 DEF BridgeReleaseMaker
  <2>2. br'.at = "idle" /\ br'.loaded = [s \in Sides |-> None]
    BY <2>1 DEF Idle, Sides
  <2>3. BridgeOn /\ br'.at \notin Working
    BY <1>2, <2>1, <2>2 DEF BridgeOn, Working
  <2>4. /\ \A p : ~InHand(p)'
        /\ \A p : InHand(p) <=> p = f.maker /\ f.makerDone
    BY <1>2, <2>1, <2>2 DEF InHand, Working
  <2>5. CASE f.makerDone
    <3>1. rel' = [rel EXCEPT ![Bridge] = Releasing(f.maker)]
      BY <2>1, <2>5
    <3>2. InHand(f.maker) /\ ~InHand(f.maker)' /\ \A p : p # f.maker => (InHand(p)' <=> InHand(p))
      BY <1>2, <2>4, <2>5
    <3>3. ~Open(f.maker)' /\ \A p \in Orders \ {f.maker} : (Open(p)' <=> Open(p))
      BY <1>2, <1>3, <1>5, <3>2 DEF Open
    <3>4. PlainSteps'
      BY <2>2, <3>1, PlainFrame DEF LockInv, PlainSteps, Releasing
    <3>5. at[f.maker] \notin {"new", "track"} /\ Open(f.maker) /\ \A p : InHand(p)' => InHand(p)
      BY <1>2, <1>5, <3>2
    <3> QED
      BY <1>1, <1>2, <1>4, <2>3, <3>1, <3>3, <3>4, <3>5, OrderType, LockLetsGo DEF Bridge
  <2>6. CASE ~f.makerDone
    <3>1. rel' = rel
      BY <2>1, <2>6 DEF TypeOK, TypeRefs
    <3>2. \A p : (InHand(p)' <=> InHand(p))
      BY <2>4, <2>6
    <3>3. PlainSteps'
      BY <2>2, <3>1, PlainFrame DEF LockInv, PlainSteps
    <3> QED
      BY <1>1, <1>3, <2>3, <3>1, <3>2, <3>3, LockKeeps DEF Open
  <2> QED
    BY <2>5, <2>6
<1> QED
  BY <1>6, <1>7

-----------------------------------------------------------------------------
(***************************************************************************)
(* Releasing.                                                              *)
(***************************************************************************)
\* Whoever releases an order has its reservation alone, and goes on with it or is done.
LEMMA LockHandsOver ==
  ASSUME TypeOK, TypeOK', LockInv, NEW t \in Threads, NEW o \in Orders, rel[t].order = o,
         UNCHANGED <<deployment, amounts, fills, rem, emitted, at, queue, taker, resting, br>>,
         \A s \in Threads \ {t} : rel'[s] = rel[s],
         \/ rel'[t] = NotReleasing
         \/ rel'[t].at = "unlock" /\ rel'[t].order = o /\ rel'[t].ref = res[o] /\ res[o] # 0,
         res'[o] = 0, \A p \in Orders \ {o} : res'[p] = res[p]
  PROVE  /\ PlainSteps' /\ Placed' /\ Traded' /\ EndsOnce' /\ Releasers' /\ Owned' /\ Covered' /\ Backed' /\ Found'
         /\ \A s \in Threads \ {t} : rel[s].order # o
<1>0. Orders' = Orders /\ Threads' = Threads
  BY PlainFrame
<1>1. Placed' /\ Traded' /\ EndsOnce' /\ \A p : Open(p)' <=> Open(p)
  BY LockFrame DEF BookVars, OpenVars
<1>2. ~Open(o) /\ at[o] \notin {"new", "track"} /\ \A s \in Threads \ {t} : rel[s].order # o
  BY DEF LockInv, Releasers
<1>3. rel'[t].order = o \/ rel'[t].order \notin Orders
  BY OrderType DEF NotReleasing, None
<1>4. PlainSteps'
  BY <1>0 DEF LockInv, PlainSteps, NotReleasing
<1>5. Releasers'
  <2>1. \A p \in Orders, s \in Threads : rel'[s].order = p => ~Open(p)' /\ at'[p] \notin {"new", "track"}
    BY <1>1, <1>2, <1>3 DEF LockInv, Releasers
  <2>2. \A r, s \in Threads : rel'[r].order = rel'[s].order /\ rel'[r].order \in Orders => r = s
    BY <1>2, <1>3 DEF LockInv, Releasers
  <2>3. \A s \in Orders : rel'[s].order \in Orders => rel'[s].order = s
    BY <1>3 DEF LockInv, Releasers, Threads
  <2>4. br'.at \in Working => rel'[Bridge] = NotReleasing
    <3>1. t = Bridge => br.at \notin Working
      BY OrderType DEF LockInv, Releasers, NotReleasing, None
    <3> QED
      BY <3>1 DEF LockInv, Releasers, Threads
  <2> QED
    BY <1>0, <2>1, <2>2, <2>3, <2>4 DEF Releasers
<1>6. \A p \in Orders, i \in Nat : Holds(p, i)' => Holds(p, i)
  <2> SUFFICES ASSUME NEW p \in Orders, NEW i \in Nat, Holds(p, i)'
               PROVE  Holds(p, i)
    OBVIOUS
  <2>1. i # 0 /\ (res'[p] = i \/ Lent(p, i)')
    BY DEF Holds
  <2>2. CASE res'[p] = i
    BY <2>1, <2>2 DEF Holds
  <2>3. CASE Lent(p, i)'
    <3>1. CASE \E s \in Threads \ {t} : rel[s].at = "unlock" /\ rel[s].order = p /\ rel[s].ref = i
      BY <2>1, <3>1 DEF Holds, Lent
    <3>2. CASE rel'[t].at = "unlock" /\ rel'[t].order = p /\ rel'[t].ref = i
      BY <2>1, <3>2 DEF Holds, NotReleasing
    <3>3. CASE br'.at \in {"settle", "restore"} /\ \E s \in Sides : Party(br.fill, s)' = p /\ br'.ref[s] = i
      <4>1. \A s \in Sides : Party(br.fill, s)' = Party(br.fill, s)
        BY PlainFrame
      <4> QED
        BY <2>1, <3>3, <4>1 DEF Holds, Lent
    <3> QED
      BY <1>0, <2>3, <3>1, <3>2, <3>3 DEF Lent
  <2> QED
    BY <2>1, <2>2, <2>3
<1>7. Owned'
  <2>1. \A p, q \in Orders : \A i \in Nat : Holds(p, i)' /\ Holds(q, i)' => p = q
    BY <1>6 DEF LockInv, Owned
  <2>2. \A p \in Orders : \A i, j \in Nat : Holds(p, i)' /\ Holds(p, j)' => i = j
    BY <1>6 DEF LockInv, Owned
  <2>3. \A p \in Orders : \A i \in Nat : at'[p] \in {"new", "track"} => ~Holds(p, i)'
    BY <1>6 DEF LockInv, Owned
  <2>4. \A p \in Orders, s \in Threads : rel'[s].at = "unlock" /\ rel'[s].order = p => res'[p] = 0
    BY DEF LockInv, Owned, NotReleasing
  <2> QED
    BY <1>0, <2>1, <2>2, <2>3, <2>4 DEF Owned
<1>8. Covered'
  <2>1. \A p \in Orders \ {o} : Left(p)' = Left(p)
    BY DEF Left
  <2>2. \A w : \A p \in Orders \ {o} : Covers(w, p)' <=> Covers(w, p)
    BY <2>1, CoversSame
  <2> QED
    BY <1>0, <1>1, <1>2, <2>2 DEF LockInv, Covered
<1>9. Backed'
  <2> SUFFICES ASSUME br.at \in {"settle", "restore"}
               PROVE  Backed'
    BY DEF Backed
  <2>1. \A s \in Sides : BackedBy(s, Party(br.fill, s)) => BackedBy(s, Party(br.fill, s))'
    <3> SUFFICES ASSUME NEW s \in Sides, BackedBy(s, Party(br.fill, s))
                 PROVE  BackedBy(s, Party(br.fill, s))'
      OBVIOUS
    <3>1. Party(br.fill, s) \in Orders /\ Party(br.fill, s)' = Party(br.fill, s) /\ Wanted(br.fill, s)' = Wanted(br.fill, s)
      BY FillsTyped, FillMoves, PlainFrame
    <3>2. CASE Party(br.fill, s) = o
      <4>1. ~Ends(br.fill, o)
        BY <1>2 DEF Open, InHand, Working
      <4> QED
        BY <3>1, <3>2, <4>1 DEF BackedBy, Ends
    <3>3. CASE Party(br.fill, s) # o
      BY <3>1, <3>3 DEF BackedBy, Ends
    <3> QED
      BY <3>2, <3>3
  <2>2. \A s \in Sides : (br.ref[s] = 0 /\ ~Ends(br.fill, Party(br.fill, s)))
                           => (br'.ref[s] = 0 /\ ~Ends(br'.fill, Party(br.fill, s)'))
    BY PlainFrame DEF Ends
  <2> QED
    BY <2>1, <2>2 DEF LockInv, Backed, Ends
<1>10. Found'
  <2>1. \A p \in Orders \ {o} : (\E s \in Threads : rel[s].at = "take" /\ rel[s].order = p)
                                  => \E s \in Threads : rel'[s].at = "take" /\ rel'[s].order = p
    BY <1>2
  <2> QED
    BY <1>0, <1>1, <2>1, PlainFrame DEF LockInv, Found
<1> QED
  BY <1>1, <1>2, <1>4, <1>5, <1>7, <1>8, <1>9, <1>10

\* What others release, and who is alone in releasing an order.
LEMMA ReleasedElsewhere ==
  ASSUME TypeOK, TypeOK', UNCHANGED <<deployment, amounts>>, NEW t \in Threads, NEW o \in Orders, rel[t].order = o,
         \A s \in Threads \ {t} : rel'[s] = rel[s] /\ rel[s].order # o,
         rel'[t].order = o \/ rel'[t].order \notin Orders
  PROVE  /\ \A p \in Orders \ {o} : ReleasedFor(p)' = ReleasedFor(p)
         /\ ReleasedFor(o) = ReleasedBy[t] /\ ReleasedBy[t] \in Nat
         /\ rel'[t].order = o => ReleasedFor(o)' = ReleasedBy'[t]
         /\ rel'[t].order # o => ReleasedFor(o)' = 0
<1>0. Orders' = Orders /\ Threads' = Threads
  BY PlainFrame
<1>1. ASSUME NEW p \in Orders \ {o}
      PROVE  ReleasedFor(p)' = ReleasedFor(p)
  <2>1. \A s \in Threads : rel'[s].order = p <=> rel[s].order = p
    OBVIOUS
  <2>2. \A s \in Threads : rel[s].order = p => ReleasedBy'[s] = ReleasedBy[s]
    BY <1>0 DEF ReleasedBy
  <2> QED
    BY <2>1, <2>2, ReleasedSame
<1>2. ReleasedFor(o) = ReleasedBy[t]
  <2>1. ReleasersOf(o) = {t}
    BY DEF ReleasersOf
  <2> QED
    BY <2>1, AccountRules DEF ReleasedRules
<1>3. ReleasedBy[t] \in Nat
  BY <1>2, AccountRules DEF ReleasedRules
<1>4. ASSUME rel'[t].order = o PROVE ReleasedFor(o)' = ReleasedBy'[t]
  <2>1. ReleasersOf(o)' = {t}
    BY <1>0, <1>4 DEF ReleasersOf
  <2> QED
    BY <1>0, <2>1, AccountRulesNext DEF ReleasedRules
<1>5. ASSUME rel'[t].order # o PROVE ReleasedFor(o)' = 0
  <2>1. \A s \in Threads : rel'[s].order # o
    BY <1>5
  <2> QED
    BY <1>0, <2>1, AccountRulesNext DEF ReleasedRules
<1> QED
  BY <1>1, <1>2, <1>3, <1>4, <1>5

\* A reservation is taken out of the map.
LEMMA LockReleaseTake ==
  ASSUME TypeOK, TypeOK', Plain, LockInv, UNCHANGED deployment, NEW t \in Threads, ReleaseTake(t)
  PROVE  LockInv'
<1>0. Orders' = Orders /\ Threads' = Threads
  BY PlainFrame
<1>1. /\ rel[t].at = "take" /\ UNCHANGED <<locked, fills, rem, emitted, at, queue, taker, resting, br>>
  BY DEF ReleaseTake
<1>2. PICK o \in Orders : o = rel[t].order
  <2>1. rel[t].at # "none" => rel[t].order \in Orders
    BY DEF TypeOK, TypeRefs, NotReleasing, ReleaseType
  <2> QED
    BY <1>1, <2>1
<1>3. PICK n \in Nat : n = res[o] /\ n <= Len(amounts) /\ (n # 0 => amounts[n] \in Nat)
  <2>1. res[o] \in Nat /\ res[o] <= Len(amounts) /\ amounts \in Seq(Nat)
    BY DEF TypeOK, TypeRefs
  <2>2. res[o] # 0 => amounts[res[o]] \in Nat
    BY <2>1
  <2> QED
    BY <2>1, <2>2
<1>4. /\ amounts' = amounts /\ res' = [res EXCEPT ![o] = 0]
      /\ rel' = [rel EXCEPT ![t] = IF n = 0 \/ amounts[n] = 0 THEN NotReleasing
                                   ELSE [at |-> "unlock", order |-> o, ref |-> n]]
  BY <1>2, <1>3 DEF ReleaseTake, Plain
<1>5. /\ \A s \in Threads \ {t} : rel'[s] = rel[s]
      /\ rel'[t] = IF n = 0 \/ amounts[n] = 0 THEN NotReleasing ELSE [at |-> "unlock", order |-> o, ref |-> n]
      /\ res'[o] = 0 /\ \A p \in Orders \ {o} : res'[p] = res[p]
  BY <1>4 DEF TypeOK, TypeRefs
<1>6. /\ PlainSteps' /\ Placed' /\ Traded' /\ EndsOnce' /\ Releasers' /\ Owned' /\ Covered' /\ Backed' /\ Found'
      /\ \A s \in Threads \ {t} : rel[s].order # o
  <2>1. \/ rel'[t] = NotReleasing
        \/ rel'[t].at = "unlock" /\ rel'[t].order = o /\ rel'[t].ref = res[o] /\ res[o] # 0
    BY <1>3, <1>5
  <2> QED
    BY <1>1, <1>2, <1>4, <1>5, <2>1, LockHandsOver
<1>7. rel'[t].order = o \/ rel'[t].order \notin Orders
  BY <1>5, OrderType DEF NotReleasing, None
<1>8. /\ \A p \in Orders \ {o} : ReleasedFor(p)' = ReleasedFor(p)
      /\ ReleasedFor(o) = ReleasedBy[t]
      /\ rel'[t].order = o => ReleasedFor(o)' = ReleasedBy'[t]
      /\ rel'[t].order # o => ReleasedFor(o)' = 0
  BY <1>2, <1>4, <1>5, <1>6, <1>7, ReleasedElsewhere
<1>9. ReleasedFor(o) = 0
  BY <1>1, <1>8 DEF ReleasedBy
<1>10. Left(o)' = 0 /\ Left(o) = (IF n = 0 THEN 0 ELSE amounts[n]) /\ \A p \in Orders \ {o} : Left(p)' = Left(p)
  BY <1>3, <1>4, <1>5 DEF Left
<1>11. ReleasedFor(o)' = Left(o)
  <2>1. CASE n = 0 \/ amounts[n] = 0
    BY <1>5, <1>8, <1>10, <2>1, OrderType DEF NotReleasing, None
  <2>2. CASE ~(n = 0 \/ amounts[n] = 0)
    <3>1. rel'[t] = [at |-> "unlock", order |-> o, ref |-> n]
      BY <1>5, <2>2
    <3>2. ReleasedBy'[t] = amounts[n]
      BY <1>0, <1>4, <3>1 DEF ReleasedBy
    <3> QED
      BY <1>8, <1>10, <2>2, <3>1, <3>2
  <2> QED
    BY <2>1, <2>2
<1>12. LocksAddUp'
  <2>1. \A p \in Orders : /\ TrackedFor(p)' = TrackedFor(p) /\ UnlockingFor(p)' = UnlockingFor(p)
                          /\ UnlockingFor(p) \in Nat /\ TrackedFor(p) \in Nat /\ Left(p) \in Nat
    BY <1>1, PlainFrame, AccountRules DEF TrackedFor, UnlockingFor, ReleasedRules
  <2>2. \A p \in Orders : TrackedFor(p)' + Left(p)' + UnlockingFor(p)' + ReleasedFor(p)'
                            = TrackedFor(p) + Left(p) + UnlockingFor(p) + ReleasedFor(p)
    BY <1>8, <1>9, <1>10, <1>11, <2>1
  <2> QED
    BY <1>1, <2>2, LocksSame
<1> QED
  BY <1>6, <1>12 DEF LockInv

\* What is locked, less a part that is at most what is locked.
LEMMA UnlockedExactly ==
  ASSUME NEW lk \in [Users -> [Assets -> Nat]], NEW u \in Users, NEW a \in Assets, NEW n \in Nat, n <= lk[u][a]
  PROVE  /\ Unlocked(lk, u, a, n) \in [Users -> [Assets -> Nat]]
         /\ \A v \in Users, b \in Assets :
              Unlocked(lk, u, a, n)[v][b] = lk[v][b] + (IF v = u /\ b = a THEN -n ELSE 0)
<1>1. Unlocked(lk, u, a, n) = [lk EXCEPT ![u] = [lk[u] EXCEPT ![a] = lk[u][a] - n]]
  BY DEF Unlocked
<1>2. lk[u] \in [Assets -> Nat] /\ lk[u][a] - n \in Nat /\ lk[u][a] - n = lk[u][a] + (-n)
  OBVIOUS
<1>3. PICK row \in [Assets -> Nat] : row = [lk[u] EXCEPT ![a] = lk[u][a] - n]
  BY <1>2
<1>4. \A b \in Assets : row[b] = lk[u][b] + (IF b = a THEN -n ELSE 0)
  BY <1>2, <1>3
<1>5. \A v \in Users, b \in Assets :
        [lk EXCEPT ![u] = row][v][b] = lk[v][b] + (IF v = u /\ b = a THEN -n ELSE 0)
  BY <1>4
<1> QED
  BY <1>1, <1>3, <1>5

\* What a reservation has left is unlocked.
LEMMA LockReleaseUnlock ==
  ASSUME TypeOK, TypeOK', Plain, LockInv, UNCHANGED deployment, NEW t \in Threads, ReleaseUnlock(t)
  PROVE  LockInv'
<1>0. Orders' = Orders /\ Threads' = Threads
  BY PlainFrame
<1>1. /\ rel[t].at = "unlock" /\ UNCHANGED <<amounts, res, fills, rem, emitted, at, queue, taker, resting, br>>
  BY DEF ReleaseUnlock
<1>2. PICK o \in Orders : o = rel[t].order
  <2>1. rel[t].at # "none" => rel[t].order \in Orders
    BY DEF TypeOK, TypeRefs, NotReleasing, ReleaseType
  <2> QED
    BY <1>1, <2>1
<1>3. PICK n \in Nat : n = amounts[rel[t].ref] /\ n = ReleasedBy[t]
  BY <1>1 DEF TypeOK, TypeRefs, ReleasedBy
<1>4. /\ locked' = Unlocked(locked, UserOf(o), ReservedAsset(o), n)
      /\ rel' = [rel EXCEPT ![t] = NotReleasing]
  BY <1>2, <1>3 DEF ReleaseUnlock, Plain
<1>5. /\ \A s \in Threads \ {t} : rel'[s] = rel[s]
      /\ rel'[t] = NotReleasing
  BY <1>4 DEF TypeOK, TypeRefs
<1>6. res'[o] = 0
  BY <1>1, <1>2 DEF LockInv, Owned
<1>7. /\ PlainSteps' /\ Placed' /\ Traded' /\ EndsOnce' /\ Releasers' /\ Owned' /\ Covered' /\ Backed' /\ Found'
      /\ \A s \in Threads \ {t} : rel[s].order # o
  BY <1>1, <1>2, <1>5, <1>6, LockHandsOver
<1>8. rel'[t].order \notin Orders
  BY <1>5, OrderType DEF NotReleasing, None
<1>9. /\ \A p \in Orders \ {o} : ReleasedFor(p)' = ReleasedFor(p)
      /\ ReleasedFor(o) = n /\ ReleasedFor(o)' = 0
  BY <1>1, <1>2, <1>3, <1>5, <1>7, <1>8, ReleasedElsewhere
<1>10. \A p \in Orders : /\ TrackedFor(p)' = TrackedFor(p) /\ UnlockingFor(p)' = UnlockingFor(p) /\ Left(p)' = Left(p)
  BY <1>1, PlainFrame DEF TrackedFor, UnlockingFor, Left
<1>11. \A p \in Orders : Accounts'[p] = Accounts[p] + (IF p = o THEN -n ELSE 0)
  <2>1. ReleasedRules /\ ReleasedRules'
    BY AccountRules, AccountRulesNext
  <2> SUFFICES ASSUME NEW p \in Orders
               PROVE  Accounts'[p] = Accounts[p] + (IF p = o THEN -n ELSE 0)
    OBVIOUS
  <2>2. /\ Accounts[p] = TrackedFor(p) + Left(p) + UnlockingFor(p) + ReleasedFor(p)
        /\ TrackedFor(p) \in Nat /\ Left(p) \in Nat /\ UnlockingFor(p) \in Nat /\ ReleasedFor(p) \in Nat
        /\ Accounts'[p] = TrackedFor(p)' + Left(p)' + UnlockingFor(p)' + ReleasedFor(p)'
    BY <1>0, <2>1 DEF ReleasedRules
  <2> QED
    BY <1>9, <1>10, <2>2
<1>12. \A u \in Users, a \in Assets :
         locked'[u][a] = locked[u][a] + (IF u = UserOf(o) /\ a = ReservedAsset(o) THEN -n ELSE 0)
  <2>1. n <= locked[UserOf(o)][ReservedAsset(o)]
    <3>1. Accounts[o] <= locked[UserOf(o)][ReservedAsset(o)]
      BY AccountLocked DEF LockInv
    <3>2. /\ Accounts[o] = TrackedFor(o) + Left(o) + UnlockingFor(o) + n
          /\ TrackedFor(o) \in Nat /\ Left(o) \in Nat /\ UnlockingFor(o) \in Nat
      BY <1>9, AccountRules DEF ReleasedRules
    <3>3. locked[UserOf(o)][ReservedAsset(o)] \in Nat
      BY OrderType DEF TypeOK, TypeMoney
    <3> QED
      BY <3>1, <3>2, <3>3
  <2>2. locked \in [Users -> [Assets -> Nat]] /\ UserOf(o) \in Users /\ ReservedAsset(o) \in Assets
    BY OrderType DEF TypeOK, TypeMoney
  <2> QED
    BY <1>4, <2>1, <2>2, UnlockedExactly
<1>13. LocksAddUp'
  <2>1. IntOn(Accounts, Orders) /\ IntOn(Accounts', Orders)
    BY <1>0, AccountRules, AccountRulesNext DEF ReleasedRules, IntOn
  <2>2. Adds(locked', Accounts')
    BY <1>11, <1>12, <2>1, AddsMove DEF LockInv, LocksAddUp
  <2> QED
    BY <2>2, PlainFrame DEF LocksAddUp, Adds, Mine
<1> QED
  BY <1>7, <1>13 DEF LockInv

-----------------------------------------------------------------------------
(***************************************************************************)
(* Trading.                                                                *)
(***************************************************************************)
\* A fill goes to the end of the channel, or is dropped.
LEMMA EmitOne ==
  ASSUME TypeOK, NEW f \in FillType, Len(fills) <= FillCap, NEW e, e = Emit(fills, <<f>>)
  PROVE  /\ \A i \in 1..Len(fills) : e[i] = fills[i]
         /\ Len(fills) < FillCap => Len(e) = Len(fills) + 1 /\ e[Len(fills) + 1] = f
         /\ ~(Len(fills) < FillCap) => Len(e) = Len(fills)
<1>1. PICK n \in Nat : n = Len(fills)
  BY FillsTyped
<1>2. PICK k \in Nat : k = FillCap
  BY CapacityType
<1>3. PICK m : m = Min({k, n + 1})
  OBVIOUS
<1>4. m = (IF n < k THEN n + 1 ELSE n)
  <2>1. k \in Int /\ n + 1 \in Int
    BY <1>1, <1>2
  <2>2. Min({k, n + 1}) \in {k, n + 1} /\ Min({k, n + 1}) <= k /\ Min({k, n + 1}) <= n + 1
    BY <2>1, MinOfTwo
  <2>3. (m = k \/ m = n + 1) /\ m <= k /\ m <= n + 1
    BY <1>3, <2>2
  <2>4. n <= k
    BY <1>1, <1>2
  <2> QED
    BY <1>1, <1>2, <2>3, <2>4
<1>5. fills \in Seq(FillType) /\ <<f>> \in Seq(FillType) /\ Len(<<f>>) = 1 /\ <<f>>[1] = f
  BY DEF TypeOK, TypeEngine
<1>6. PICK all \in Seq(FillType) : all = fills \o <<f>>
  BY <1>5, ConcatProperties
<1>7. Len(all) = n + 1 /\ (\A i \in 1..n : all[i] = fills[i]) /\ all[n + 1] = f
  BY <1>1, <1>5, <1>6, ConcatProperties
<1>8. e = SubSeq(all, 1, m)
  BY <1>1, <1>2, <1>3, <1>5, <1>6 DEF Emit
<1>9. m \in Nat /\ m <= Len(all) /\ n <= m
  BY <1>1, <1>2, <1>4, <1>7
<1>10. Len(e) = m /\ \A i \in 1..m : e[i] = all[i]
  <2>1. \A i \in 1..m : all[i] \in FillType
    BY <1>6, <1>7, <1>9
  <2>2. Len(e) = (IF 1 <= m THEN m - 1 + 1 ELSE 0) /\ \A i \in 1..m - 1 + 1 : e[i] = all[1 + i - 1]
    BY <1>8, <1>9, <2>1, SubSeqProperties
  <2>3. m - 1 + 1 = m /\ \A i \in 1..m : 1 + i - 1 = i
    BY <1>9
  <2> QED
    BY <1>9, <2>2, <2>3
<1> QED
  BY <1>1, <1>2, <1>4, <1>7, <1>9, <1>10

\* What a part of a buy costs at the maker's price is no more than it was reserved for.
LEMMA CostCovered ==
  ASSUME NEW p \in Nat, NEW pm \in Nat, NEW r \in Nat, NEW q \in Nat, NEW fu \in Nat, NEW tr \in Nat, NEW rate \in Nat,
         pm <= p, rate <= tr, q <= r
  PROVE  p * r * (fu + tr) >= p * (r - q) * (fu + tr) + pm * q * (fu + rate)
<1>1. PICK d \in Nat : r = d + q /\ r - q = d
  BY r - q \in Nat
<1>2. PICK F \in Nat : F = fu + tr
  OBVIOUS
<1>3. PICK G \in Nat : G = fu + rate /\ G <= F
  BY <1>2
<1>4. p * (d + q) = p * d + p * q /\ p * d \in Nat /\ p * q \in Nat /\ pm * q \in Nat
  OBVIOUS
<1>5. (p * d + p * q) * F = p * d * F + p * q * F /\ p * d * F \in Nat /\ p * q * F \in Nat
  BY <1>4
<1>6. pm * q <= p * q
  BY <1>4
<1>7. pm * q * G <= p * q * F
  <2>1. PICK A \in Nat : A = pm * q
    BY <1>4
  <2>2. PICK B \in Nat : B = p * q
    BY <1>4
  <2>3. A <= B /\ A * G \in Nat /\ B * G \in Nat /\ B * F \in Nat
    BY <1>6, <2>1, <2>2
  <2>4. A * G <= B * G
    BY <2>3
  <2>5. B * G <= B * F
    BY <1>3, <2>3
  <2> QED
    BY <2>1, <2>2, <2>3, <2>4, <2>5
<1>8. pm * q * G \in Nat
  BY <1>4
<1> QED
  BY <1>1, <1>2, <1>3, <1>4, <1>5, <1>7, <1>8

\* What the engine changes.
TradeOf(x, m, q, f) ==
  /\ x \in Orders /\ m \in Orders /\ q \in Nat /\ f \in FillType
  /\ x = taker /\ m \in ToSet(resting) /\ m # x /\ q > 0 /\ q <= rem[x] /\ q <= rem[m] /\ (q = rem[x] \/ q = rem[m])
  /\ f.taker = x /\ f.maker = m /\ f.qty = q /\ (f.takerDone <=> rem[x] = q) /\ (f.makerDone <=> rem[m] = q)
  /\ rem[x] \in Nat /\ rem[m] \in Nat
  /\ rem'[x] = rem[x] - q /\ rem'[m] = rem[m] - q /\ \A p \in Orders \ {x, m} : rem'[p] = rem[p]
  /\ resting' = IF f.makerDone THEN Without(m) ELSE resting
  /\ fills' = Emit(fills, <<f>>) /\ emitted' = Append(emitted, f)
  /\ UNCHANGED <<amounts, res, locked, at, queue, taker, rel, br>>
  /\ IsBuy(x) # IsBuy(m) /\ AcceptsPrice(x, OrderOf[m].price)

LEMMA TradeOne ==
  ASSUME TypeOK, LockInv, Trade
  PROVE  \E x, m, q, f : TradeOf(x, m, q, f)
<1>1. taker \in Orders /\ rem[taker] > 0 /\ Makers(taker) # {}
  BY DEF Trade, TypeOK, TypeEngine
<1>2. PICK x \in Orders : x = taker
  BY <1>1
<1>3. PICK m \in Orders : m = Best /\ m \in Makers(x) /\ m \in ToSet(resting) /\ m # x
  BY <1>1, <1>2, BestIsMaker
<1>4. rem[x] \in Nat /\ rem[m] \in Nat /\ rem[x] > 0 /\ rem[m] > 0
  BY <1>1, <1>2, <1>3 DEF TypeOK, TypeEngine, LockInv, Placed
<1>5. PICK q \in Nat : q = Min({rem[x], rem[m]}) /\ q > 0 /\ q <= rem[x] /\ q <= rem[m] /\ (q = rem[x] \/ q = rem[m])
  <2>1. rem[x] \in Int /\ rem[m] \in Int
    BY <1>4
  <2>2. /\ Min({rem[x], rem[m]}) \in {rem[x], rem[m]}
        /\ Min({rem[x], rem[m]}) <= rem[x] /\ Min({rem[x], rem[m]}) <= rem[m]
    BY <2>1, MinOfTwo
  <2> QED
    BY <1>4, <2>2
<1>6. PICK f : f = [taker |-> x, maker |-> m, qty |-> q, takerDone |-> rem[x] = q, makerDone |-> rem[m] = q]
  OBVIOUS
<1>7. f \in FillType /\ f.taker = x /\ f.maker = m /\ f.qty = q /\ (f.takerDone <=> rem[x] = q) /\ (f.makerDone <=> rem[m] = q)
  BY <1>6 DEF FillType
<1>8. /\ rem' = [rem EXCEPT ![x] = @ - q, ![m] = @ - q]
      /\ resting' = IF f.makerDone THEN Without(m) ELSE resting
      /\ fills' = Emit(fills, <<f>>) /\ emitted' = Append(emitted, f)
      /\ UNCHANGED <<amounts, res, locked, at, queue, taker, rel, br>>
  BY <1>2, <1>3, <1>5, <1>6 DEF Trade
<1>9. rem'[x] = rem[x] - q /\ rem'[m] = rem[m] - q /\ \A p \in Orders \ {x, m} : rem'[p] = rem[p]
  <2>1. rem \in [Orders -> Nat]
    BY DEF TypeOK, TypeEngine
  <2> QED
    BY <1>3, <1>8, <2>1
<1>10. IsBuy(x) # IsBuy(m) /\ AcceptsPrice(x, OrderOf[m].price)
  BY <1>3, OrderType DEF Makers, IsBuy, Sides
<1>11. TradeOf(x, m, q, f)
  BY <1>2, <1>3, <1>4, <1>5, <1>7, <1>8, <1>9, <1>10 DEF TradeOf
<1> QED
  BY <1>11

\* The parties of a trade, and what remains of them.
LEMMA TradeParties ==
  ASSUME TypeOK, Plain, LockInv, UNCHANGED deployment, NEW x, NEW m, NEW q, NEW f, TradeOf(x, m, q, f)
  PROVE  /\ Crosses(f) /\ \A p : Ends(f, p) => p = x \/ p = m
         /\ \A p \in Orders \ {x, m} : Takes(f, p) = 0
         /\ Ends(f, x) <=> rem'[x] = 0
         /\ Ends(f, m) <=> rem'[m] = 0
         /\ Booked(x) /\ Booked(m) /\ Open(x) /\ Open(m) /\ rem[x] > 0 /\ rem[m] > 0
         /\ ~InHand(x) /\ ~InChannel(x) /\ ~InHand(m) /\ ~InChannel(m)
         /\ \A p \in Orders : Needs(p) \in Nat /\ Needs(p)' \in Nat /\ Needs(p) >= Needs(p)' + Takes(f, p)
<1>1. /\ x \in Orders /\ m \in Orders /\ m # x /\ q \in Nat /\ rem[x] \in Nat /\ rem[m] \in Nat
      /\ q > 0 /\ q <= rem[x] /\ q <= rem[m] /\ f \in FillType
      /\ f.taker = x /\ f.maker = m /\ f.qty = q /\ (f.takerDone <=> rem[x] = q) /\ (f.makerDone <=> rem[m] = q)
      /\ rem'[x] = rem[x] - q /\ rem'[m] = rem[m] - q /\ \A p \in Orders \ {x, m} : rem'[p] = rem[p]
      /\ IsBuy(x) # IsBuy(m) /\ AcceptsPrice(x, OrderOf[m].price)
      /\ (q = rem[x] \/ q = rem[m])
  BY DEF TradeOf
<1>2. Booked(x) /\ Booked(m) /\ rem[x] > 0 /\ rem[m] > 0
  BY <1>1 DEF TradeOf, Booked
<1>3. /\ Open(x) /\ Open(m) /\ at[x] = "accepted" /\ at[m] = "accepted"
      /\ ~InHand(x) /\ ~InChannel(x) /\ ~InHand(m) /\ ~InChannel(m)
  BY <1>1, <1>2 DEF Open, Alive, LockInv, Placed, EndsOnce
<1>4. /\ OrderOf[x].kind = "limit" /\ OrderOf[x].price \in Nat /\ OrderOf[m].price \in Nat
      /\ IsBuy(x) \in BOOLEAN /\ IsBuy(m) \in BOOLEAN
  BY <1>1, OrderType DEF Plain
<1>5. Crosses(f)
  <2>1. OrderOf[m].price <= OrderOf[Buyer(f)].price
    BY <1>1, <1>4 DEF Buyer, AcceptsPrice
  <2> QED
    BY <1>1, <1>3, <2>1 DEF Crosses
<1>6. /\ \A p : Ends(f, p) => p = x \/ p = m
      /\ Ends(f, x) <=> rem'[x] = 0
      /\ Ends(f, m) <=> rem'[m] = 0
  BY <1>1 DEF Ends
<1>7. PICK b, s : b = Buyer(f) /\ s = Seller(f)
  OBVIOUS
<1>8. b \in {x, m} /\ s \in {x, m} /\ b # s /\ IsBuy(b) /\ ~IsBuy(s) /\ b \in Orders /\ s \in Orders
  BY <1>1, <1>5, <1>7, CrossParties
<1>9. Takes(f, b) = Cost(f) /\ Takes(f, s) = q /\ \A p : p # b /\ p # s => Takes(f, p) = 0
  BY <1>1, <1>7, <1>8 DEF Takes
<1>10. \A p \in Orders \ {x, m} : Takes(f, p) = 0
  BY <1>8, <1>9
<1>11. /\ Needs(s) = rem[s] /\ Needs(s)' = rem'[s] /\ rem'[s] = rem[s] - q /\ q <= rem[s] /\ rem[s] \in Nat
  BY <1>1, <1>8, PlainFrame DEF Needs
<1>12. Needs(b) \in Nat /\ Needs(b)' \in Nat /\ Needs(b) >= Needs(b)' + Cost(f)
  <2>1. PICK pb \in Nat, pm \in Nat, rate \in Nat :
          pb = OrderOf[b].price /\ pm = OrderOf[m].price /\ rate = Rate(f, b)
    BY <1>1, <1>8, OrderType, FeeAssumption DEF Rate
  <2>2. pm <= pb
    BY <1>1, <1>5, <1>7, <2>1 DEF Crosses
  <2>3. rate <= TakerRate
    BY <2>1, FeeAssumption DEF Rate, Plain
  <2>4. Cost(f) = pm * q * (FeeUnit + rate)
    BY <1>1, <1>7, <2>1 DEF Cost, Value, Notional
  <2>5. Needs(b) = pb * rem[b] * (FeeUnit + TakerRate)
    BY <1>8, <2>1 DEF Needs, Notional
  <2>6. rem'[b] = rem[b] - q /\ rem[b] \in Nat /\ q <= rem[b]
    BY <1>1, <1>8
  <2>7. Needs(b)' = pb * (rem[b] - q) * (FeeUnit + TakerRate)
    <3>1. Needs(b)' = OrderOf[b].price * rem'[b] * (FeeUnit + TakerRate)
      BY <1>8, PlainFrame DEF Needs, Notional
    <3> QED
      BY <2>1, <2>6, <3>1
  <2>8. FeeUnit \in Nat /\ TakerRate \in Nat
    BY FeeAssumption
  <2>9. pb * rem[b] * (FeeUnit + TakerRate)
          >= pb * (rem[b] - q) * (FeeUnit + TakerRate) + pm * q * (FeeUnit + rate)
    <3>1. PICK r \in Nat, fu \in Nat, tr \in Nat : r = rem[b] /\ fu = FeeUnit /\ tr = TakerRate
      BY <2>6, <2>8
    <3>2. q \in Nat /\ q <= r /\ rate <= tr
      BY <1>1, <2>3, <2>6, <3>1
    <3>3. pb * r * (fu + tr) >= pb * (r - q) * (fu + tr) + pm * q * (fu + rate)
      BY <2>2, <3>2, CostCovered
    <3> QED
      BY <3>1, <3>3
  <2>10. pb * rem[b] * (FeeUnit + TakerRate) \in Nat /\ pb * (rem[b] - q) * (FeeUnit + TakerRate) \in Nat
    BY <1>1, <2>1, <2>6, <2>8
  <2> QED
    BY <2>4, <2>5, <2>7, <2>9, <2>10
<1>13. ASSUME NEW p \in Orders
       PROVE  Needs(p) \in Nat /\ Needs(p)' \in Nat /\ Needs(p) >= Needs(p)' + Takes(f, p)
  <2>1. CASE p = b
    BY <1>9, <1>12, <2>1
  <2>2. CASE p = s
    BY <1>1, <1>9, <1>11, <2>2
  <2>3. CASE p # b /\ p # s
    <3>1. p \notin {x, m} /\ Takes(f, p) = 0
      BY <1>8, <1>9, <2>3
    <3>2. rem[p] \in Nat /\ OrderOf[p].price \in Nat /\ FeeUnit \in Nat /\ TakerRate \in Nat
      BY OrderType, FeeAssumption DEF TypeOK, TypeEngine
    <3>3. Needs(p) \in Nat
      BY <3>2 DEF Needs, Notional
    <3>4. Needs(p)' = Needs(p)
      BY <1>1, <3>1, PlainFrame DEF Needs, Notional
    <3> QED
      BY <3>1, <3>3, <3>4
  <2> QED
    BY <2>1, <2>2, <2>3
<1> QED
  BY <1>2, <1>3, <1>5, <1>6, <1>10, <1>13

\* A chain that covers an order is lengthened by what a new fill leaves of it.
LEMMA CoversOneMore ==
  ASSUME TypeOK, UNCHANGED <<deployment, br, res, amounts>>, NEW p \in Orders, NEW w, Covers(w, p), NEW f \in FillType,
         NEW n \in Nat, n = Len(fills), \A i \in 1..n : fills'[i] = fills[i],
         \/ Len(fills') = n + 1 /\ fills'[n + 1] = f
         \/ Len(fills') = n,
         Needs(p) \in Nat, Needs(p)' \in Nat, Takes(f, p) \in Nat, Needs(p) >= Needs(p)' + Takes(f, p)
  PROVE  \E v : Covers(v, p)'
<1>1. /\ Left(p)' = Left(p) /\ InDebit(p)' = InDebit(p) /\ \A g, o : Takes(g, o)' = Takes(g, o)
  BY PlainFrame DEF Left, InDebit
<1>2. /\ w \in [1..n + 1 -> Nat] /\ Left(p) >= InDebit(p) + w[1]
      /\ \A i \in 1..n : w[i] >= w[i + 1] + Takes(fills[i], p)
      /\ w[n + 1] >= Needs(p)
  BY DEF Covers
<1>3. PICK k \in Nat : k = Needs(p)'
  OBVIOUS
<1>4. w[n + 1] \in Nat /\ w[n + 1] >= k + Takes(f, p)
  BY <1>2, <1>3
<1>5. CASE Len(fills') = n
  <2>1. \A i \in 1..n : w[i] >= w[i + 1] + Takes(fills[i], p)'
    BY <1>1, <1>2
  <2>2. Covers(w, p)'
    BY <1>1, <1>2, <1>3, <1>4, <1>5, <2>1 DEF Covers
  <2> QED
    BY <2>2
<1>6. CASE Len(fills') = n + 1 /\ fills'[n + 1] = f
  <2>1. PICK v : v = [i \in 1..(n + 1) + 1 |-> IF i <= n + 1 THEN w[i] ELSE k]
    OBVIOUS
  <2>2. v \in [1..(n + 1) + 1 -> Nat] /\ v[1] = w[1] /\ v[(n + 1) + 1] = k
    BY <1>2, <2>1
  <2>3. \A i \in 1..n + 1 : v[i] = w[i]
    BY <2>1
  <2>4. ASSUME NEW i \in 1..n + 1
        PROVE  v[i] >= v[i + 1] + Takes(fills[i], p)'
    <3>1. CASE i <= n
      <4>1. i \in 1..n /\ i + 1 \in 1..n + 1
        BY <3>1
      <4> QED
        BY <1>1, <1>2, <2>3, <4>1
    <3>2. CASE i = n + 1
      BY <1>1, <1>4, <1>6, <2>2, <2>3, <3>2
    <3> QED
      BY <3>1, <3>2
  <2>5. k >= Needs(p)' /\ Left(p)' >= InDebit(p)' + v[1]
    BY <1>1, <1>2, <1>3, <2>2
  <2>6. Covers(v, p)'
    BY <1>6, <2>2, <2>4, <2>5 DEF Covers
  <2> QED
    BY <2>6
<1> QED
  BY <1>5, <1>6

\* Two orders trade.
LEMMA LockTrade ==
  ASSUME TypeOK, TypeOK', Plain, LockInv, UNCHANGED deployment, Trade
  PROVE  LockInv'
<1>0. Orders' = Orders /\ Threads' = Threads
  BY PlainFrame
<1>1. PICK x, m, q, f : TradeOf(x, m, q, f)
  BY TradeOne
<1>2. /\ x \in Orders /\ m \in Orders /\ m # x /\ f \in FillType /\ x = taker /\ m \in ToSet(resting)
      /\ rem[x] \in Nat /\ rem[m] \in Nat /\ (rem'[x] = 0 \/ rem'[m] = 0) /\ rem'[x] \in Nat /\ rem'[m] \in Nat
      /\ \A p \in Orders \ {x, m} : rem'[p] = rem[p]
      /\ resting' = (IF f.makerDone THEN Without(m) ELSE resting) /\ (f.makerDone <=> rem'[m] = 0)
      /\ fills' = Emit(fills, <<f>>) /\ emitted' = Append(emitted, f)
      /\ UNCHANGED <<amounts, res, locked, at, queue, taker, rel, br>>
  BY <1>1 DEF TradeOf
<1>3. /\ Crosses(f) /\ \A p : Ends(f, p) => p = x \/ p = m
      /\ Ends(f, x) <=> rem'[x] = 0
      /\ Ends(f, m) <=> rem'[m] = 0
      /\ Booked(x) /\ Booked(m) /\ Open(x) /\ Open(m) /\ rem[x] > 0 /\ rem[m] > 0
      /\ ~InHand(x) /\ ~InChannel(x) /\ ~InHand(m) /\ ~InChannel(m)
      /\ \A p \in Orders : Needs(p) \in Nat /\ Needs(p)' \in Nat /\ Needs(p) >= Needs(p)' + Takes(f, p)
  BY <1>1, TradeParties
<1>4. PICK n \in Nat : n = Len(fills) /\ n <= FillCap /\ n <= Len(emitted)
  BY FillsTyped DEF LockInv, Found
<1>5. /\ \A i \in 1..n : fills'[i] = fills[i]
      /\ n < FillCap => Len(fills') = n + 1 /\ fills'[n + 1] = f
      /\ ~(n < FillCap) => Len(fills') = n
  BY <1>2, <1>4, EmitOne
<1>6. \/ n < FillCap /\ Len(fills') = n + 1 /\ fills'[n + 1] = f
      \/ ~(n < FillCap) /\ Len(fills') = n
  BY <1>5
<1>7. \A i \in 1..Len(fills') : (i \in 1..n /\ fills'[i] = fills[i]) \/ (n < FillCap /\ i = n + 1 /\ fills'[i] = f)
  BY <1>5, <1>6
<1>8. /\ Once(resting') /\ ToSet(resting') = IF rem'[m] = 0 THEN ToSet(resting) \ {m} ELSE ToSet(resting)
  <2>1. Once(Without(m)) /\ ToSet(Without(m)) = ToSet(resting) \ {m}
    BY <1>2, OnceWithout DEF LockInv, Placed
  <2> QED
    BY <1>2, <2>1 DEF LockInv, Placed
<1>9. \A p : Booked(p)' <=> Booked(p) /\ ~(p = m /\ rem'[m] = 0)
  BY <1>2, <1>8 DEF Booked, LockInv, Placed
<1>10. Placed'
  <2>1. /\ ToSet(queue') \cap ToSet(resting') = {} /\ taker' \notin ToSet(queue') /\ taker' \notin ToSet(resting')
        /\ Once(queue')
    BY <1>2, <1>8 DEF LockInv, Placed
  <2>2. ASSUME NEW p \in Orders
        PROVE  /\ Booked(p)' => at'[p] = "accepted"
               /\ p \in ToSet(queue') \/ p \in ToSet(resting') => rem'[p] > 0
               /\ at'[p] \in {"new", "track", "submit"} => rem'[p] = OrderOf[p].qty
    <3>1. Booked(p)' => at'[p] = "accepted"
      BY <1>2, <1>9 DEF LockInv, Placed
    <3>2. p \in ToSet(queue') \/ p \in ToSet(resting') => rem'[p] > 0
      BY <1>2, <1>8 DEF LockInv, Placed
    <3>3. at'[p] \in {"new", "track", "submit"} => p \notin {x, m}
      BY <1>2, <1>3 DEF LockInv, Placed
    <3>4. at'[p] \in {"new", "track", "submit"} => rem'[p] = OrderOf[p].qty
      BY <1>2, <3>3 DEF LockInv, Placed
    <3> QED
      BY <3>1, <3>2, <3>4
  <2>3. OrderOf' = OrderOf
    BY PlainFrame
  <2> QED
    BY <1>0, <1>8, <2>1, <2>2, <2>3 DEF Placed
<1>11. /\ \A p : InHand(p)' <=> InHand(p)
       /\ \A p : InChannel(p)' <=> InChannel(p) \/ (n < FillCap /\ Ends(f, p))
  <2>1. \A p : InHand(p)' <=> InHand(p)
    BY <1>2 DEF InHand
  <2>2. \A p : InChannel(p) => InChannel(p)'
    BY <1>4, <1>5, <1>6 DEF InChannel, Ends
  <2>3. \A p : n < FillCap /\ Ends(f, p) => InChannel(p)'
    BY <1>5 DEF InChannel, Ends
  <2>4. \A p : InChannel(p)' => InChannel(p) \/ (n < FillCap /\ Ends(f, p))
    BY <1>4, <1>7 DEF InChannel, Ends
  <2> QED
    BY <2>1, <2>2, <2>3, <2>4
<1>12. /\ \A p \in Orders : Open(p)' => Open(p)
       /\ n < FillCap => \A p \in Orders : Open(p)' <=> Open(p)
  <2>1. \A p \in Orders \ {x, m} : Alive(p)' <=> Alive(p)
    BY <1>2, <1>9 DEF Alive
  <2>2. \A p \in Orders \ {x, m} : Open(p)' <=> Open(p)
    BY <1>3, <1>11, <2>1 DEF Open
  <2>3. ASSUME n < FillCap PROVE Open(x)' /\ Open(m)'
    <3>1. CASE rem'[x] = 0 /\ rem'[m] = 0
      BY <1>3, <1>11, <2>3, <3>1 DEF Open
    <3>2. rem'[x] # 0 => Alive(x)'
      BY <1>2, <1>3, <1>9 DEF Alive
    <3>3. rem'[m] # 0 => Alive(m)'
      BY <1>2, <1>3, <1>9 DEF Alive
    <3> QED
      BY <1>3, <1>11, <2>3, <3>2, <3>3 DEF Open
  <2> QED
    BY <1>3, <2>2, <2>3
<1>13. PlainSteps' /\ Owned' /\ Backed' /\ LocksAddUp'
  BY <1>2, LockFrame
<1>14. Traded'
  <2>1. \A p \in Orders : at[p] = "accepted" => at'[p] = "accepted"
    BY <1>2
  <2>2. Crosses(f)'
    BY <1>2, <1>3, <2>1, CrossesSame
  <2>3. ASSUME NEW i \in 1..Len(fills')
        PROVE  Crosses(fills[i])'
    <3>1. CASE i \in 1..n
      <4>1. PICK g \in FillType : g = fills[i] /\ g = fills'[i] /\ Crosses(g)
        BY <1>4, <1>5, <3>1, FillsTyped DEF LockInv, Traded
      <4>2. Crosses(g)'
        BY <2>1, <4>1, CrossesSame
      <4> QED
        BY <4>1, <4>2 DEF Crosses
    <3>2. CASE fills'[i] = f
      BY <2>2, <3>2 DEF Crosses
    <3> QED
      BY <1>7, <3>1, <3>2
  <2>4. ASSUME br'.at # "idle" PROVE Crosses(br.fill)'
    <3>1. PICK g \in FillType : g = br.fill /\ g = br'.fill /\ Crosses(g)
      BY <1>2, <2>4, FillsTyped DEF LockInv, Traded
    <3>2. Crosses(g)'
      BY <2>1, <3>1, CrossesSame
    <3> QED
      BY <3>1, <3>2 DEF Crosses
  <2> QED
    BY <2>3, <2>4 DEF Traded
<1>15. EndsOnce'
  <2> SUFFICES ASSUME NEW p \in Orders
               PROVE  /\ InHand(p)' \/ InChannel(p)' => rem'[p] = 0
                      /\ InHand(p)' => ~InChannel(p)'
                      /\ \A i, j \in 1..Len(fills') : Ends(fills'[i], p) /\ Ends(fills'[j], p) => i = j
    BY <1>0 DEF EndsOnce, Ends
  <2>1. InHand(p) \/ InChannel(p) => p \notin {x, m} /\ rem'[p] = 0
    BY <1>2, <1>3 DEF LockInv, EndsOnce
  <2>2. Ends(f, p) => p \in {x, m} /\ rem'[p] = 0 /\ ~InHand(p) /\ ~InChannel(p)
    BY <1>3
  <2>3. InHand(p) => ~InChannel(p)
    BY DEF LockInv, EndsOnce
  <2>4. \A i, j \in 1..n : Ends(fills[i], p) /\ Ends(fills[j], p) => i = j
    BY <1>4 DEF LockInv, EndsOnce
  <2>5. \A i \in 1..n : Ends(fills[i], p) => ~Ends(f, p)
    BY <1>4, <2>2 DEF InChannel
  <2>6. \A i, j \in 1..Len(fills') : Ends(fills'[i], p) /\ Ends(fills'[j], p) => i = j
    BY <1>7, <2>4, <2>5
  <2> QED
    BY <1>11, <2>1, <2>2, <2>3, <2>6
<1>16. Releasers'
  BY <1>0, <1>2, <1>12 DEF LockInv, Releasers
<1>17. Covered'
  <2> SUFFICES ASSUME NEW p \in Orders, res'[p] # 0 \/ Open(p)'
               PROVE  \E v : Covers(v, p)'
    BY <1>0 DEF Covered
  <2>1. PICK w : Covers(w, p)
    BY <1>2, <1>12 DEF LockInv, Covered
  <2>2. Takes(f, p) \in Nat
    BY <1>2, FillMoves DEF Takes
  <2> QED
    BY <1>2, <1>3, <1>4, <1>5, <1>6, <2>1, <2>2, CoversOneMore
<1>18. Found'
  <2>1. Len(emitted') = Len(emitted) + 1 /\ Len(emitted) \in Nat
    BY <1>2 DEF TypeOK, TypeEngine
  <2>2. Len(fills') <= Len(emitted') /\ Len(fills') <= FillCap
    BY <1>4, <1>6, <2>1, CapacityType
  <2>3. Len(emitted') <= FillCap => n < FillCap /\ Len(emitted) <= FillCap
    BY <1>4, <2>1, CapacityType
  <2>4. Len(emitted') <= FillCap => \A p \in Orders : Open(p)' <=> Open(p)
    BY <1>12, <2>3
  <2> QED
    BY <1>0, <1>2, <2>2, <2>3, <2>4, PlainFrame DEF LockInv, Found
<1> QED
  BY <1>10, <1>13, <1>14, <1>15, <1>16, <1>17, <1>18 DEF LockInv

-----------------------------------------------------------------------------
(***************************************************************************)
(* The bridge.                                                             *)
(***************************************************************************)
\* What the bridge takes out of the channel it has in hand.
LEMMA LockBridgeTake ==
  ASSUME TypeOK, TypeOK', Plain, LockInv, UNCHANGED deployment, BridgeTake
  PROVE  LockInv'
<1>0. Orders' = Orders /\ Threads' = Threads
  BY PlainFrame
<1>1. /\ br.at = "idle" /\ rel[Bridge] = NotReleasing /\ fills # << >> /\ fills' = Tail(fills)
      /\ UNCHANGED <<locked, amounts, res, queue, taker, resting, rem, emitted, at, rel>>
  BY DEF BridgeTake
<1>2. PICK n \in Nat : n = Len(fills) /\ n # 0 /\ fills \in Seq(FillType)
  BY <1>1, FillsTyped, EmptySeq DEF TypeOK, TypeEngine
<1>3. Len(fills') = n - 1 /\ Head(fills) = fills[1] /\ \A i \in 1..n - 1 : fills'[i] = fills[i + 1]
  BY <1>1, <1>2, HeadTailProperties
<1>4. PICK f \in FillType : f = fills[1] /\ Crosses(f)
  BY <1>2, FillsTyped DEF LockInv, Traded
<1>5. /\ br'.fill = f /\ br'.at \in {"taker", "debit"} /\ br'.loaded = [s \in Sides |-> None]
  BY <1>3, <1>4 DEF BridgeTake, Plain, ToSettle, Idle, Sides
<1>6. \A i \in 1..n - 1 : i + 1 \in 1..n
  BY <1>2
<1>7. /\ \A p : ~InHand(p)
      /\ \A p : InHand(p)' <=> Ends(f, p)
      /\ \A p : InChannel(p) <=> Ends(f, p) \/ InChannel(p)'
  <2>1. \A p : ~InHand(p)
    BY <1>1 DEF InHand, Working
  <2>2. \A p : InHand(p)' <=> Ends(f, p)
    BY <1>5 DEF InHand, Working, Ends
  <2>3. ASSUME NEW p, InChannel(p)
        PROVE  Ends(f, p) \/ InChannel(p)'
    <3>1. PICK i \in 1..n : Ends(fills[i], p)
      BY <1>2, <2>3 DEF InChannel
    <3>2. CASE i = 1
      BY <1>4, <3>1, <3>2
    <3>3. CASE i # 1
      <4>1. i - 1 \in 1..n - 1 /\ fills'[i - 1] = fills[i]
        <5>1. i - 1 \in 1..n - 1 /\ (i - 1) + 1 = i
          BY <1>2, <3>3
        <5> QED
          BY <1>3, <5>1
      <4>2. Ends(fills'[i - 1], p)
        BY <3>1, <4>1
      <4> QED
        BY <1>3, <4>1, <4>2 DEF InChannel, Ends
    <3> QED
      BY <3>2, <3>3
  <2>4. ASSUME NEW p, Ends(f, p) PROVE InChannel(p)
    <3>1. 1 \in 1..n
      BY <1>2
    <3> QED
      BY <1>2, <1>4, <2>4, <3>1 DEF InChannel
  <2>5. ASSUME NEW p, InChannel(p)' PROVE InChannel(p)
    <3>1. PICK i \in 1..n - 1 : Ends(fills'[i], p)
      BY <1>3, <2>5 DEF InChannel, Ends
    <3>2. Ends(fills[i + 1], p)
      BY <1>3, <3>1
    <3> QED
      BY <1>2, <1>6, <3>2 DEF InChannel
  <2> QED
    BY <2>1, <2>2, <2>3, <2>4, <2>5
<1>8. \A p \in Orders : Ends(f, p) => ~InChannel(p)'
  <2> SUFFICES ASSUME NEW p \in Orders, Ends(f, p), InChannel(p)' PROVE FALSE
    OBVIOUS
  <2>1. PICK i \in 1..n - 1 : Ends(fills'[i], p)
    BY <1>3 DEF InChannel, Ends
  <2>2. Ends(fills[i + 1], p) /\ Ends(fills[1], p) /\ i + 1 \in 1..n /\ 1 \in 1..n /\ i + 1 # 1
    BY <1>2, <1>3, <1>4, <1>6, <2>1
  <2> QED
    BY <1>2, <2>2 DEF LockInv, EndsOnce
<1>9. \A p \in Orders : Open(p)' <=> Open(p)
  <2>1. \A p : Alive(p)' <=> Alive(p)
    BY <1>1 DEF Alive, Booked
  <2> QED
    BY <1>7, <2>1 DEF Open
<1>10. PlainSteps' /\ Placed' /\ Backed'
  BY <1>0, <1>1, <1>5, LockFrame DEF BookVars, LockInv, PlainSteps, Backed
<1>11. Traded'
  <2>1. \A p \in Orders : at[p] = "accepted" => at'[p] = "accepted"
    BY <1>1
  <2>2. ASSUME NEW i \in 1..Len(fills')
        PROVE  Crosses(fills[i])'
    <3>1. PICK g \in FillType : g = fills[i + 1] /\ g = fills'[i] /\ Crosses(g)
      BY <1>2, <1>3, <1>6, <2>2, FillsTyped DEF LockInv, Traded
    <3>2. Crosses(g)'
      BY <2>1, <3>1, CrossesSame
    <3> QED
      BY <3>1, <3>2 DEF Crosses
  <2>3. Crosses(f)'
    BY <1>4, <2>1, CrossesSame
  <2>4. Crosses(br.fill)'
    BY <1>5, <2>3 DEF Crosses
  <2> QED
    BY <2>2, <2>4 DEF Traded
<1>12. EndsOnce'
  <2> SUFFICES ASSUME NEW p \in Orders
               PROVE  /\ InHand(p)' \/ InChannel(p)' => rem'[p] = 0
                      /\ InHand(p)' => ~InChannel(p)'
                      /\ \A i, j \in 1..Len(fills') : Ends(fills'[i], p) /\ Ends(fills'[j], p) => i = j
    BY <1>0 DEF EndsOnce, Ends
  <2>1. \A i, j \in 1..n : Ends(fills[i], p) /\ Ends(fills[j], p) => i = j
    BY <1>2 DEF LockInv, EndsOnce
  <2>2. \A i, j \in 1..n - 1 : Ends(fills'[i], p) /\ Ends(fills'[j], p) => i + 1 = j + 1
    BY <1>3, <1>6, <2>1
  <2> QED
    BY <1>1, <1>3, <1>7, <1>8, <2>2 DEF LockInv, EndsOnce
<1>13. Releasers'
  BY <1>0, <1>1, <1>9 DEF LockInv, Releasers
<1>14. Owned'
  <2>1. \A p, i : Holds(p, i)' <=> Holds(p, i)
    <3>1. br'.at \notin {"settle", "restore"} /\ br.at \notin {"settle", "restore"}
      BY <1>1, <1>5
    <3> QED
      BY <1>0, <1>1, <3>1 DEF Holds, Lent
  <2> QED
    BY <1>0, <1>1, <2>1 DEF LockInv, Owned
<1>15. Covered'
  <2> SUFFICES ASSUME NEW p \in Orders, res'[p] # 0 \/ Open(p)'
               PROVE  \E v : Covers(v, p)'
    BY <1>0 DEF Covered
  <2>1. PICK w : Covers(w, p)
    BY <1>1, <1>9 DEF LockInv, Covered
  <2>2. /\ w \in [1..n + 1 -> Nat] /\ Left(p) >= w[1] /\ Left(p) \in Nat
        /\ \A i \in 1..n : w[i] >= w[i + 1] + Takes(fills[i], p)
        /\ w[n + 1] >= Needs(p)
    <3>1. InDebit(p) = 0 /\ Left(p) \in Nat
      BY <1>1, AccountRules DEF InDebit, ReleasedRules
    <3>2. 1 \in 1..n + 1
      BY <1>2
    <3> QED
      BY <1>2, <2>1, <3>1, <3>2 DEF Covers
  <2>3. PICK v : v = [i \in 1..(n - 1) + 1 |-> w[i + 1]]
    OBVIOUS
  <2>4. /\ \A i \in 1..(n - 1) + 1 : i + 1 \in 1..n + 1 /\ v[i] = w[i + 1]
        /\ 1 \in 1..(n - 1) + 1
    BY <1>2, <2>3
  <2>5. v \in [1..(n - 1) + 1 -> Nat]
    BY <2>2, <2>3, <2>4
  <2>6. v[1] = w[2] /\ v[(n - 1) + 1] = w[n + 1] /\ w[1] \in Nat /\ w[2] \in Nat
    <3>1. 1 + 1 = 2 /\ ((n - 1) + 1) + 1 = n + 1 /\ 1 \in 1..n + 1 /\ (n - 1) + 1 \in 1..(n - 1) + 1
      BY <1>2
    <3> QED
      BY <2>2, <2>4, <3>1
  <2>7. Needs(p)' = Needs(p) /\ Left(p)' = Left(p) /\ \A g : Takes(g, p)' = Takes(g, p)
    BY <1>1, PlainFrame DEF Needs, Notional, Left
  <2>8. \A i \in 1..n - 1 : v[i] >= v[i + 1] + Takes(fills[i], p)'
    <3> SUFFICES ASSUME NEW i \in 1..n - 1 PROVE v[i] >= v[i + 1] + Takes(fills[i], p)'
      OBVIOUS
    <3>1. v[i] = w[i + 1] /\ v[i + 1] = w[(i + 1) + 1]
      BY <1>2, <2>4
    <3>2. w[i + 1] >= w[(i + 1) + 1] + Takes(fills[i + 1], p)
      BY <1>6, <2>2
    <3>3. Takes(fills[i], p)' = Takes(fills[i + 1], p)
      BY <1>3, <2>7
    <3> QED
      BY <3>1, <3>2, <3>3
  <2>9. Left(p)' >= InDebit(p)' + v[1]
    <3>1. Takes(f, p) \in Nat /\ w[1] >= w[2] + Takes(f, p)
      <4>1. Takes(f, p) \in Nat
        BY <1>4, FillMoves DEF Takes
      <4>2. 1 \in 1..n /\ 1 + 1 = 2
        BY <1>2
      <4> QED
        BY <1>4, <2>2, <4>1, <4>2
    <3>2. InDebit(p)' = IF br'.at = "debit" THEN Takes(f, p) ELSE 0
      BY <1>5, <2>7 DEF InDebit
    <3> QED
      BY <2>2, <2>6, <2>7, <3>1, <3>2
  <2>10. Covers(v, p)'
    BY <1>3, <2>2, <2>5, <2>6, <2>7, <2>8, <2>9 DEF Covers
  <2> QED
    BY <2>10
<1>16. Found'
  BY <1>0, <1>1, <1>2, <1>3, <1>9, CapacityType, PlainFrame DEF LockInv, Found
<1>17. LocksAddUp'
  <2>1. br'.at \notin {"sync", "settle", "restore"} /\ br.at \notin {"sync", "settle", "restore"}
    BY <1>1, <1>5
  <2>2. \A p \in Orders : /\ ReleasedFor(p)' = ReleasedFor(p) /\ UnlockingFor(p)' = UnlockingFor(p)
                          /\ Left(p)' = Left(p) /\ TrackedFor(p)' = TrackedFor(p)
    BY <1>1, <2>1, ReleasesSame, PlainFrame DEF UnlockingFor, Left, TrackedFor
  <2> QED
    BY <1>1, <2>2, LocksSame
<1> QED
  BY <1>10, <1>11, <1>12, <1>13, <1>14, <1>15, <1>16, <1>17 DEF LockInv

\* Who is on which side of a fill.
Parties(f, who) ==
  /\ f \in FillType /\ f = br.fill /\ Crosses(f)
  /\ who \in [Sides -> Orders] /\ who["buy"] # who["sell"]
  /\ \A s \in Sides : /\ Party(f, s) = who[s] /\ OrderOf[who[s]].side = s /\ at[who[s]] = "accepted"
                      /\ Takes(f, who[s]) = Wanted(f, s) /\ Wanted(f, s) \in Nat
                      /\ ReservedAsset(who[s]) = IF s = "buy" THEN "quote" ELSE "base"
  /\ \A p \in Orders : (\A s \in Sides : p # who[s]) => Takes(f, p) = 0 /\ ~Ends(f, p)
  /\ \E s \in Sides : Ends(f, who[s])
  /\ Buyer(f) = who["buy"] /\ Seller(f) = who["sell"]

LEMMA PartiesOf ==
  ASSUME TypeOK, LockInv, br.at # "idle"
  PROVE  \E f, who : Parties(f, who)
<1>1. PICK f \in FillType : f = br.fill /\ Crosses(f)
  BY FillsTyped DEF LockInv, Traded
<1>2. PICK b \in Orders, l \in Orders : b = Buyer(f) /\ l = Seller(f)
  BY <1>1, CrossParties
<1>3. PICK who : who = [s \in Sides |-> IF s = "buy" THEN b ELSE l]
  OBVIOUS
<1>4. who \in [Sides -> Orders] /\ who["buy"] = b /\ who["sell"] = l /\ Sides = {"buy", "sell"} /\ b # l
  BY <1>1, <1>2, <1>3, CrossParties DEF Sides
<1>5. \A s \in Sides : Party(f, s) = who[s] /\ OrderOf[who[s]].side = s /\ at[who[s]] = "accepted"
  BY <1>1, <1>2, <1>4, CrossParties
<1>6. /\ \A s \in Sides : Wanted(f, s) \in Nat
      /\ Takes(f, b) = Wanted(f, "buy") /\ Takes(f, l) = Wanted(f, "sell")
  BY <1>1, <1>2, <1>4, FillMoves DEF Takes, Wanted
<1>7. \A p \in Orders : p # b /\ p # l => Takes(f, p) = 0 /\ ~Ends(f, p)
  BY <1>1, <1>2, CrossParties DEF Takes
<1>8. Ends(f, b) \/ Ends(f, l)
  BY <1>1, <1>2 DEF Crosses, Ends, Buyer, Seller
<1>9. \A s \in Sides : ReservedAsset(who[s]) = IF s = "buy" THEN "quote" ELSE "base"
  BY <1>4, <1>5 DEF ReservedAsset, IsBuy
<1>10. Parties(f, who)
  BY <1>1, <1>2, <1>4, <1>5, <1>6, <1>7, <1>8, <1>9 DEF Parties
<1> QED
  BY <1>10

\* What a debit takes from which objects.
DebitOf(f, who, ref, part) ==
  /\ Parties(f, who) /\ ref \in [Sides -> Nat] /\ part \in [Sides -> Nat]
  /\ \A s \in Sides :
       /\ ref[s] = res[who[s]] /\ part[s] <= Left(who[s]) /\ (ref[s] = 0 => part[s] = 0)
       /\ ref[s] # 0 \/ Ends(f, who[s]) => part[s] = Wanted(f, s)
       /\ ref[s] # 0 => amounts'[ref[s]] = amounts[ref[s]] - part[s]
       /\ res'[who[s]] = IF ref[s] = 0 \/ amounts[ref[s]] = part[s] THEN 0 ELSE ref[s]
  /\ \A i \in 1..Len(amounts) : (\A s \in Sides : i # ref[s]) => amounts'[i] = amounts[i]
  /\ \A p \in Orders : (\A s \in Sides : p # who[s]) => res'[p] = res[p]
  /\ br.at = "debit" /\ br'.at = "settle" /\ br'.fill = f /\ br'.ref = ref /\ br'.unlock = part
  /\ br'.loaded = br.loaded
  /\ UNCHANGED <<locked, queue, taker, resting, rem, emitted, fills, at, rel>>

LEMMA DebitOne ==
  ASSUME TypeOK, Plain, LockInv, BridgeDebit
  PROVE  \E f, who, ref, part : DebitOf(f, who, ref, part)
<1>1. br.at = "debit" /\ UNCHANGED <<locked, queue, taker, resting, rem, emitted, fills, at, rel>>
  BY DEF BridgeDebit
<1>2. PICK f, who : Parties(f, who)
  BY <1>1, PartiesOf
<1>3. /\ f \in FillType /\ f = br.fill /\ Sides = {"buy", "sell"}
      /\ who \in [Sides -> Orders] /\ who["buy"] # who["sell"]
      /\ \A s \in Sides : /\ Party(f, s) = who[s] /\ OrderOf[who[s]].side = s
                          /\ Takes(f, who[s]) = Wanted(f, s) /\ Wanted(f, s) \in Nat
  BY <1>2 DEF Parties, Sides
<1>4. \A s \in Sides : br.loaded[s] = None
  BY DEF LockInv, PlainSteps
<1>5. PICK ref : ref = [s \in {"buy", "sell"} |-> res[Party(f, s)]]
  OBVIOUS
<1>6. PICK part : part = [s \in {"buy", "sell"} |-> IF ref[s] = 0 THEN 0 ELSE Portion(amounts[ref[s]], Wanted(f, s))]
  OBVIOUS
<1>7. /\ amounts' = [i \in DOMAIN amounts |->
           IF i = ref["buy"] THEN amounts[i] - part["buy"]
           ELSE IF i = ref["sell"] THEN amounts[i] - part["sell"] ELSE amounts[i]]
      /\ res' = [o \in Orders |->
           IF \E s \in {"buy", "sell"} : o = Party(f, s)
             THEN IF ref[OrderOf[o].side] = 0 \/ amounts[ref[OrderOf[o].side]] = part[OrderOf[o].side]
                    THEN 0 ELSE ref[OrderOf[o].side]
             ELSE res[o]]
      /\ br' = [br EXCEPT !.at = "settle", !.ref = ref, !.unlock = part]
  <2> DEFINE insert(s) == br.loaded[s] # None /\ res[Party(br.fill, s)] = 0
             all1 == IF insert("buy") THEN Append(amounts, br.loaded["buy"]) ELSE amounts
             all2 == IF insert("sell") THEN Append(all1, br.loaded["sell"]) ELSE all1
             refs == [s \in {"buy", "sell"} |->
                       IF ~insert(s) THEN res[Party(br.fill, s)]
                       ELSE IF s = "buy" THEN Len(all1) ELSE Len(all2)]
             parts == [s \in {"buy", "sell"} |->
                        IF refs[s] = 0 THEN 0 ELSE Portion(all2[refs[s]], Wanted(br.fill, s))]
             x == IF SharedStore THEN "sync" ELSE "settle"
  <2>1. /\ amounts' = [i \in DOMAIN all2 |->
              IF i = refs["buy"] THEN all2[i] - parts["buy"]
              ELSE IF i = refs["sell"] THEN all2[i] - parts["sell"] ELSE all2[i]]
        /\ res' = [o \in Orders |->
              IF \E s \in {"buy", "sell"} : o = Party(br.fill, s)
                THEN LET s == OrderOf[o].side
                     IN  IF refs[s] = 0 \/ all2[refs[s]] = parts[s] THEN 0 ELSE refs[s]
                ELSE res[o]]
        /\ br' = [br EXCEPT !.at = x, !.ref = refs, !.unlock = parts]
    BY DEF BridgeDebit
  <2>2. \A s \in {"buy", "sell"} : ~insert(s)
    BY <1>3, <1>4
  <2>3. all1 = amounts
    BY <2>2
  <2> HIDE DEF all1
  <2>4. all2 = amounts
    BY <2>2, <2>3
  <2> HIDE DEF all2
  <2>5. refs = ref
    BY <1>3, <1>5, <2>2
  <2> HIDE DEF refs, insert
  <2>6. parts = part
    BY <1>3, <1>6, <2>4, <2>5
  <2> HIDE DEF parts
  <2>7. x = "settle"
    BY DEF Plain
  <2> HIDE DEF x
  <2> QED
    BY <1>3, <2>1, <2>4, <2>5, <2>6, <2>7
<1>8. /\ amounts \in Seq(Nat) /\ DOMAIN amounts = 1..Len(amounts) /\ Len(amounts) \in Nat
      /\ \A p \in Orders : res[p] \in Nat /\ res[p] <= Len(amounts) /\ Left(p) \in Nat
  BY AccountRules DEF TypeOK, TypeRefs, ReleasedRules
<1>9. /\ ref \in [Sides -> Nat]
      /\ \A s \in Sides : ref[s] = res[who[s]] /\ (ref[s] # 0 => ref[s] \in 1..Len(amounts))
  BY <1>3, <1>5, <1>8
<1>10. \A s \in Sides : part[s] = IF ref[s] = 0 THEN 0 ELSE Portion(amounts[ref[s]], Wanted(f, s))
  BY <1>3, <1>6
<1>11. ASSUME NEW s \in Sides
       PROVE  /\ part[s] \in Nat /\ part[s] <= Left(who[s]) /\ (ref[s] = 0 => part[s] = 0)
              /\ ref[s] # 0 \/ Ends(f, who[s]) => part[s] = Wanted(f, s)
  <2>1. PICK k \in Nat, n \in Nat : k = Left(who[s]) /\ n = Wanted(f, s) /\ who[s] \in Orders
    BY <1>3, <1>8
  <2>2. res[who[s]] # 0 \/ Ends(f, who[s]) => n <= k
    <3> SUFFICES ASSUME res[who[s]] # 0 \/ Ends(f, who[s]) PROVE n <= k
      OBVIOUS
    <3>1. Ends(f, who[s]) => Open(who[s])
      BY <1>1, <1>3 DEF Open, InHand, Working
    <3>2. PICK w : Covers(w, who[s])
      BY <2>1, <3>1 DEF LockInv, Covered
    <3>3. k >= n + w[1] /\ w[1] \in Nat
      <4>1. InDebit(who[s]) = n
        BY <1>1, <1>3, <2>1 DEF InDebit
      <4>2. 1 \in 1..Len(fills) + 1
        BY FillsTyped
      <4> QED
        BY <2>1, <3>2, <4>1, <4>2 DEF Covers
    <3> QED
      BY <2>1, <3>3
  <2>3. CASE ref[s] = 0
    <3>1. k = 0
      BY <1>9, <2>1, <2>3 DEF Left
    <3> QED
      BY <1>9, <1>10, <2>1, <2>2, <2>3, <3>1
  <2>4. CASE ref[s] # 0
    <3>1. k = amounts[ref[s]] /\ n <= k
      BY <1>9, <2>1, <2>2, <2>4 DEF Left
    <3>2. part[s] = Min({k, n})
      BY <1>10, <2>1, <2>4, <3>1 DEF Portion
    <3>3. Min({k, n}) \in {k, n} /\ Min({k, n}) <= n
      BY <2>1, MinOfTwo
    <3>4. part[s] = n
      BY <2>1, <3>1, <3>2, <3>3
    <3> QED
      BY <2>1, <2>4, <3>1, <3>4
  <2> QED
    BY <2>3, <2>4
<1>12. part \in [Sides -> Nat]
  BY <1>3, <1>6, <1>11
<1>13. ref["buy"] # 0 /\ ref["sell"] # 0 => ref["buy"] # ref["sell"]
  <2>1. \A s \in Sides : ref[s] # 0 => Holds(who[s], ref[s]) /\ who[s] \in Orders /\ ref[s] \in Nat
    BY <1>3, <1>9 DEF Holds
  <2> QED
    BY <1>3, <2>1 DEF LockInv, Owned
<1>14. \A s \in Sides : ref[s] # 0 => amounts'[ref[s]] = amounts[ref[s]] - part[s]
  BY <1>3, <1>7, <1>8, <1>9, <1>13
<1>15. \A i \in 1..Len(amounts) : (\A s \in Sides : i # ref[s]) => amounts'[i] = amounts[i]
  BY <1>3, <1>7, <1>8
<1>16. \A s \in Sides : res'[who[s]] = IF ref[s] = 0 \/ amounts[ref[s]] = part[s] THEN 0 ELSE ref[s]
  <2> SUFFICES ASSUME NEW s \in Sides
               PROVE  res'[who[s]] = IF ref[s] = 0 \/ amounts[ref[s]] = part[s] THEN 0 ELSE ref[s]
    OBVIOUS
  <2>1. who[s] \in Orders /\ OrderOf[who[s]].side = s /\ \E z \in {"buy", "sell"} : who[s] = Party(f, z)
    BY <1>3
  <2> QED
    BY <1>7, <2>1
<1>17. \A p \in Orders : (\A s \in Sides : p # who[s]) => res'[p] = res[p]
  BY <1>3, <1>7
<1>18. br'.at = "settle" /\ br'.fill = f /\ br'.ref = ref /\ br'.unlock = part /\ br'.loaded = br.loaded
  BY <1>3, <1>7 DEF TypeOK, TypeBridge
<1>19. DebitOf(f, who, ref, part)
  BY <1>1, <1>2, <1>9, <1>11, <1>12, <1>14, <1>15, <1>16, <1>17, <1>18 DEF DebitOf
<1> QED
  BY <1>19

\* The bridge has the same fill in hand.
LEMMA LockInHand ==
  ASSUME TypeOK, LockInv, UNCHANGED <<deployment, at, queue, taker, resting, rem, emitted, fills, rel>>,
         br.at \in Working, br'.at \in Working, br'.fill = br.fill, br'.loaded = br.loaded
  PROVE  /\ PlainSteps' /\ Placed' /\ Traded' /\ EndsOnce' /\ Releasers'
         /\ \A p : Open(p)' <=> Open(p)
<1>0. Orders' = Orders /\ Threads' = Threads
  BY PlainFrame
<1>1. PlainSteps'
  BY <1>0 DEF LockInv, PlainSteps, Working
<1>2. Placed'
  BY LockFrame DEF BookVars
<1>3. \A p : (InHand(p)' <=> InHand(p)) /\ (InChannel(p)' <=> InChannel(p)) /\ (Alive(p)' <=> Alive(p))
  BY DEF InHand, InChannel, Alive, Booked, Working, Ends
<1>4. \A p : Open(p)' <=> Open(p)
  BY <1>3 DEF Open
<1>5. Traded'
  <2>1. OrderOf' = OrderOf
    BY PlainFrame
  <2>2. br.at # "idle"
    BY DEF Working
  <2> QED
    BY <2>1, <2>2 DEF LockInv, Traded, Crosses, Buyer, IsBuy
<1>6. EndsOnce'
  BY <1>0, <1>3 DEF LockInv, EndsOnce, Ends
<1>7. Releasers'
  BY <1>0, <1>4 DEF LockInv, Releasers
<1> QED
  BY <1>1, <1>2, <1>4, <1>5, <1>6, <1>7

\* Fewer refer to the objects.
LEMMA OwnedLess ==
  ASSUME TypeOK, LockInv, UNCHANGED <<deployment, at, rel>>,
         \A p \in Orders, i \in Nat : Holds(p, i)' => Holds(p, i),
         \A p \in Orders, t \in Threads : rel[t].at = "unlock" /\ rel[t].order = p => res'[p] = 0
  PROVE  Owned'
<1>0. Orders' = Orders /\ Threads' = Threads
  BY PlainFrame
<1>1. \A p, q \in Orders : \A i \in Nat : Holds(p, i)' /\ Holds(q, i)' => p = q
  BY DEF LockInv, Owned
<1>2. \A p \in Orders : \A i, j \in Nat : Holds(p, i)' /\ Holds(p, j)' => i = j
  BY DEF LockInv, Owned
<1>3. \A p \in Orders : \A i \in Nat : at'[p] \in {"new", "track"} => ~Holds(p, i)'
  BY DEF LockInv, Owned
<1> QED
  BY <1>0, <1>1, <1>2, <1>3 DEF Owned

\* The reservations of a fill's parties are reduced.
LEMMA LockBridgeDebit ==
  ASSUME TypeOK, TypeOK', Plain, LockInv, UNCHANGED deployment, BridgeDebit
  PROVE  LockInv'
<1>0. Orders' = Orders /\ Threads' = Threads
  BY PlainFrame
<1>1. PICK f, who, ref, part : DebitOf(f, who, ref, part)
  BY DebitOne
<1>2. /\ f \in FillType /\ f = br.fill /\ br'.fill = f /\ br'.ref = ref /\ br'.unlock = part /\ br'.loaded = br.loaded
      /\ br.at = "debit" /\ br'.at = "settle"
      /\ ref \in [Sides -> Nat] /\ part \in [Sides -> Nat] /\ who \in [Sides -> Orders] /\ who["buy"] # who["sell"]
      /\ Sides = {"buy", "sell"}
      /\ UNCHANGED <<locked, queue, taker, resting, rem, emitted, fills, at, rel>>
  BY <1>1 DEF DebitOf, Parties, Sides
<1>3. \A s \in Sides :
        /\ ref[s] = res[who[s]] /\ part[s] <= Left(who[s]) /\ (ref[s] = 0 => part[s] = 0)
        /\ ref[s] # 0 \/ Ends(f, who[s]) => part[s] = Wanted(f, s)
        /\ ref[s] # 0 => amounts'[ref[s]] = amounts[ref[s]] - part[s]
        /\ res'[who[s]] = IF ref[s] = 0 \/ amounts[ref[s]] = part[s] THEN 0 ELSE ref[s]
        /\ Party(f, s) = who[s] /\ Takes(f, who[s]) = Wanted(f, s) /\ Wanted(f, s) \in Nat /\ OrderOf[who[s]].side = s
  BY <1>1 DEF DebitOf, Parties
<1>4. /\ \A i \in 1..Len(amounts) : (\A s \in Sides : i # ref[s]) => amounts'[i] = amounts[i]
      /\ \A p \in Orders : (\A s \in Sides : p # who[s]) => res'[p] = res[p] /\ Takes(f, p) = 0
      /\ Buyer(f) = who["buy"] /\ Seller(f) = who["sell"]
  BY <1>1 DEF DebitOf, Parties
<1>5. /\ Len(amounts) \in Nat
      /\ \A p \in Orders : /\ res[p] \in Nat /\ (res[p] # 0 => res[p] \in 1..Len(amounts))
                           /\ Left(p) \in Nat /\ (res[p] # 0 => amounts[res[p]] \in Nat)
  <2>1. Len(amounts) \in Nat /\ amounts \in Seq(Nat)
    BY DEF TypeOK, TypeRefs
  <2>2. \A p \in Orders : /\ res[p] \in Nat /\ (res[p] # 0 => res[p] \in 1..Len(amounts))
                          /\ Left(p) \in Nat
    BY AccountRules DEF TypeOK, TypeRefs, ReleasedRules
  <2>3. \A p \in Orders : res[p] # 0 => amounts[res[p]] \in Nat
    BY <2>1, <2>2
  <2> QED
    BY <2>1, <2>2, <2>3
<1>6. /\ PlainSteps' /\ Placed' /\ Traded' /\ EndsOnce' /\ Releasers'
      /\ \A p : Open(p)' <=> Open(p)
  BY <1>2, LockInHand DEF Working
<1>7. \A p \in Orders : res'[p] = res[p] \/ res'[p] = 0
  BY <1>3, <1>4
<1>8. \A p \in Orders, i \in Nat : Holds(p, i)' => Holds(p, i)
  <2> SUFFICES ASSUME NEW p \in Orders, NEW i \in Nat, Holds(p, i)'
               PROVE  Holds(p, i)
    OBVIOUS
  <2>1. i # 0 /\ (res'[p] = i \/ Lent(p, i)')
    BY DEF Holds
  <2>2. CASE res'[p] = i
    BY <1>7, <2>1, <2>2 DEF Holds
  <2>3. CASE Lent(p, i)'
    <3>1. CASE \E t \in Threads : rel[t].at = "unlock" /\ rel[t].order = p /\ rel[t].ref = i
      BY <2>1, <3>1 DEF Holds, Lent
    <3>2. CASE \E s \in Sides : Party(br.fill, s)' = p /\ ref[s] = i
      <4>1. \A s \in Sides : Party(br.fill, s)' = Party(f, s)
        BY <1>2, PlainFrame
      <4>2. PICK s \in Sides : who[s] = p /\ ref[s] = i
        BY <1>3, <3>2, <4>1
      <4> QED
        BY <1>3, <2>1, <4>2 DEF Holds
    <3> QED
      BY <1>0, <1>2, <2>3, <3>1, <3>2 DEF Lent
  <2> QED
    BY <2>1, <2>2, <2>3
<1>9. Owned'
  <2>1. \A p \in Orders, t \in Threads : rel[t].at = "unlock" /\ rel[t].order = p => res'[p] = 0
    BY <1>7 DEF LockInv, Owned
  <2> QED
    BY <1>2, <1>8, <2>1, OwnedLess
<1>10. \A s \in Sides : Left(who[s])' = Left(who[s]) - part[s]
  <2> SUFFICES ASSUME NEW s \in Sides
               PROVE  Left(who[s])' = Left(who[s]) - part[s]
    OBVIOUS
  <2>0. who[s] \in Orders /\ part[s] \in Nat
    BY <1>2
  <2>1. CASE ref[s] = 0
    BY <1>3, <2>0, <2>1 DEF Left
  <2>2. CASE ref[s] # 0
    <3>1. Left(who[s]) = amounts[ref[s]] /\ amounts[ref[s]] \in Nat
      BY <1>3, <1>5, <2>0, <2>2 DEF Left
    <3>2. CASE amounts[ref[s]] = part[s]
      <4>1. Left(who[s])' = 0
        BY <1>3, <3>2 DEF Left
      <4> QED
        BY <2>0, <3>1, <3>2, <4>1
    <3>3. CASE amounts[ref[s]] # part[s]
      BY <1>3, <2>2, <3>1, <3>3 DEF Left
    <3> QED
      BY <3>2, <3>3
  <2> QED
    BY <2>1, <2>2
<1>11. \A p \in Orders : (\A s \in Sides : p # who[s]) => Left(p)' = Left(p)
  <2> SUFFICES ASSUME NEW p \in Orders, \A s \in Sides : p # who[s]
               PROVE  Left(p)' = Left(p)
    OBVIOUS
  <2>1. res'[p] = res[p]
    BY <1>4
  <2>2. ASSUME res[p] # 0, NEW s \in Sides PROVE res[p] # ref[s]
    <3>1. Holds(p, res[p]) /\ (res[p] = ref[s] => Holds(who[s], res[p])) /\ who[s] \in Orders /\ res[p] \in Nat
      BY <1>2, <1>3, <1>5, <2>2 DEF Holds
    <3> QED
      BY <3>1 DEF LockInv, Owned
  <2> QED
    BY <1>4, <1>5, <2>1, <2>2 DEF Left
<1>12. Covered'
  <2> SUFFICES ASSUME NEW p \in Orders, res'[p] # 0 \/ Open(p)'
               PROVE  \E w : Covers(w, p)'
    BY <1>0 DEF Covered
  <2>1. PICK w : Covers(w, p)
    BY <1>6, <1>7 DEF LockInv, Covered
  <2>2. w[1] \in Nat /\ Left(p) >= Takes(f, p) + w[1]
    <3>1. 1 \in 1..Len(fills) + 1
      BY FillsTyped
    <3>2. InDebit(p) = Takes(f, p)
      BY <1>2 DEF InDebit
    <3> QED
      BY <2>1, <3>1, <3>2 DEF Covers
  <2>3. Left(p)' >= w[1]
    <3>1. CASE \A s \in Sides : p # who[s]
      BY <1>4, <1>5, <1>11, <2>2, <3>1
    <3>2. CASE \E s \in Sides : p = who[s]
      <4>1. PICK s \in Sides : p = who[s]
        BY <3>2
      <4>2. Left(p)' = Left(p) - part[s] /\ part[s] \in Nat /\ Takes(f, p) \in Nat /\ Left(p) \in Nat
        <5>1. Left(p)' = Left(p) - part[s]
          BY <1>10, <4>1
        <5>2. part[s] \in Nat /\ Left(p) \in Nat
          BY <1>2, <1>5
        <5>3. Takes(f, p) \in Nat
          BY <1>3, <4>1
        <5> QED
          BY <5>1, <5>2, <5>3
      <4>3. part[s] <= Takes(f, p)
        BY <1>3, <4>1
      <4> QED
        BY <2>2, <4>2, <4>3
    <3> QED
      BY <3>1, <3>2
  <2>4. InDebit(p)' = 0 /\ Needs(p)' = Needs(p) /\ \A g : Takes(g, p)' = Takes(g, p)
    BY <1>2, PlainFrame DEF InDebit, Needs, Notional
  <2>5. Left(p)' >= InDebit(p)' + w[1]
    BY <2>2, <2>3, <2>4
  <2>6. Covers(w, p)'
    BY <1>2, <2>1, <2>4, <2>5 DEF Covers
  <2> QED
    BY <2>6
<1>13. Backed'
  <2>1. ASSUME NEW s \in Sides
        PROVE  BackedBy(s, Party(br.fill, s))'
    <3>1. Party(br.fill, s)' = who[s] /\ Wanted(br.fill, s)' = Wanted(f, s)
      BY <1>2, <1>3, PlainFrame
    <3>2. ref[s] # 0 => amounts'[ref[s]] = amounts[ref[s]] - part[s] /\ amounts[ref[s]] \in Nat
      <4>1. who[s] \in Orders /\ ref[s] = res[who[s]]
        BY <1>2, <1>3
      <4>2. ref[s] # 0 => amounts[ref[s]] \in Nat
        BY <1>5, <4>1
      <4> QED
        BY <1>3, <4>2
    <3>3. ref[s] # 0 => res'[who[s]] = ref[s] \/ (res'[who[s]] = 0 /\ amounts'[ref[s]] = 0)
      BY <1>3, <3>2
    <3> QED
      BY <1>2, <1>3, <3>1, <3>3 DEF BackedBy, Ends
  <2> QED
    BY <1>2, <2>1 DEF Backed
<1>14. Found'
  BY <1>0, <1>2, <1>6, <1>7, PlainFrame DEF LockInv, Found
<1>15. LocksAddUp'
  <2>1. \A p \in Orders : ReleasedFor(p)' = ReleasedFor(p)
    <3>1. ASSUME NEW t \in Threads, rel[t].at = "unlock"
          PROVE  amounts'[rel[t].ref] = amounts[rel[t].ref]
      <4>1. PICK o \in Orders : o = rel[t].order
        <5>1. rel[t].at # "none" => rel[t].order \in Orders
          BY DEF TypeOK, TypeRefs, NotReleasing, ReleaseType
        <5> QED
          BY <3>1, <5>1
      <4>2. rel[t].ref \in 1..Len(amounts)
        BY <3>1 DEF TypeOK, TypeRefs
      <4>3. ASSUME NEW s \in Sides, rel[t].ref = ref[s] PROVE FALSE
        <5>1. Holds(o, ref[s]) /\ Holds(who[s], ref[s]) /\ who[s] \in Orders /\ ref[s] \in Nat /\ ref[s] # 0
          BY <1>2, <1>3, <1>5, <3>1, <4>1, <4>2, <4>3 DEF Holds, Lent
        <5>2. who[s] = o
          BY <5>1 DEF LockInv, Owned
        <5>3. res[o] = 0
          BY <3>1, <4>1 DEF LockInv, Owned
        <5> QED
          BY <1>3, <5>1, <5>2, <5>3
      <4> QED
        BY <1>4, <4>2, <4>3
    <3> QED
      BY <1>2, <3>1, ReleasesSame
  <2>2. \A p \in Orders : UnlockingFor(p) = 0 /\ TrackedFor(p)' = TrackedFor(p)
    BY <1>2, PlainFrame DEF UnlockingFor, TrackedFor
  <2>3. \A s \in Sides : UnlockingFor(who[s])' = part[s]
    <3>1. /\ Buyer(br.fill)' = who["buy"] /\ Seller(br.fill)' = who["sell"]
      BY <1>2, <1>4, PlainFrame
    <3>2. \A s \in Sides : OrderOf'[who[s]].side = s
      BY <1>3, PlainFrame
    <3> QED
      BY <1>2, <3>1, <3>2 DEF UnlockingFor
  <2>4. \A p \in Orders : (\A s \in Sides : p # who[s]) => UnlockingFor(p)' = 0
    <3>1. /\ Buyer(br.fill)' = who["buy"] /\ Seller(br.fill)' = who["sell"]
      BY <1>2, <1>4, PlainFrame
    <3> QED
      BY <1>2, <3>1 DEF UnlockingFor
  <2>5. \A p \in Orders : Left(p)' + UnlockingFor(p)' = Left(p) + UnlockingFor(p)
    <3> SUFFICES ASSUME NEW p \in Orders PROVE Left(p)' + UnlockingFor(p)' = Left(p) + UnlockingFor(p)
      OBVIOUS
    <3>1. CASE \A s \in Sides : p # who[s]
      BY <1>11, <2>2, <2>4, <3>1
    <3>2. CASE \E s \in Sides : p = who[s]
      <4>1. PICK s \in Sides : p = who[s]
        BY <3>2
      <4>2. Left(p)' = Left(p) - part[s] /\ UnlockingFor(p)' = part[s] /\ UnlockingFor(p) = 0
             /\ part[s] \in Nat /\ Left(p) \in Nat
        BY <1>2, <1>5, <1>10, <2>2, <2>3, <4>1
      <4> QED
        BY <4>2
    <3> QED
      BY <3>1, <3>2
  <2>6. \A p \in Orders : /\ TrackedFor(p) \in Nat /\ Left(p) \in Nat /\ UnlockingFor(p) \in Nat /\ ReleasedFor(p) \in Nat
                          /\ Left(p)' \in Nat /\ UnlockingFor(p)' \in Nat
    BY <1>0, AccountRules, AccountRulesNext DEF ReleasedRules
  <2>7. \A p \in Orders : TrackedFor(p)' + Left(p)' + UnlockingFor(p)' + ReleasedFor(p)'
                            = TrackedFor(p) + Left(p) + UnlockingFor(p) + ReleasedFor(p)
    BY <2>1, <2>2, <2>5, <2>6
  <2> QED
    BY <1>2, <2>7, LocksSame
<1> QED
  BY <1>6, <1>9, <1>12, <1>13, <1>14, <1>15 DEF LockInv

\* What a settlement unlocks is locked.
LEMMA UnlockedBoth ==
  ASSUME TypeOK, LockInv, br.at \in {"settle", "restore"}, NEW f, NEW who, Parties(f, who)
  PROVE  /\ \A s \in Sides : /\ br.unlock[s] \in Nat /\ UnlockingFor(who[s]) = br.unlock[s]
                             /\ UserOf(who[s]) \in Users /\ br.unlock[s] <= locked[UserOf(who[s])][ReservedAsset(who[s])]
         /\ \A p \in Orders : (\A s \in Sides : p # who[s]) => UnlockingFor(p) = 0
         /\ \E lk \in [Users -> [Assets -> Nat]] :
              /\ lk = Unlocked(locked, UserOf(who["buy"]), "quote", br.unlock["buy"])
              /\ \A u \in Users, a \in Assets :
                   lk[u][a] = locked[u][a] + (IF u = UserOf(who["buy"]) /\ a = "quote" THEN -br.unlock["buy"] ELSE 0)
              /\ \A u \in Users, a \in Assets :
                   LockedAfter(f, br.unlock)[u][a]
                     = lk[u][a] + (IF u = UserOf(who["sell"]) /\ a = "base" THEN -br.unlock["sell"] ELSE 0)
<1>1. /\ f = br.fill /\ Sides = {"buy", "sell"} /\ who \in [Sides -> Orders]
      /\ Buyer(f) = who["buy"] /\ Seller(f) = who["sell"]
      /\ \A s \in Sides : /\ OrderOf[who[s]].side = s
                          /\ ReservedAsset(who[s]) = IF s = "buy" THEN "quote" ELSE "base"
  BY DEF Parties, Sides
<1>2. \A s \in Sides : br.unlock[s] \in Nat /\ UnlockingFor(who[s]) = br.unlock[s] /\ who[s] \in Orders
  BY <1>1 DEF UnlockingFor, TypeOK, TypeBridge
<1>3. \A p \in Orders : (\A s \in Sides : p # who[s]) => UnlockingFor(p) = 0
  BY <1>1 DEF UnlockingFor
<1>4. ASSUME NEW s \in Sides
      PROVE  UserOf(who[s]) \in Users /\ br.unlock[s] <= locked[UserOf(who[s])][ReservedAsset(who[s])]
  <2>1. UserOf(who[s]) \in Users /\ ReservedAsset(who[s]) \in Assets
    BY <1>2, OrderType
  <2>2. Accounts[who[s]] <= locked[UserOf(who[s])][ReservedAsset(who[s])]
    BY <1>2, AccountLocked DEF LockInv
  <2>3. br.unlock[s] <= Accounts[who[s]]
    <3>1. PICK o \in Orders : o = who[s]
      BY <1>2
    <3>2. /\ Accounts[o] = TrackedFor(o) + Left(o) + UnlockingFor(o) + ReleasedFor(o)
          /\ TrackedFor(o) \in Nat /\ Left(o) \in Nat /\ UnlockingFor(o) \in Nat /\ ReleasedFor(o) \in Nat
      BY AccountRules DEF ReleasedRules
    <3> QED
      BY <1>2, <3>1, <3>2
  <2>4. locked[UserOf(who[s])][ReservedAsset(who[s])] \in Nat /\ Accounts[who[s]] \in Nat /\ br.unlock[s] \in Nat
    BY <1>2, <2>1, AccountRules DEF TypeOK, TypeMoney, ReleasedRules
  <2> QED
    BY <2>1, <2>2, <2>3, <2>4
<1>5. PICK b \in Users, l \in Users, nb \in Nat, nl \in Nat :
        b = UserOf(who["buy"]) /\ l = UserOf(who["sell"]) /\ nb = br.unlock["buy"] /\ nl = br.unlock["sell"]
  BY <1>1, <1>2, <1>4
<1>6. nb <= locked[b]["quote"] /\ nl <= locked[l]["base"] /\ locked \in [Users -> [Assets -> Nat]]
      /\ "quote" \in Assets /\ "base" \in Assets
  BY <1>1, <1>4, <1>5 DEF TypeOK, TypeMoney, Assets
<1>7. PICK lk : lk = Unlocked(locked, b, "quote", nb)
  OBVIOUS
<1>8. /\ lk \in [Users -> [Assets -> Nat]]
      /\ \A u \in Users, a \in Assets : lk[u][a] = locked[u][a] + (IF u = b /\ a = "quote" THEN -nb ELSE 0)
  BY <1>6, <1>7, UnlockedExactly
<1>9. nl <= lk[l]["base"]
  <2>1. lk[l]["base"] = locked[l]["base"] + 0 /\ locked[l]["base"] \in Nat
    BY <1>6, <1>8
  <2> QED
    BY <1>6, <2>1
<1>10. LockedAfter(f, br.unlock) = Unlocked(lk, l, "base", nl)
  BY <1>1, <1>5, <1>7 DEF LockedAfter
<1>11. \A u \in Users, a \in Assets :
         LockedAfter(f, br.unlock)[u][a] = lk[u][a] + (IF u = l /\ a = "base" THEN -nl ELSE 0)
  <2>1. PICK l2k : l2k = Unlocked(lk, l, "base", nl)
    OBVIOUS
  <2>2. \A u \in Users, a \in Assets : l2k[u][a] = lk[u][a] + (IF u = l /\ a = "base" THEN -nl ELSE 0)
    BY <1>6, <1>8, <1>9, <2>1, UnlockedExactly
  <2> QED
    BY <1>10, <2>1, <2>2
<1> QED
  BY <1>2, <1>3, <1>4, <1>5, <1>7, <1>8, <1>11

\* A fill whose parties' reservations are both reduced by it can be paid.
LEMMA BackedIsFunded ==
  ASSUME TypeOK, Solvent, LockInv, br.at = "settle", NEW f, NEW who, Parties(f, who),
         \A s \in Sides : br.unlock[s] = Wanted(f, s)
  PROVE  Funded(f, br.unlock)
<1>1. /\ f = br.fill /\ Sides = {"buy", "sell"} /\ who \in [Sides -> Orders]
      /\ Buyer(f) = who["buy"] /\ Seller(f) = who["sell"]
      /\ \A s \in Sides : ReservedAsset(who[s]) = IF s = "buy" THEN "quote" ELSE "base"
  BY DEF Parties, Sides
<1>2. PICK b \in Users, l \in Users, nb \in Nat, nl \in Nat :
        b = UserOf(who["buy"]) /\ l = UserOf(who["sell"]) /\ nb = br.unlock["buy"] /\ nl = br.unlock["sell"]
  BY <1>1, UnlockedBoth
<1>3. PICK lk \in [Users -> [Assets -> Nat]] :
              /\ lk = Unlocked(locked, b, "quote", nb)
              /\ \A u \in Users, a \in Assets : lk[u][a] = locked[u][a] + (IF u = b /\ a = "quote" THEN -nb ELSE 0)
              /\ \A u \in Users, a \in Assets :
                   LockedAfter(f, br.unlock)[u][a] = lk[u][a] + (IF u = l /\ a = "base" THEN -nl ELSE 0)
  BY <1>2, UnlockedBoth
<1>4. nb = Cost(f) /\ nl = f.qty
  BY <1>1, <1>2 DEF Wanted
<1>5. /\ "quote" \in Assets /\ "base" \in Assets
      /\ locked[b]["quote"] \in Nat /\ locked[l]["base"] \in Nat /\ bal[b]["quote"] \in Int /\ bal[l]["base"] \in Int
      /\ locked[b]["quote"] <= bal[b]["quote"] /\ locked[l]["base"] <= bal[l]["base"]
  BY DEF Assets, TypeOK, TypeMoney, Solvent
<1>6. lk[b]["quote"] = locked[b]["quote"] - nb
  BY <1>3, <1>5
<1>7. LockedAfter(f, br.unlock)[l]["base"] = locked[l]["base"] - nl
  <2>1. lk[l]["base"] = locked[l]["base"]
    BY <1>3, <1>5
  <2>2. LockedAfter(f, br.unlock)[l]["base"] = lk[l]["base"] + (-nl)
    BY <1>3, <1>5
  <2> QED
    BY <1>5, <2>1, <2>2
<1>8. bal[b]["quote"] - lk[b]["quote"] >= Cost(f)
  BY <1>4, <1>5, <1>6
<1>9. bal[l]["base"] + (IF b = l THEN f.qty ELSE 0) - LockedAfter(f, br.unlock)[l]["base"] >= f.qty
  BY <1>2, <1>4, <1>5, <1>7
<1> QED
  BY <1>1, <1>2, <1>3, <1>8, <1>9 DEF Funded

\* What the bridge's next place leaves alone.
LEMMA LockSettles ==
  ASSUME TypeOK, TypeOK', LockInv,
         UNCHANGED <<deployment, amounts, res, at, queue, taker, resting, rem, emitted, fills, rel>>,
         br.at = "settle", br'.at \in {"taker", "restore"}, br'.fill = br.fill, br'.loaded = br.loaded, br'.ref = br.ref
  PROVE  /\ PlainSteps' /\ Placed' /\ Traded' /\ EndsOnce' /\ Releasers' /\ Owned' /\ Covered' /\ Found'
         /\ \A p \in Orders : /\ ReleasedFor(p)' = ReleasedFor(p) /\ TrackedFor(p)' = TrackedFor(p)
                              /\ Left(p)' = Left(p)
<1>0. Orders' = Orders /\ Threads' = Threads
  BY PlainFrame
<1>1. /\ PlainSteps' /\ Placed' /\ Traded' /\ EndsOnce' /\ Releasers'
      /\ \A p : Open(p)' <=> Open(p)
  BY LockInHand DEF Working
<1>2. \A p \in Orders, i \in Nat : Holds(p, i)' => Holds(p, i)
  <2> SUFFICES ASSUME NEW p \in Orders, NEW i \in Nat, Holds(p, i)'
               PROVE  Holds(p, i)
    OBVIOUS
  <2>1. \A s \in Sides : Party(br.fill, s)' = Party(br.fill, s)
    BY PlainFrame
  <2>2. Lent(p, i)' => Lent(p, i)
    BY <1>0, <2>1 DEF Lent
  <2> QED
    BY <2>2 DEF Holds
<1>3. Owned'
  BY <1>2, OwnedLess DEF LockInv, Owned
<1>4. \A p : Left(p)' = Left(p)
  BY DEF Left
<1>5. Covered'
  <2>1. \A p : InDebit(p)' = InDebit(p) /\ Needs(p)' = Needs(p)
    BY PlainFrame DEF InDebit, Needs, Notional
  <2>2. \A w, p : Covers(w, p)' <=> Covers(w, p)
    BY <1>4, <2>1, PlainFrame DEF Covers
  <2> QED
    BY <1>0, <1>1, <2>2 DEF LockInv, Covered
<1>6. Found'
  BY <1>0, <1>1, PlainFrame DEF LockInv, Found
<1>7. \A p \in Orders : ReleasedFor(p)' = ReleasedFor(p) /\ TrackedFor(p)' = TrackedFor(p)
  BY ReleasesSame, PlainFrame DEF TrackedFor
<1> QED
  BY <1>1, <1>3, <1>4, <1>5, <1>6, <1>7

\* A fill is settled.
LEMMA LockBridgeSettle ==
  ASSUME TypeOK, TypeOK', Plain, LockInv, UNCHANGED deployment, BridgeSettle
  PROVE  LockInv'
<1>0. Orders' = Orders /\ Threads' = Threads
  BY PlainFrame
<1>1. /\ br.at = "settle" /\ locked' = LockedAfter(br.fill, br.unlock) /\ br' = [br EXCEPT !.at = "taker"]
      /\ UNCHANGED <<amounts, res, queue, taker, resting, rem, emitted, fills, at, rel>>
  BY DEF BridgeSettle, Plain
<1>2. br'.at = "taker" /\ br'.fill = br.fill /\ br'.loaded = br.loaded /\ br'.ref = br.ref
  BY <1>1 DEF TypeOK, TypeBridge
<1>3. /\ PlainSteps' /\ Placed' /\ Traded' /\ EndsOnce' /\ Releasers' /\ Owned' /\ Covered' /\ Found'
      /\ \A p \in Orders : /\ ReleasedFor(p)' = ReleasedFor(p) /\ TrackedFor(p)' = TrackedFor(p)
                           /\ Left(p)' = Left(p)
  BY <1>1, <1>2, LockSettles
<1>4. Backed'
  BY <1>2 DEF Backed
<1>5. PICK f, who : Parties(f, who)
  BY <1>1, PartiesOf
<1>6. f = br.fill /\ Sides = {"buy", "sell"} /\ who \in [Sides -> Orders] /\ who["buy"] # who["sell"]
      /\ \A s \in Sides : ReservedAsset(who[s]) = IF s = "buy" THEN "quote" ELSE "base"
  BY <1>5 DEF Parties, Sides
<1>7. /\ \A s \in Sides : br.unlock[s] \in Nat /\ UnlockingFor(who[s]) = br.unlock[s]
      /\ \A p \in Orders : (\A s \in Sides : p # who[s]) => UnlockingFor(p) = 0
  BY <1>1, <1>5, UnlockedBoth
<1>8. PICK b \in Orders, l \in Orders, nb \in Nat, nl \in Nat :
        b = who["buy"] /\ l = who["sell"] /\ nb = br.unlock["buy"] /\ nl = br.unlock["sell"]
  BY <1>6, <1>7
<1>9. PICK lk \in [Users -> [Assets -> Nat]] :
              /\ \A u \in Users, a \in Assets : lk[u][a] = locked[u][a] + (IF u = UserOf(b) /\ a = "quote" THEN -nb ELSE 0)
              /\ \A u \in Users, a \in Assets :
                   locked'[u][a] = lk[u][a] + (IF u = UserOf(l) /\ a = "base" THEN -nl ELSE 0)
  BY <1>1, <1>5, <1>6, <1>8, UnlockedBoth
<1>10. \A p \in Orders : UnlockingFor(p)' = 0
  BY <1>2 DEF UnlockingFor
<1>11. \A p \in Orders : UnlockingFor(p) = (IF p = b THEN nb ELSE 0) + (IF p = l THEN nl ELSE 0)
  BY <1>6, <1>7, <1>8
<1>12. PICK g : g = [p \in Orders |-> Accounts[p] + (IF p = b THEN -nb ELSE 0)]
  OBVIOUS
<1>13. \A p \in Orders : /\ g[p] = Accounts[p] + (IF p = b THEN -nb ELSE 0)
                          /\ Accounts'[p] = g[p] + (IF p = l THEN -nl ELSE 0)
                          /\ Accounts[p] \in Int /\ g[p] \in Int /\ Accounts'[p] \in Int
  <2> SUFFICES ASSUME NEW p \in Orders
               PROVE  /\ g[p] = Accounts[p] + (IF p = b THEN -nb ELSE 0)
                      /\ Accounts'[p] = g[p] + (IF p = l THEN -nl ELSE 0)
                      /\ Accounts[p] \in Int /\ g[p] \in Int /\ Accounts'[p] \in Int
    OBVIOUS
  <2>1. /\ Accounts[p] = TrackedFor(p) + Left(p) + UnlockingFor(p) + ReleasedFor(p)
        /\ TrackedFor(p) \in Nat /\ Left(p) \in Nat /\ UnlockingFor(p) \in Nat /\ ReleasedFor(p) \in Nat
    BY AccountRules DEF ReleasedRules
  <2>2. Accounts'[p] = TrackedFor(p)' + Left(p)' + UnlockingFor(p)' + ReleasedFor(p)'
    BY <1>0, AccountRulesNext DEF ReleasedRules
  <2>3. Accounts'[p] = TrackedFor(p) + Left(p) + ReleasedFor(p)
    BY <1>3, <1>10, <2>1, <2>2
  <2>4. g[p] = Accounts[p] + (IF p = b THEN -nb ELSE 0)
    BY <1>12
  <2>5. UnlockingFor(p) = (IF p = b THEN nb ELSE 0) + (IF p = l THEN nl ELSE 0) /\ b # l
    BY <1>6, <1>8, <1>11
  <2> HIDE <1>12
  <2> QED
    BY <2>1, <2>3, <2>4, <2>5
<1>14. IntOn(Accounts, Orders) /\ IntOn(g, Orders) /\ IntOn(Accounts', Orders)
  BY <1>13 DEF IntOn
<1>15. /\ ReservedAsset(b) = "quote" /\ ReservedAsset(l) = "base" /\ -nb \in Int /\ -nl \in Int
  BY <1>6, <1>8
<1>16. Adds(lk, g)
  <2>1. Adds(locked, Accounts)
    BY DEF LockInv, LocksAddUp
  <2>2. \A u \in Users, a \in Assets :
          lk[u][a] = locked[u][a] + (IF u = UserOf(b) /\ a = ReservedAsset(b) THEN -nb ELSE 0)
    BY <1>9, <1>15
  <2> QED
    BY <1>13, <1>14, <1>15, <2>1, <2>2, AddsMove
<1>17. Adds(locked', Accounts')
  <2>1. \A u \in Users, a \in Assets :
          locked'[u][a] = lk[u][a] + (IF u = UserOf(l) /\ a = ReservedAsset(l) THEN -nl ELSE 0)
    BY <1>9, <1>15
  <2> QED
    BY <1>13, <1>14, <1>15, <1>16, <2>1, AddsMove
<1>18. LocksAddUp'
  BY <1>17, PlainFrame DEF LocksAddUp, Adds, Mine
<1> QED
  BY <1>3, <1>4, <1>18 DEF LockInv

\* A fill cannot be paid.
LEMMA LockBridgeSettleFails ==
  ASSUME TypeOK, TypeOK', Solvent, Plain, LockInv, UNCHANGED deployment, BridgeSettleFails
  PROVE  LockInv'
<1>0. Orders' = Orders /\ Threads' = Threads
  BY PlainFrame
<1>1. /\ br.at = "settle" /\ ~Funded(br.fill, br.unlock) /\ br' = [br EXCEPT !.at = "restore"]
      /\ UNCHANGED <<locked, amounts, res, queue, taker, resting, rem, emitted, fills, at, rel>>
  BY DEF BridgeSettleFails, Plain
<1>2. br'.at = "restore" /\ br'.fill = br.fill /\ br'.loaded = br.loaded /\ br'.ref = br.ref /\ br'.unlock = br.unlock
  BY <1>1 DEF TypeOK, TypeBridge
<1>3. /\ PlainSteps' /\ Placed' /\ Traded' /\ EndsOnce' /\ Releasers' /\ Owned' /\ Covered' /\ Found'
      /\ \A p \in Orders : /\ ReleasedFor(p)' = ReleasedFor(p) /\ TrackedFor(p)' = TrackedFor(p)
                           /\ Left(p)' = Left(p)
  BY <1>1, <1>2, LockSettles
<1>4. PICK f, who : Parties(f, who)
  BY <1>1, PartiesOf
<1>5. f = br.fill /\ \A s \in Sides : Party(f, s) = who[s] /\ Party(br.fill, s)' = who[s] /\ Wanted(br.fill, s)' = Wanted(f, s)
  BY <1>2, <1>4, PlainFrame DEF Parties
<1>6. \A s \in Sides : BackedBy(s, who[s])
  BY <1>1, <1>5 DEF LockInv, Backed
<1>7. PICK s \in Sides : br.unlock[s] # Wanted(f, s)
  BY <1>1, <1>4, <1>5, BackedIsFunded
<1>8. br.ref[s] = 0 /\ ~Ends(f, who[s])
  BY <1>5, <1>6, <1>7 DEF BackedBy
<1>9. Backed'
  <2>1. \A z \in Sides : BackedBy(z, Party(br.fill, z))'
    BY <1>1, <1>2, <1>5, <1>6 DEF BackedBy, Ends
  <2>2. br'.ref[s] = 0 /\ ~Ends(br.fill, Party(br.fill, s))'
    BY <1>2, <1>5, <1>8 DEF Ends
  <2> QED
    BY <2>1, <2>2 DEF Backed
<1>10. \A p \in Orders : UnlockingFor(p)' = UnlockingFor(p)
  <2>1. Buyer(br.fill)' = Buyer(br.fill) /\ Seller(br.fill)' = Seller(br.fill) /\ OrderOf' = OrderOf
    BY <1>2, PlainFrame
  <2> QED
    BY <1>1, <1>2, <2>1 DEF UnlockingFor
<1>11. LocksAddUp'
  BY <1>1, <1>3, <1>10, LocksSame
<1> QED
  BY <1>3, <1>9, <1>11 DEF LockInv

\* What is given back: the reservation of the party that the fill ends, if it was reduced.
RestoreOf(f, who, y, z, k, n) ==
  /\ Parties(f, who) /\ y \in Sides /\ z \in Sides /\ y # z /\ Sides = {y, z}
  /\ Ends(f, who[y]) /\ Open(who[y]) /\ k \in Nat /\ k = br.ref[y] /\ n \in Nat /\ n = br.unlock[y]
  /\ br.unlock[z] = 0 /\ (k = 0 => n = 0)
  /\ k # 0 => res[who[y]] = k \/ (res[who[y]] = 0 /\ amounts[k] = 0)
  /\ k # 0 => k \in 1..Len(amounts) /\ amounts'[k] = amounts[k] + n /\ res'[who[y]] = k
  /\ k = 0 => res'[who[y]] = res[who[y]]
  /\ \A i \in 1..Len(amounts) : i # k => amounts'[i] = amounts[i]
  /\ \A p \in Orders : p # who[y] => res'[p] = res[p]
  /\ br.at = "restore" /\ br'.at = "taker" /\ br'.fill = br.fill /\ br'.loaded = br.loaded
  /\ UNCHANGED <<locked, queue, taker, resting, rem, emitted, fills, at, rel>>

LEMMA RestoreOne ==
  ASSUME TypeOK, Plain, LockInv, BridgeRestore
  PROVE  \E f, who, y, z, k, n : RestoreOf(f, who, y, z, k, n)
<1>1. /\ br.at = "restore" /\ br' = [br EXCEPT !.at = "taker"]
      /\ UNCHANGED <<locked, queue, taker, resting, rem, emitted, fills, at, rel>>
  BY DEF BridgeRestore, Plain
<1>2. PICK f, who : Parties(f, who)
  BY <1>1, PartiesOf
<1>3. /\ f = br.fill /\ who \in [Sides -> Orders] /\ who["buy"] # who["sell"] /\ Sides = {"buy", "sell"}
      /\ \A s \in Sides : Party(f, s) = who[s] /\ OrderOf[who[s]].side = s
      /\ \E s \in Sides : Ends(f, who[s])
  BY <1>2 DEF Parties, Sides
<1>4. PICK z \in Sides : br.ref[z] = 0 /\ ~Ends(f, who[z])
  BY <1>1, <1>3 DEF LockInv, Backed
<1>5. PICK y \in Sides : Ends(f, who[y])
  BY <1>3
<1>6. y # z /\ Sides = {y, z}
  BY <1>3, <1>4, <1>5
<1>7. BackedBy(y, who[y]) /\ BackedBy(z, who[z])
  BY <1>1, <1>3 DEF LockInv, Backed
<1>8. PICK k \in Nat, n \in Nat : k = br.ref[y] /\ n = br.unlock[y] /\ k <= Len(amounts)
  BY DEF TypeOK, TypeRefs, TypeBridge
<1>9. /\ br.unlock[z] = 0 /\ (k = 0 => n = 0)
      /\ k # 0 => res[who[y]] = k \/ (res[who[y]] = 0 /\ amounts[k] = 0)
  BY <1>3, <1>4, <1>5, <1>7, <1>8 DEF BackedBy
<1>10. Open(who[y])
  BY <1>1, <1>3, <1>5 DEF Open, InHand, Working
<1>11. amounts \in Seq(Nat) /\ DOMAIN amounts = 1..Len(amounts) /\ Len(amounts) \in Nat /\ (k # 0 => k \in 1..Len(amounts))
  BY <1>8 DEF TypeOK, TypeRefs
<1>12. /\ amounts' = [i \in DOMAIN amounts |-> amounts[i] + (IF br.ref["buy"] = i THEN br.unlock["buy"] ELSE 0)
                                                          + (IF br.ref["sell"] = i THEN br.unlock["sell"] ELSE 0)]
       /\ res' = [o \in Orders |->
               IF \E s \in {"buy", "sell"} : o = Party(br.fill, s) /\ br.ref[s] # 0
                 THEN br.ref[OrderOf[o].side] ELSE res[o]]
  BY DEF BridgeRestore
<1>13. ASSUME NEW i \in 1..Len(amounts)
       PROVE  amounts'[i] = IF i = k THEN amounts[i] + n ELSE amounts[i]
  <2>1. amounts[i] \in Nat
    BY <1>11
  <2>2. amounts'[i] = amounts[i] + (IF br.ref["buy"] = i THEN br.unlock["buy"] ELSE 0)
                                 + (IF br.ref["sell"] = i THEN br.unlock["sell"] ELSE 0)
    BY <1>11, <1>12
  <2>3. (y = "buy" /\ z = "sell") \/ (y = "sell" /\ z = "buy")
    BY <1>3, <1>6
  <2> QED
    BY <1>4, <1>8, <2>1, <2>2, <2>3
<1>14. res'[who[y]] = IF k = 0 THEN res[who[y]] ELSE k
  <2>1. who[y] \in Orders /\ OrderOf[who[y]].side = y /\ who[y] # who[z]
    BY <1>3, <1>6
  <2>2. (\E s \in {"buy", "sell"} : who[y] = Party(br.fill, s) /\ br.ref[s] # 0) <=> k # 0
    BY <1>3, <1>6, <1>8, <2>1
  <2> QED
    BY <1>8, <1>12, <2>1, <2>2
<1>15. ASSUME NEW p \in Orders, p # who[y]
       PROVE  res'[p] = res[p]
  <2>1. ~(\E s \in {"buy", "sell"} : p = Party(br.fill, s) /\ br.ref[s] # 0)
    BY <1>3, <1>4, <1>6, <1>15
  <2> QED
    BY <1>12, <2>1
<1>16. br'.at = "taker" /\ br'.fill = br.fill /\ br'.loaded = br.loaded
  BY <1>1 DEF TypeOK, TypeBridge
<1>17. RestoreOf(f, who, y, z, k, n)
  BY <1>1, <1>2, <1>5, <1>6, <1>8, <1>9, <1>10, <1>11, <1>13, <1>14, <1>15, <1>16 DEF RestoreOf
<1> QED
  BY <1>17

\* The reservations are put back.
LEMMA LockBridgeRestore ==
  ASSUME TypeOK, TypeOK', Plain, LockInv, UNCHANGED deployment, BridgeRestore
  PROVE  LockInv'
<1>0. Orders' = Orders /\ Threads' = Threads
  BY PlainFrame
<1>1. PICK f, who, y, z, k, n : RestoreOf(f, who, y, z, k, n)
  BY RestoreOne
<1>2. /\ f = br.fill /\ y \in Sides /\ z \in Sides /\ y # z /\ Sides = {y, z} /\ who \in [Sides -> Orders]
      /\ k \in Nat /\ k = br.ref[y] /\ n \in Nat /\ n = br.unlock[y] /\ br.unlock[z] = 0 /\ (k = 0 => n = 0)
      /\ br.at = "restore" /\ br'.at = "taker" /\ br'.fill = br.fill /\ br'.loaded = br.loaded
      /\ UNCHANGED <<locked, queue, taker, resting, rem, emitted, fills, at, rel>>
      /\ Parties(f, who)
  BY <1>1 DEF RestoreOf, Parties
<1>3. PICK o \in Orders : o = who[y] /\ Open(o) /\ Party(f, y) = o
  BY <1>1, <1>2 DEF RestoreOf, Parties
<1>4. /\ k # 0 => (res[o] = k \/ (res[o] = 0 /\ amounts[k] = 0)) /\ amounts'[k] = amounts[k] + n /\ res'[o] = k
                  /\ k \in 1..Len(amounts)
      /\ k = 0 => res'[o] = res[o]
      /\ \A i \in 1..Len(amounts) : i # k => amounts'[i] = amounts[i]
      /\ \A p \in Orders : p # o => res'[p] = res[p]
  BY <1>1, <1>3 DEF RestoreOf
<1>5. /\ Len(amounts) \in Nat
      /\ \A p \in Orders : /\ res[p] \in Nat /\ (res[p] # 0 => res[p] \in 1..Len(amounts))
                           /\ Left(p) \in Nat /\ (res[p] # 0 => amounts[res[p]] \in Nat)
      /\ k # 0 => amounts[k] \in Nat
  <2>1. Len(amounts) \in Nat /\ amounts \in Seq(Nat)
    BY DEF TypeOK, TypeRefs
  <2>2. \A p \in Orders : /\ res[p] \in Nat /\ (res[p] # 0 => res[p] \in 1..Len(amounts))
                          /\ Left(p) \in Nat
    BY AccountRules DEF TypeOK, TypeRefs, ReleasedRules
  <2>3. \A p \in Orders : res[p] # 0 => amounts[res[p]] \in Nat
    BY <2>1, <2>2
  <2>4. k # 0 => amounts[k] \in Nat
    BY <1>4, <2>1
  <2> QED
    BY <2>1, <2>2, <2>3, <2>4
<1>6. /\ PlainSteps' /\ Placed' /\ Traded' /\ EndsOnce' /\ Releasers'
      /\ \A p : Open(p)' <=> Open(p)
  BY <1>2, LockInHand DEF Working
<1>7. k # 0 => Holds(o, k)
  BY <1>2, <1>3 DEF Holds, Lent
<1>8. \A t \in Threads : rel[t].order # o
  BY <1>3 DEF LockInv, Releasers
<1>9. \A p \in Orders, i \in Nat : Holds(p, i)' => Holds(p, i)
  <2> SUFFICES ASSUME NEW p \in Orders, NEW i \in Nat, Holds(p, i)'
               PROVE  Holds(p, i)
    OBVIOUS
  <2>1. i # 0 /\ (res'[p] = i \/ Lent(p, i)')
    BY DEF Holds
  <2>2. CASE res'[p] = i
    BY <1>4, <1>7, <2>1, <2>2 DEF Holds
  <2>3. CASE Lent(p, i)'
    <3>1. \E t \in Threads : rel[t].at = "unlock" /\ rel[t].order = p /\ rel[t].ref = i
      BY <1>0, <1>2, <2>3 DEF Lent
    <3> QED
      BY <2>1, <3>1 DEF Holds, Lent
  <2> QED
    BY <2>1, <2>2, <2>3
<1>10. Owned'
  <2>1. \A p \in Orders, t \in Threads : rel[t].at = "unlock" /\ rel[t].order = p => res'[p] = 0
    BY <1>4, <1>8 DEF LockInv, Owned
  <2> QED
    BY <1>2, <1>9, <2>1, OwnedLess
<1>11. Left(o)' = Left(o) + n
  <2>1. CASE k = 0
    BY <1>2, <1>4, <1>5, <2>1 DEF Left
  <2>2. CASE k # 0
    <3>1. Left(o) = amounts[k]
      BY <1>4, <2>2 DEF Left
    <3>2. Left(o)' = amounts'[k]
      BY <1>4, <2>2 DEF Left
    <3> QED
      BY <1>4, <2>2, <3>1, <3>2
  <2> QED
    BY <2>1, <2>2
<1>12. \A p \in Orders : p # o => Left(p)' = Left(p)
  <2> SUFFICES ASSUME NEW p \in Orders, p # o
               PROVE  Left(p)' = Left(p)
    OBVIOUS
  <2>1. res'[p] = res[p]
    BY <1>4
  <2>2. res[p] # 0 => res[p] # k
    <3>1. res[p] # 0 => Holds(p, res[p]) /\ res[p] \in Nat
      BY <1>5 DEF Holds
    <3> QED
      BY <1>2, <1>7, <3>1 DEF LockInv, Owned
  <2> QED
    BY <1>4, <1>5, <2>1, <2>2 DEF Left
<1>13. Covered'
  <2> SUFFICES ASSUME NEW p \in Orders, res'[p] # 0 \/ Open(p)'
               PROVE  \E w : Covers(w, p)'
    BY <1>0 DEF Covered
  <2>1. PICK w : Covers(w, p)
    BY <1>3, <1>4, <1>6 DEF LockInv, Covered
  <2>2. InDebit(p)' = 0 /\ InDebit(p) = 0 /\ Needs(p)' = Needs(p) /\ \A g : Takes(g, p)' = Takes(g, p)
    BY <1>2, PlainFrame DEF InDebit, Needs, Notional
  <2>3. w[1] \in Nat /\ Left(p) >= w[1]
    <3>1. 1 \in 1..Len(fills) + 1
      BY FillsTyped
    <3>2. w[1] \in Nat /\ Left(p) >= 0 + w[1]
      BY <2>1, <2>2, <3>1 DEF Covers
    <3> QED
      BY <1>5, <3>2
  <2>4. Left(p)' >= InDebit(p)' + w[1]
    <3>1. Left(p)' \in Nat /\ Left(p)' >= Left(p)
      BY <1>2, <1>5, <1>11, <1>12
    <3> QED
      BY <1>5, <2>2, <2>3, <3>1
  <2>5. Covers(w, p)'
    BY <1>2, <2>1, <2>2, <2>4 DEF Covers
  <2> QED
    BY <2>5
<1>14. Backed'
  BY <1>2 DEF Backed
<1>15. Found'
  <2>1. \A p \in Orders : res'[p] # 0 => Open(p)' \/ res[p] # 0
    BY <1>3, <1>4, <1>6
  <2> QED
    BY <1>0, <1>2, <1>6, <2>1, PlainFrame DEF LockInv, Found
<1>16. LocksAddUp'
  <2>1. \A p \in Orders : ReleasedFor(p)' = ReleasedFor(p)
    <3>1. ASSUME NEW t \in Threads, rel[t].at = "unlock"
          PROVE  amounts'[rel[t].ref] = amounts[rel[t].ref]
      <4>1. PICK p \in Orders : p = rel[t].order
        <5>1. rel[t].at # "none" => rel[t].order \in Orders
          BY DEF TypeOK, TypeRefs, NotReleasing, ReleaseType
        <5> QED
          BY <3>1, <5>1
      <4>2. rel[t].ref \in 1..Len(amounts)
        BY <3>1 DEF TypeOK, TypeRefs
      <4>3. ASSUME rel[t].ref = k PROVE FALSE
        <5>1. Holds(p, k) /\ Holds(o, k)
          BY <1>2, <1>5, <1>7, <3>1, <4>1, <4>2, <4>3 DEF Holds, Lent
        <5>2. p = o
          BY <1>2, <5>1 DEF LockInv, Owned
        <5> QED
          BY <1>8, <4>1, <5>2
      <4> QED
        BY <1>4, <4>2, <4>3
    <3> QED
      BY <1>2, <3>1, ReleasesSame
  <2>2. \A p \in Orders : UnlockingFor(p)' = 0 /\ TrackedFor(p)' = TrackedFor(p)
    BY <1>2, PlainFrame DEF UnlockingFor, TrackedFor
  <2>3. UnlockingFor(o) = n /\ \A p \in Orders : p # o => UnlockingFor(p) = 0
    <3>1. /\ \A s \in Sides : UnlockingFor(who[s]) = br.unlock[s]
          /\ \A p \in Orders : (\A s \in Sides : p # who[s]) => UnlockingFor(p) = 0
      BY <1>2, UnlockedBoth
    <3>2. UnlockingFor(o) = n
      BY <1>2, <1>3, <3>1
    <3>3. ASSUME NEW p \in Orders, p # o PROVE UnlockingFor(p) = 0
      <4>1. CASE p = who[z]
        BY <1>2, <3>1, <4>1
      <4>2. CASE p # who[z]
        BY <1>2, <1>3, <3>1, <3>3, <4>2
      <4> QED
        BY <4>1, <4>2
    <3> QED
      BY <3>2, <3>3
  <2>4. \A p \in Orders : Left(p)' + UnlockingFor(p)' = Left(p) + UnlockingFor(p)
    BY <1>2, <1>5, <1>11, <1>12, <2>2, <2>3
  <2>5. \A p \in Orders : /\ TrackedFor(p) \in Nat /\ Left(p) \in Nat /\ UnlockingFor(p) \in Nat /\ ReleasedFor(p) \in Nat
                          /\ Left(p)' \in Nat /\ UnlockingFor(p)' \in Nat
    BY <1>0, AccountRules, AccountRulesNext DEF ReleasedRules
  <2>6. \A p \in Orders : TrackedFor(p)' + Left(p)' + UnlockingFor(p)' + ReleasedFor(p)'
                            = TrackedFor(p) + Left(p) + UnlockingFor(p) + ReleasedFor(p)
    BY <2>1, <2>2, <2>4, <2>5
  <2> QED
    BY <1>2, <2>6, LocksSame
<1> QED
  BY <1>6, <1>10, <1>13, <1>14, <1>15, <1>16 DEF LockInv

\* A transfer moves what is not locked.
LEMMA LockTransfer ==
  ASSUME TypeOK, TypeOK', LockInv, UNCHANGED deployment, NEW u, NEW a, Transfer(u, a)
  PROVE  LockInv'
<1>1. UNCHANGED <<locked, amounts, res, queue, taker, resting, rem, emitted, fills, at, rel, br>>
  BY DEF Transfer
<1> QED
  BY <1>1, LockFrame DEF LockInv, BookVars, OpenVars

\* Steps of the shared store, which a plain process has not.
LEMMA NotPlainSteps ==
  ASSUME LockInv
  PROVE  /\ ~BridgeLoad /\ ~BridgeSync /\ ~BridgeUnclaim
         /\ \A t \in Threads : ~ReleaseDelete(t)
BY DEF LockInv, PlainSteps, BridgeLoad, BridgeSync, BridgeUnclaim, ReleaseDelete

\* Nothing is locked or reserved at the start.
LEMMA LockInit == Init => LockInv
<1> SUFFICES ASSUME Init PROVE LockInv
  OBVIOUS
<1>1. TypeOK
  BY TypeInit
<1>2. /\ queue = << >> /\ taker = None /\ resting = << >> /\ fills = << >> /\ emitted = << >>
      /\ br = Idle /\ rel = [t \in Threads |-> NotReleasing]
      /\ \A o \in Orders : at[o] = "new" /\ res[o] = 0 /\ rem[o] = OrderOf[o].qty
      /\ \A u \in Users, a \in Assets : locked[u][a] = 0
  BY DEF Init
<1>3. Len(queue) = 0 /\ Len(resting) = 0 /\ Len(fills) = 0 /\ Len(emitted) = 0
      /\ ToSet(queue) = {} /\ ToSet(resting) = {}
  BY <1>2 DEF ToSet
<1>4. /\ br.at = "idle" /\ br.loaded = [s \in Sides |-> None]
      /\ \A t \in Threads : rel[t].at = "none" /\ rel[t].order = None /\ rel[t] = NotReleasing
  BY <1>2 DEF Idle, NotReleasing, Sides
<1>5. \A o \in Orders : o # None
  BY <1>1, OrderType DEF None
<1>6. \A o \in Orders : ~Booked(o) /\ ~InHand(o) /\ ~InChannel(o) /\ ~Open(o)
  BY <1>2, <1>3, <1>4, <1>5 DEF Booked, InHand, InChannel, Open, Alive, Working
<1>7. \A o \in Orders, i \in Nat : ~Holds(o, i)
  BY <1>2, <1>4 DEF Holds, Lent
<1>8. PlainSteps
  BY <1>4 DEF PlainSteps
<1>9. Placed
  BY <1>2, <1>3, <1>6 DEF Placed, Once
<1>10. Traded
  BY <1>3, <1>4 DEF Traded
<1>11. EndsOnce
  BY <1>3, <1>6 DEF EndsOnce
<1>12. Releasers
  BY <1>4, <1>5, <1>6 DEF Releasers, Threads
<1>13. Owned
  BY <1>4, <1>7 DEF Owned
<1>14. Covered /\ Backed
  BY <1>2, <1>4, <1>6 DEF Covered, Backed
<1>15. Found
  BY <1>1, <1>2, <1>3, CapacityType DEF Found
<1>16. LocksAddUp
  <2>1. \A o \in Orders : Accounts[o] = 0
    <3>1. \A o \in Orders : TrackedFor(o) = 0 /\ Left(o) = 0 /\ UnlockingFor(o) = 0
      BY <1>2, <1>4 DEF TrackedFor, Left, UnlockingFor
    <3>2. \A o \in Orders : ReleasedFor(o) = 0
      BY <1>1, <1>4, AccountRules DEF ReleasedRules
    <3> QED
      BY <1>1, <3>1, <3>2, AccountRules DEF ReleasedRules
  <2>2. \A u, a : SumOver(Accounts, Mine(u, a)) = 0
    BY <1>1, <2>1, OrdersFinite, SumZero
  <2> QED
    BY <1>2, <2>2 DEF LocksAddUp, Adds
<1> QED
  BY <1>8, <1>9, <1>10, <1>11, <1>12, <1>13, <1>14, <1>15, <1>16 DEF LockInv

\* Every step keeps the locks with their owners.
LEMMA LockNext ==
  ASSUME TypeOK, TypeOK', Solvent, Plain, LockInv, [Next]_vars
  PROVE  LockInv'
<1>1. UNCHANGED deployment
  BY DEF Next, vars
<1>2. CASE UNCHANGED vars
  BY <1>1, <1>2, LockFrame DEF vars, LockInv, BookVars, OpenVars
<1>3. ASSUME NEW t \in Threads, Release(t)
      PROVE  LockInv'
  BY <1>1, <1>3, LockReleaseTake, LockReleaseUnlock, NotPlainSteps DEF Release
<1>4. CASE \E o \in Orders : Reserve(o) \/ Track(o) \/ Submit(o) \/ Refuse(o) \/ Cancel(o) \/ Release(o)
  <2>1. PICK o \in Orders : Reserve(o) \/ Track(o) \/ Submit(o) \/ Refuse(o) \/ Cancel(o) \/ Release(o)
    BY <1>4
  <2>2. CASE Release(o)
    BY <1>3, <2>2 DEF Threads
  <2>3. CASE Reserve(o)
    BY <1>1, <2>3, LockReserve
  <2>4. CASE Track(o)
    BY <1>1, <2>4, LockTrack
  <2>5. CASE Submit(o)
    BY <1>1, <2>5, LockSubmit
  <2>6. CASE Refuse(o)
    BY <1>1, <2>6, LockRefuse
  <2>7. CASE Cancel(o)
    BY <1>1, <2>7, LockCancel
  <2> QED
    BY <2>1, <2>2, <2>3, <2>4, <2>5, <2>6, <2>7
<1>5. CASE EngineStep
  BY <1>1, <1>5, LockTake, LockTrade, LockFinish DEF EngineStep
<1>6. CASE BridgeStep
  <2>1. CASE Release(Bridge)
    BY <1>3, <2>1 DEF Threads
  <2>2. CASE BridgeTake
    BY <1>1, <2>2, LockBridgeTake
  <2>3. CASE BridgeDebit
    BY <1>1, <2>3, LockBridgeDebit
  <2>4. CASE BridgeSettle
    BY <1>1, <2>4, LockBridgeSettle
  <2>5. CASE BridgeSettleFails
    BY <1>1, <2>5, LockBridgeSettleFails
  <2>6. CASE BridgeRestore
    BY <1>1, <2>6, LockBridgeRestore
  <2>7. CASE BridgeReleaseTaker \/ BridgeReleaseMaker
    BY <1>1, <2>7, LockBridgeReleases
  <2>8. ~BridgeTakeUnsure
    BY DEF Plain, BridgeTakeUnsure
  <2> QED
    BY <1>6, <2>1, <2>2, <2>3, <2>4, <2>5, <2>6, <2>7, <2>8, NotPlainSteps DEF BridgeStep
<1>7. CASE \E u \in Users, a \in Assets : Transfer(u, a)
  BY <1>1, <1>7, LockTransfer
<1>8. ~Snapshot /\ ~Crash
  BY DEF Plain, Snapshot, Crash
<1> QED
  BY <1>2, <1>4, <1>5, <1>6, <1>7, <1>8 DEF Next

\* What the invariant says of locks.
LEMMA LocksFound ==
  ASSUME TypeOK, Plain => LockInv
  PROVE  LocksHaveOwners
<1>1. LocksAccounted
  BY DEF LockInv, LocksAddUp, Adds, Mine, SumOver, LocksAccounted
<1>2. ASSUME Plain, Quiet, Len(emitted) <= FillCap, NEW u \in Users, NEW a \in Assets,
             \A o \in ToSet(resting) : UserOf(o) # u
      PROVE  locked[u][a] = 0
  <2>1. LockInv
    BY <1>2
  <2>2. /\ queue = << >> /\ taker = None /\ Len(fills) = 0 /\ br.at = "idle" /\ ToSet(queue) = {}
        /\ \A t \in Threads : rel[t].at = "none"
        /\ \A o \in Orders : at[o] # "track" /\ at[o] # "submit"
    BY <1>2 DEF Quiet, Releases, ToSet
  <2>3. ASSUME NEW o \in Mine(u, a)
        PROVE  o \in Orders /\ Accounts[o] = 0
    <3>1. o \in Orders /\ UserOf(o) = u
      BY DEF Mine
    <3>2. ~Open(o)
      <4>1. o # None /\ o \notin ToSet(queue) /\ o \notin ToSet(resting)
        BY <1>2, <2>2, <3>1, OrderType DEF None
      <4> QED
        BY <2>2, <3>1, <4>1 DEF Open, Alive, Booked, InHand, InChannel, Working
    <3>3. res[o] = 0
      BY <1>2, <2>1, <2>2, <3>1, <3>2 DEF LockInv, Found
    <3>4. TrackedFor(o) = 0 /\ Left(o) = 0 /\ UnlockingFor(o) = 0
      BY <2>2, <3>1, <3>3 DEF TrackedFor, Left, UnlockingFor
    <3>5. ReleasedFor(o) = 0
      BY <2>2, <3>1, AccountRules DEF ReleasedRules
    <3> QED
      BY <3>1, <3>4, <3>5, AccountRules DEF ReleasedRules
  <2>4. SumOver(Accounts, Mine(u, a)) = 0
    BY <2>3, OrdersFinite, SumZero
  <2> QED
    BY <2>1, <2>4 DEF LockInv, LocksAddUp, Adds
<1>3. NothingStaysLocked
  BY <1>2 DEF NothingStaysLocked
<1> QED
  BY <1>1, <1>3 DEF LocksHaveOwners
-----------------------------------------------------------------------------
(***************************************************************************)
(* Every behaviour keeps its types: in particular every reference to a     *)
(* reservation, from the map, a release or the bridge, is to one that      *)
(* exists, and no lock is negative.                                        *)
(***************************************************************************)
THEOREM SettlementTyped == Spec => []TypeOK
  BY TypeInit, TypeNext, PTL DEF Spec

(***************************************************************************)
(* ReserveOrder, ReleaseOrder, SettleFill and transfers leave no wallet    *)
(* overdrawn and make no money, however they interleave, whatever call     *)
(* fails with or without effect, and whenever the process crashes.  While  *)
(* the process or the shared store remembers it no fill is settled twice,  *)
(* except one whose claim or settlement got no answer.                     *)
(***************************************************************************)
THEOREM SettlementSafe == Spec => []FundsSafe
<1> DEFINE Safe == TypeOK /\ Solvent /\ Conserved /\ Remembered
<1>1. Init => Safe
  <2>1. Init => Solvent
    BY FundsAssumption DEF Init, Solvent
  <2> QED
    BY <2>1, TypeInit, ConservedInit, RememberedInit
<1>2. Safe /\ [Next]_vars => Safe'
  BY TypeNext, SolventNext, ConservedNext, RememberedNext
<1>3. Safe => FundsSafe
  BY ConservedFunds DEF Remembered, FundsSafe
<1> HIDE DEF Safe
<1> QED
  BY <1>1, <1>2, <1>3, PTL DEF Spec

(***************************************************************************)
(* In one process without faults, whose makers pay no more than takers,    *)
(* ReserveOrder, ReleaseOrder and SettleFill keep a lock for exactly what  *)
(* the reservations hold, however requests, cancels, the engine and the    *)
(* bridge interleave; and a user none of whose orders is in the book or    *)
(* under way has nothing locked.                                           *)
(***************************************************************************)
THEOREM SettlementLocksOwned == Spec => []LocksHaveOwners
<1> DEFINE Owns == TypeOK /\ Solvent /\ (Plain => LockInv)
<1>1. Init => Owns
  <2>1. Init => Solvent
    BY FundsAssumption DEF Init, Solvent
  <2> QED
    BY <2>1, TypeInit, LockInit
<1>2. Owns /\ [Next]_vars => Owns'
  <2> SUFFICES ASSUME Owns, [Next]_vars PROVE Owns'
    OBVIOUS
  <2>1. TypeOK' /\ Solvent'
    BY TypeNext, SolventNext
  <2>2. UNCHANGED deployment
    BY DEF Next, vars
  <2>3. Plain' <=> Plain
    BY <2>2, PlainFrame
  <2>4. Plain => LockInv'
    BY <2>1, LockNext
  <2> QED
    BY <2>1, <2>3, <2>4
<1>3. Owns => LocksHaveOwners
  BY LocksFound
<1> HIDE DEF Owns
<1> QED
  BY <1>1, <1>2, <1>3, PTL DEF Spec
=============================================================================
