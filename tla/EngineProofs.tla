----------------------------- MODULE EngineProofs -----------------------------
(***************************************************************************)
(* Proofs about what surrounds matching in one engine: the inbound ring    *)
(* buffer and the loop that drains it, for every set of producers and      *)
(* orders and every slot count; and the log, the snapshots and recovery,   *)
(* for every setting of fsync and every kind of fault.                     *)
(***************************************************************************)
EXTENDS EngineLoop, EngineRecovery, SequenceTheorems, FiniteSetTheorems, TLAPS

-----------------------------------------------------------------------------
(***************************************************************************)
(* Arithmetic of slot indices.                                             *)
(***************************************************************************)
\* A slot index x & mask (ringbuffer.go, Enqueue and Drain) is a slot.
LEMMA SlotRange ==
  ASSUME NEW x \in Nat
  PROVE  Slot(x) \in 0..Cap-1
BY CapAssumption, SMT DEF Slot

\* Two positions less than one lap apart never share a slot: the reason one
\* slot array can serve an unbounded stream of orders.
LEMMA SlotInjective ==
  ASSUME NEW a \in Nat, NEW b \in Nat, a < b, b - a < Cap
  PROVE  Slot(a) # Slot(b)
<1> SUFFICES ASSUME a % Cap = b % Cap PROVE FALSE
  BY DEF Slot
<1> USE CapAssumption
<1> DEFINE qa == a \div Cap
           qb == b \div Cap
<1>1. b - a = Cap * (qb - qa) /\ qa \in Int /\ qb \in Int
  <2>1. a = (Cap * qa) + (a % Cap) /\ qa \in Int
    BY SMT
  <2>2. b = (Cap * qb) + (b % Cap) /\ qb \in Int
    BY SMT
  <2>3. a % Cap \in Int /\ b % Cap \in Int
    BY SMT
  <2> HIDE DEF qa, qb
  <2>4. Cap * (qb - qa) = Cap * qb - Cap * qa
    BY <2>1, <2>2
  <2>5. Cap * qb \in Int /\ Cap * qa \in Int
    BY <2>1, <2>2
  <2> QED
    BY <2>1, <2>2, <2>3, <2>4, <2>5
<1> HIDE DEF qa, qb
<1>2. qb - qa > 0
  <2>1. CASE qb - qa <= 0
    <3>1. Cap * (qb - qa) <= 0
      BY <1>1, <2>1
    <3> QED
      BY <1>1, <3>1
  <2> QED
    BY <1>1, <2>1
<1>3. Cap * (qb - qa) >= Cap
  BY <1>1, <1>2
<1> QED
  BY <1>1, <1>3

\* In a reachable state distinct pending positions have distinct slots, and
\* the next position to be reserved has a slot no pending position uses.
LEMMA PendingSlots ==
  ASSUME RingInv
  PROVE  /\ NextPos \in Nat
         /\ \A x, y \in Pending : x # y => Slot(x) # Slot(y)
         /\ tail - head < mask => \A x \in Pending : Slot(x) # Slot(tail)
         /\ \A x \in Pending : x \in Nat /\ Slot(x) \in 0..Cap-1
<1> USE CapAssumption
<1>1. /\ head \in Nat /\ tail \in Nat /\ Len(got) \in Nat
      /\ tail - head <= mask /\ mask = Cap - 1
      /\ NextPos = head + Len(got)
  BY DEF RingInv, TypeOK, CursorsInv, NextPos, mask
<1>2. \A x \in Pending : x \in Nat /\ head <= x /\ x < tail
  BY <1>1 DEF Pending
<1>3. ASSUME NEW x \in Pending, NEW y \in Pending, x # y
      PROVE  Slot(x) # Slot(y)
  <2>1. x \in Nat /\ y \in Nat /\ (x < y \/ y < x) /\ x - y < Cap /\ y - x < Cap
    BY <1>1, <1>2, <1>3
  <2> QED
    BY <2>1, SlotInjective
<1>4. ASSUME tail - head < mask, NEW x \in Pending
      PROVE  Slot(x) # Slot(tail)
  <2>1. x \in Nat /\ x < tail /\ tail - x < Cap
    BY <1>1, <1>2, <1>4
  <2> QED
    BY <1>1, <2>1, SlotInjective
<1>5. \A x \in Pending : x \in Nat /\ Slot(x) \in 0..Cap-1
  BY <1>2, SlotRange, <1>1 DEF Pending
<1>6. NextPos \in Nat
  BY <1>1
<1> QED
  BY <1>3, <1>4, <1>5, <1>6
-----------------------------------------------------------------------------
(***************************************************************************)
(* RingInv is inductive.                                                   *)
(***************************************************************************)
LEMMA InitInv == RingInit => RingInv
<1> SUFFICES ASSUME RingInit PROVE RingInv
  OBVIOUS
<1> USE CapAssumption
<1>1. TypeOK
  <2>1. buffer \in [0..Cap-1 -> Orders \cup {NoOrder}] /\ arg \in [Producers -> Orders \cup {NoOrder}]
    BY DEF RingInit
  <2>2. << >> \in Seq(Orders)
    OBVIOUS
  <2>3. \A p \in Producers : pc[p] = "idle"
    BY DEF RingInit
  <2> QED
    BY <2>1, <2>2, <2>3 DEF RingInit, TypeOK
<1>2. CursorsInv
  BY DEF RingInit, CursorsInv, NextPos, mask
<1>3. CollectedInv /\ HoldersInv
  BY DEF RingInit, CollectedInv, HoldersInv
<1>4. SlotsInv
  BY DEF RingInit, SlotsInv, Pending, NextPos, Slot
<1> QED
  BY <1>1, <1>2, <1>3, <1>4 DEF RingInv

\* A producer step that neither reserves nor publishes a slot keeps RingInv if
\* it keeps the types and the bounds on the producer's own cursors.
LEMMA QuietStep ==
  ASSUME RingInv, TypeOK',
         UNCHANGED <<buffer, head, tail, consumerVars, reserved>>,
         \A p \in Producers :
           /\ pc'[p] = "store" <=> pc[p] = "store"
           /\ pc[p] = "store" => tl'[p] = tl[p] /\ arg'[p] = arg[p]
           /\ hd'[p] <= head
           /\ pc'[p] = "cas" => tl'[p] <= tail /\ tl'[p] - hd'[p] < mask
  PROVE  RingInv'
<1> USE DEF RingInv, consumerVars
<1>1. NextPos' = NextPos /\ Pending' = Pending /\ mask' = mask
  BY DEF NextPos, Pending, mask
<1>2. CursorsInv'
  BY <1>1 DEF CursorsInv, mask
<1>3. CollectedInv'
  BY DEF CollectedInv
<1>4. HoldersInv'
  BY <1>1 DEF HoldersInv
<1>5. SlotsInv'
  <2>1. \A p \in Producers, x \in Pending : Holds(p, x)' <=> Holds(p, x)
    BY DEF Holds
  <2>2. \A x : Slot(x)' = Slot(x)
    BY DEF Slot
  <2> QED
    BY <1>1, <2>1, <2>2 DEF SlotsInv, Slot
<1> QED
  BY <1>2, <1>3, <1>4, <1>5

\* The head of the retry loop: a fresh head is never ahead of the real one.
LEMMA CallStep ==
  ASSUME RingInv, NEW p \in Producers, NEW o \in Orders, EnqueueCall(p, o)
  PROVE  RingInv'
<1> USE DEF EnqueueCall, sharedVars, consumerVars
<1>1. TypeOK'
  BY DEF RingInv, TypeOK
<1> QED
  BY <1>1, QuietStep DEF RingInv, TypeOK, CursorsInv

\* Enqueue loads the head: nothing but what this producer knows changes.
LEMMA LoadHeadStep ==
  ASSUME RingInv, NEW p \in Producers, EnqueueLoadHead(p)
  PROVE  RingInv'
<1> USE DEF EnqueueLoadHead, sharedVars, consumerVars
<1>1. TypeOK'
  BY DEF RingInv, TypeOK
<1>2. ASSUME NEW q \in Producers
      PROVE  /\ pc'[q] = "store" <=> pc[q] = "store"
             /\ hd'[q] <= head
             /\ pc'[q] = "cas" => pc[q] = "cas" /\ hd'[q] = hd[q]
  BY DEF RingInv, TypeOK, CursorsInv
<1> QED
  BY <1>1, <1>2, QuietStep DEF RingInv, CursorsInv

\* Enqueue loads the tail, which may move on before it is used.
LEMMA LoadTailStep ==
  ASSUME RingInv, NEW p \in Producers, EnqueueLoadTail(p)
  PROVE  RingInv'
<1> USE DEF EnqueueLoadTail, sharedVars, consumerVars
<1>1. TypeOK'
  BY DEF RingInv, TypeOK
<1>2. tail - hd[p] < mask
  BY CapAssumption DEF Full, RingInv, TypeOK, mask
<1>3. ASSUME NEW q \in Producers
      PROVE  /\ pc'[q] = "store" <=> pc[q] = "store"
             /\ pc[q] = "store" => tl'[q] = tl[q]
             /\ pc'[q] = "cas" => tl'[q] <= tail /\ tl'[q] - hd'[q] < mask
  BY <1>2 DEF RingInv, TypeOK, CursorsInv
<1> QED
  BY <1>1, <1>3, QuietStep DEF RingInv, CursorsInv

\* Enqueue answers that the ring is full.
LEMMA RefuseStep ==
  ASSUME RingInv, NEW p \in Producers, EnqueueRefuse(p)
  PROVE  RingInv'
<1> USE DEF EnqueueRefuse, sharedVars, consumerVars
<1>1. TypeOK'
  BY DEF RingInv, TypeOK
<1> QED
  BY <1>1, QuietStep DEF RingInv, TypeOK, CursorsInv

\* Enqueue lost the race for the slot and tries again.
LEMMA LostStep ==
  ASSUME RingInv, NEW p \in Producers, EnqueueLost(p)
  PROVE  RingInv'
<1> USE DEF EnqueueLost, sharedVars, consumerVars
<1>1. TypeOK'
  BY DEF RingInv, TypeOK
<1> QED
  BY <1>1, QuietStep DEF RingInv, TypeOK, CursorsInv

\* Enqueue wakes the consumer up after it has published.
LEMMA SignalStep ==
  ASSUME RingInv, NEW p \in Producers, EnqueueSignal(p)
  PROVE  RingInv'
<1> USE DEF EnqueueSignal, consumerVars
<1>1. TypeOK'
  BY DEF RingInv, TypeOK
<1> QED
  BY <1>1, QuietStep DEF RingInv, TypeOK, CursorsInv

\* The compare-and-swap reserves the position tail, whose slot is empty.
LEMMA ReserveStep ==
  ASSUME RingInv, NEW p \in Producers, EnqueueReserve(p)
  PROVE  RingInv'
<1> USE DEF EnqueueReserve, consumerVars
<1>1. TypeOK'
  BY DEF RingInv, TypeOK
<1>2. /\ head \in Nat /\ tail \in Nat /\ NextPos \in Nat /\ NextPos <= tail
      /\ tail = Len(reserved) /\ reserved \in Seq(Orders)
      /\ tl[p] = tail /\ tail - head < mask /\ arg[p] \in Orders
      /\ Len(reserved') = tail + 1 /\ reserved'[tail + 1] = arg[p]
      /\ \A i \in 1..tail : reserved'[i] = reserved[i]
  <2>1. tl[p] - hd[p] < mask /\ hd[p] <= head /\ hd[p] \in Nat
    BY DEF RingInv, TypeOK, CursorsInv
  <2>2. /\ head \in Nat /\ tail \in Nat /\ tl[p] = tail /\ mask \in Int
        /\ tail = Len(reserved) /\ reserved \in Seq(Orders) /\ arg[p] \in Orders
    BY CapAssumption DEF RingInv, TypeOK, CursorsInv, mask
  <2>3. NextPos \in Nat /\ NextPos <= tail
    BY PendingSlots DEF RingInv, CursorsInv
  <2>4. /\ Len(reserved') = tail + 1 /\ reserved'[tail + 1] = arg[p]
        /\ \A i \in 1..tail : reserved'[i] = reserved[i]
    BY <2>2
  <2> QED
    BY <2>1, <2>2, <2>3, <2>4
<1>3. NextPos' = NextPos /\ Pending' = Pending \cup {tail} /\ mask' = mask
  BY <1>2 DEF NextPos, Pending, mask
<1>4. tail \notin Pending /\ \A x \in Pending : x \in Nat /\ x + 1 \in 1..tail
  BY <1>2 DEF Pending
<1>5. pc' = [pc EXCEPT ![p] = "store"] /\ pc[p] = "cas" /\ pc'[p] = "store"
  BY DEF RingInv, TypeOK
<1>6. \A q \in Producers : q # p => pc'[q] = pc[q]
  BY <1>5 DEF RingInv, TypeOK
<1>7. CursorsInv'
  BY <1>2, <1>3, <1>5, <1>6, CapAssumption DEF RingInv, TypeOK, CursorsInv, mask
<1>8. CollectedInv'
  <2>1. /\ \A i \in 1..Len(delivered) : delivered[i] = reserved[i] /\ i \in 1..tail
        /\ \A i \in 1..Len(got) : got[i] = reserved[head + i] /\ head + i \in 1..tail
    BY <1>2 DEF RingInv, TypeOK, CursorsInv, CollectedInv, NextPos
  <2> QED
    BY <1>2, <2>1 DEF CollectedInv
<1>9. HoldersInv'
  <2> SUFFICES ASSUME NEW q \in Producers, pc'[q] = "store"
               PROVE  /\ tl[q] \in Pending'
                      /\ reserved'[tl[q] + 1] = arg[q]
                      /\ \A r \in Producers : pc'[r] = "store" /\ tl[r] = tl[q] => r = q
    BY DEF HoldersInv
  <2>1. \A r \in Producers : r # p /\ pc'[r] = "store" =>
           pc[r] = "store" /\ tl[r] \in Pending /\ reserved[tl[r] + 1] = arg[r]
    BY <1>6 DEF RingInv, HoldersInv
  <2>2. CASE q = p
    <3>1. \A r \in Producers : r # p /\ pc'[r] = "store" => tl[r] # tl[p]
      BY <1>2, <1>4, <2>1
    <3> QED
      BY <1>2, <1>3, <2>2, <3>1
  <2>3. CASE q # p
    <3>1. pc[q] = "store" /\ tl[q] \in Pending /\ reserved[tl[q] + 1] = arg[q]
      BY <2>1, <2>3
    <3>2. reserved'[tl[q] + 1] = arg[q]
      BY <1>2, <1>4, <3>1
    <3>3. tl[p] # tl[q]
      BY <1>2, <1>4, <3>1
    <3>4. ASSUME NEW r \in Producers, pc'[r] = "store", tl[r] = tl[q]
          PROVE  r = q
      BY <2>1, <3>1, <3>3, <3>4 DEF RingInv, HoldersInv
    <3> QED
      BY <1>3, <3>1, <3>2, <3>4
  <2> QED
    BY <2>2, <2>3
<1>10. SlotsInv'
  <2>1. \A q \in Producers, x \in Pending : Holds(q, x)' <=> Holds(q, x)
    BY <1>2, <1>4, <1>5, <1>6 DEF Holds
  <2>2. \A x : x = tail => Holds(p, x)'
    BY <1>2, <1>5 DEF Holds
  <2>3. Slot(tail) \in 0..Cap-1
    BY <1>2, SlotRange
  <2>4. buffer[Slot(tail)] = NoOrder
    BY <1>2, <2>3, PendingSlots DEF RingInv, SlotsInv
  <2>5. \A x \in Pending' :
          IF \E q \in Producers : Holds(q, x)'
            THEN buffer[Slot(x)] = NoOrder
            ELSE buffer[Slot(x)] = reserved'[x + 1]
    <3>1. ASSUME NEW x \in Pending
          PROVE  IF \E q \in Producers : Holds(q, x)'
                   THEN buffer[Slot(x)] = NoOrder
                   ELSE buffer[Slot(x)] = reserved'[x + 1]
      <4>1. reserved'[x + 1] = reserved[x + 1]
        BY <1>2, <1>4
      <4> QED
        BY <2>1, <4>1 DEF RingInv, SlotsInv
    <3> QED
      BY <1>3, <2>2, <2>4, <3>1
  <2>6. \A s \in 0..Cap-1 : (\A x \in Pending' : Slot(x) # s) => buffer[s] = NoOrder
    BY <1>3 DEF RingInv, SlotsInv
  <2> QED
    BY <2>5, <2>6 DEF SlotsInv, Slot
<1> QED
  BY <1>1, <1>7, <1>8, <1>9, <1>10 DEF RingInv

\* Publishing fills the one slot the producer holds.
LEMMA PublishStep ==
  ASSUME RingInv, NEW p \in Producers, EnqueuePublish(p)
  PROVE  RingInv'
<1> USE DEF EnqueuePublish, consumerVars
<1>1. /\ tl[p] \in Pending /\ tl[p] \in Nat /\ Slot(tl[p]) \in 0..Cap-1
      /\ reserved[tl[p] + 1] = arg[p] /\ arg[p] \in Orders
      /\ \A q \in Producers : pc[q] = "store" /\ tl[q] = tl[p] => q = p
  BY PendingSlots DEF RingInv, HoldersInv, TypeOK
<1>2. TypeOK'
  BY <1>1 DEF RingInv, TypeOK
<1>3. NextPos' = NextPos /\ Pending' = Pending /\ mask' = mask
  BY DEF NextPos, Pending, mask
<1>4. pc'[p] = "signal" /\ \A q \in Producers : q # p => pc'[q] = pc[q]
  BY DEF RingInv, TypeOK
<1>5. CursorsInv'
  BY <1>3, <1>4 DEF RingInv, CursorsInv, mask
<1>6. CollectedInv'
  BY DEF RingInv, CollectedInv
<1>7. HoldersInv'
  BY <1>3, <1>4 DEF RingInv, HoldersInv
<1>8. SlotsInv'
  <2>1. /\ buffer'[Slot(tl[p])] = arg[p]
        /\ \A s \in 0..Cap-1 : s # Slot(tl[p]) => buffer'[s] = buffer[s]
    BY <1>1 DEF RingInv, TypeOK
  <2>2. \A q \in Producers : ~Holds(q, tl[p])'
    BY <1>1, <1>4 DEF Holds
  <2>3. ASSUME NEW x \in Pending, x # tl[p]
        PROVE  /\ buffer'[Slot(x)] = buffer[Slot(x)]
               /\ \A q \in Producers : Holds(q, x)' <=> Holds(q, x)
    <3>1. buffer'[Slot(x)] = buffer[Slot(x)]
      BY <1>1, <2>1, <2>3, PendingSlots
    <3> QED
      BY <1>4, <2>3, <3>1 DEF Holds
  <2>4. \A x \in Pending :
          IF \E q \in Producers : Holds(q, x)'
            THEN buffer'[Slot(x)] = NoOrder
            ELSE buffer'[Slot(x)] = reserved[x + 1]
    BY <1>1, <2>1, <2>2, <2>3 DEF RingInv, SlotsInv
  <2>5. \A s \in 0..Cap-1 : (\A x \in Pending : Slot(x) # s) => buffer'[s] = NoOrder
    BY <1>1, <2>1 DEF RingInv, SlotsInv
  <2> QED
    BY <1>3, <2>4, <2>5 DEF SlotsInv, Slot
<1> QED
  BY <1>2, <1>5, <1>6, <1>7, <1>8 DEF RingInv

\* The consumer's side.  Loading tail starts a call with nothing collected.
LEMMA DrainCallStep ==
  ASSUME RingInv, DrainCall
  PROVE  RingInv'
<1> USE DEF DrainCall, sharedVars, producerVars
<1>1. TypeOK'
  BY DEF RingInv, TypeOK
<1>2. NextPos' = NextPos /\ Pending' = Pending /\ mask' = mask
  BY DEF NextPos, Pending, mask
<1>3. CursorsInv'
  BY <1>2 DEF RingInv, TypeOK, CursorsInv, mask
<1>4. CollectedInv' /\ HoldersInv'
  BY <1>2 DEF RingInv, CollectedInv, HoldersInv
<1>5. SlotsInv'
  BY <1>2 DEF RingInv, SlotsInv, Slot, Holds
<1> QED
  BY <1>1, <1>3, <1>4, <1>5 DEF RingInv

\* Receiving the signal touches no cursor and no slot.
LEMMA ReceiveStep ==
  ASSUME RingInv, ReceiveNotify
  PROVE  RingInv'
<1> USE DEF ReceiveNotify, producerVars
<1>1. TypeOK'
  BY DEF RingInv, TypeOK, consumerVars
<1> QED
  BY <1>1, QuietStep DEF RingInv, CursorsInv

\* Swap(nil) empties the slot of the oldest pending position.
LEMMA DrainCollectStep ==
  ASSUME RingInv, DrainCollect
  PROVE  RingInv'
<1> USE DEF DrainCollect, producerVars
<1> DEFINE s0 == Slot(NextPos)
           o0 == buffer[s0]
<1>1. /\ head \in Nat /\ tail \in Nat /\ NextPos \in Nat /\ cTail \in Nat
      /\ got \in Seq(Orders) /\ NextPos = head + Len(got)
      /\ NextPos < tail /\ NextPos \in Pending /\ s0 \in 0..Cap-1
      /\ \A x \in Pending : x \in Nat
  BY PendingSlots DEF RingInv, TypeOK, CursorsInv, NextPos, Pending
<1>2. /\ \A q \in Producers : ~Holds(q, NextPos)
      /\ o0 = reserved[NextPos + 1] /\ o0 \in Orders
  BY <1>1 DEF RingInv, TypeOK, SlotsInv
<1> HIDE DEF o0
<1>3. /\ got' = Append(got, o0) /\ Len(got') = Len(got) + 1
      /\ got'[Len(got) + 1] = o0
      /\ \A i \in 1..Len(got) : got'[i] = got[i]
  BY <1>1 DEF o0
<1>4. NextPos' = NextPos + 1 /\ mask' = mask
  BY <1>1, <1>3 DEF NextPos, mask
<1>5. Pending' = Pending \ {NextPos}
  BY <1>1, <1>4 DEF Pending
<1>6. buffer' = [buffer EXCEPT ![s0] = NoOrder]
  OBVIOUS
<1> HIDE DEF s0
<1>7. /\ buffer'[s0] = NoOrder
      /\ \A s \in 0..Cap-1 : s # s0 => buffer'[s] = buffer[s]
  BY <1>1, <1>6 DEF RingInv, TypeOK
<1>8. TypeOK'
  <2>1. buffer' \in [0..Cap-1 -> Orders \cup {NoOrder}]
    BY <1>6 DEF RingInv, TypeOK
  <2>2. got' \in Seq(Orders)
    BY <1>1, <1>2, <1>3
  <2> QED
    BY <2>1, <2>2 DEF RingInv, TypeOK
<1>9. CursorsInv'
  BY <1>1, <1>3, <1>4 DEF RingInv, CursorsInv, mask
<1>10. CollectedInv'
  <2>1. \A i \in 1..Len(got') : got'[i] = reserved[head + i]
    <3>1. ASSUME NEW i \in 1..Len(got'), i # Len(got) + 1
          PROVE  got'[i] = reserved[head + i]
      BY <1>1, <1>3, <3>1 DEF RingInv, CollectedInv
    <3>2. head + (Len(got) + 1) = NextPos + 1
      BY <1>1
    <3> QED
      BY <1>2, <1>3, <3>1, <3>2
  <2> QED
    BY <2>1 DEF RingInv, CollectedInv
<1>11. HoldersInv'
  BY <1>2, <1>5 DEF RingInv, HoldersInv, Holds
<1>12. SlotsInv'
  <2>1. ASSUME NEW x \in Pending'
        PROVE  buffer'[Slot(x)] = buffer[Slot(x)] /\ x \in Pending
    BY <1>1, <1>5, <1>7, <2>1, PendingSlots DEF s0
  <2>2. \A q \in Producers, x \in Pending' : Holds(q, x)' <=> Holds(q, x)
    BY DEF Holds
  <2>3. ASSUME NEW s \in 0..Cap-1, \A x \in Pending' : Slot(x) # s
        PROVE  buffer'[s] = NoOrder
    <3>1. CASE s = s0
      BY <1>7, <3>1
    <3>2. CASE s # s0
      BY <1>5, <1>7, <2>3, <3>2 DEF RingInv, SlotsInv, s0
    <3> QED
      BY <3>1, <3>2
  <2> QED
    BY <2>1, <2>2, <2>3 DEF RingInv, SlotsInv, Slot
<1> QED
  BY <1>8, <1>9, <1>10, <1>11, <1>12 DEF RingInv

\* Returning moves head over exactly the orders collected.
LEMMA DrainReturnStep ==
  ASSUME RingInv, DrainReturn
  PROVE  RingInv'
<1> USE DEF DrainReturn, producerVars
<1>1. /\ head \in Nat /\ tail \in Nat /\ NextPos \in Nat /\ mask \in Int
      /\ got \in Seq(Orders) /\ delivered \in Seq(Orders)
      /\ head = Len(delivered) /\ NextPos = head + Len(got) /\ NextPos <= tail
      /\ Len(got) \in Nat
  BY CapAssumption, PendingSlots DEF RingInv, TypeOK, CursorsInv, NextPos, mask
<1>2. /\ delivered' \in Seq(Orders) /\ Len(delivered') = head + Len(got)
      /\ \A i \in 1..head : delivered'[i] = delivered[i]
      /\ \A i \in 1..Len(got) : delivered'[head + i] = got[i]
  BY <1>1
<1>3. got' = << >> /\ << >> \in Seq(Orders) /\ Len(got') = 0
  OBVIOUS
<1>4. TypeOK'
  BY <1>1, <1>2, <1>3 DEF RingInv, TypeOK
<1>5. NextPos' = NextPos /\ Pending' = Pending /\ mask' = mask
  BY <1>1, <1>3 DEF NextPos, Pending, mask
<1>6. CursorsInv'
  <2>1. \A p \in Producers : hd[p] \in Nat /\ hd[p] <= head
    BY DEF RingInv, TypeOK, CursorsInv
  <2>2. tail - head <= mask
    BY DEF RingInv, CursorsInv
  <2> QED
    BY <1>1, <1>2, <1>3, <1>5, <2>1, <2>2 DEF RingInv, CursorsInv
<1>7. CollectedInv'
  <2>1. ASSUME NEW i \in 1..Len(delivered')
        PROVE  delivered'[i] = reserved[i]
    <3>1. CASE i \in 1..head
      BY <1>1, <1>2, <3>1 DEF RingInv, CollectedInv
    <3>2. CASE i \notin 1..head
      <4>1. i - head \in 1..Len(got) /\ head + (i - head) = i
        BY <1>1, <1>2, <3>2
      <4> QED
        BY <1>2, <4>1 DEF RingInv, CollectedInv
    <3> QED
      BY <3>1, <3>2
  <2> QED
    BY <1>3, <2>1 DEF CollectedInv
<1>8. HoldersInv'
  BY <1>5 DEF RingInv, HoldersInv
<1>9. SlotsInv'
  BY <1>5 DEF RingInv, SlotsInv, Slot, Holds
<1> QED
  BY <1>4, <1>6, <1>7, <1>8, <1>9 DEF RingInv

\* Every step of the ring keeps RingInv.
LEMMA NextInv == RingInv /\ [RingNext]_ringVars => RingInv'
<1> SUFFICES ASSUME RingInv, [RingNext]_ringVars PROVE RingInv'
  OBVIOUS
<1>1. CASE \E p \in Producers, o \in Orders : EnqueueCall(p, o)
  BY <1>1, CallStep
<1>2. CASE \E p \in Producers : EnqueueStep(p)
  BY <1>2, LoadHeadStep, LoadTailStep, RefuseStep, ReserveStep, LostStep,
     PublishStep, SignalStep DEF EnqueueStep
<1>3. CASE ConsumerStep
  BY <1>3, DrainCallStep, DrainCollectStep, DrainReturnStep, ReceiveStep
  DEF ConsumerStep
<1>4. CASE UNCHANGED ringVars
  <2>1. TypeOK'
    BY <1>4 DEF RingInv, TypeOK, ringVars, sharedVars, producerVars, consumerVars
  <2> QED
    BY <1>4, <2>1, QuietStep
    DEF RingInv, CursorsInv, ringVars, sharedVars, producerVars, consumerVars
<1> QED
  BY <1>1, <1>2, <1>3, <1>4 DEF RingNext

\* The inductive invariant holds in every reachable state of the ring.
THEOREM RingInvariant == RingSpec => []RingInv
BY InitInv, NextInv, PTL DEF RingSpec

\* Type correctness of the ring's state.
THEOREM RingTypes == RingSpec => []TypeOK
BY RingInvariant, PTL DEF RingInv
-----------------------------------------------------------------------------
(***************************************************************************)
(* The promises of the ring.                                               *)
(***************************************************************************)
\* Drain hands over the reserved orders, each once and in order ("Orders are
\* never skipped", ringbuffer.go).
THEOREM RingDeliversInOrder == RingSpec => []DeliveredInOrder
<1>1. RingInv => DeliveredInOrder
  BY CapAssumption, PendingSlots
  DEF RingInv, TypeOK, CursorsInv, CollectedInv, DeliveredInOrder, NextPos
<1> QED
  BY <1>1, RingInvariant, PTL

\* A producer never stores over an order that was not collected, nor into the
\* slot of another producer.
THEOREM RingNeverOverwrites == RingSpec => []NoOverwrite
<1>1. RingInv => NoOverwrite
  <2> SUFFICES ASSUME RingInv, NEW p \in Producers, pc[p] = "store"
               PROVE  /\ buffer[Slot(tl[p])] = NoOrder
                      /\ \A q \in Producers \ {p} :
                           pc[q] = "store" => Slot(tl[q]) # Slot(tl[p])
    BY DEF NoOverwrite
  <2>1. \A q \in Producers : pc[q] = "store" =>
           tl[q] \in Pending /\ (tl[q] = tl[p] => q = p)
    BY DEF RingInv, HoldersInv
  <2>2. Holds(p, tl[p])
    BY DEF Holds
  <2>3. buffer[Slot(tl[p])] = NoOrder
    BY <2>1, <2>2 DEF RingInv, SlotsInv
  <2> QED
    BY <2>1, <2>3, PendingSlots
<1> QED
  BY <1>1, RingInvariant, PTL

\* Reserving a slot is the Put of the abstract queue, returning from Drain its
\* Take, and every other step of the ring changes nothing the queue shows.
LEMMA StepRefines ==
  ASSUME RingInv, [RingNext]_ringVars
  PROVE  [Queue!QueueNext]_(Queue!queueVars)
<1> USE DEF Queue!queueVars
<1>1. ASSUME NEW p \in Producers, EnqueueReserve(p)
      PROVE  Queue!QueueNext
  <2>1. arg[p] \in Orders /\ tail - head < mask
    <3>1. tl[p] = tail /\ tl[p] - hd[p] < mask /\ hd[p] <= head /\ hd[p] \in Nat
      BY <1>1 DEF EnqueueReserve, RingInv, TypeOK, CursorsInv
    <3>2. head \in Nat /\ tail \in Nat /\ mask \in Int
      BY CapAssumption DEF RingInv, TypeOK, mask
    <3>3. arg[p] \in Orders
      BY <1>1 DEF EnqueueReserve, RingInv, TypeOK
    <3> QED
      BY <3>1, <3>2, <3>3
  <2>2. Queue!Put(arg[p])
    BY <1>1, <2>1
    DEF Queue!Put, Queue!Waiting, EnqueueReserve, consumerVars, RingInv, CursorsInv
  <2> QED
    BY <2>1, <2>2 DEF Queue!QueueNext
<1>2. ASSUME DrainReturn
      PROVE  [Queue!QueueNext]_(Queue!queueVars)
  <2>1. /\ delivered \in Seq(Orders) /\ got \in Seq(Orders) /\ reserved \in Seq(Orders)
        /\ Len(delivered) + Len(got) <= Len(reserved)
        /\ \A i \in 1..Len(delivered) : delivered[i] = reserved[i]
        /\ \A i \in 1..Len(got) : got[i] = reserved[Len(delivered) + i]
    BY DEF RingInv, TypeOK, CursorsInv, CollectedInv, NextPos
  <2>2. delivered' = delivered \o got /\ reserved' = reserved
    BY <1>2 DEF DrainReturn
  <2>3. CASE got = << >>
    <3>1. delivered \o << >> = delivered
      BY <2>1
    <3> QED
      BY <2>2, <2>3, <3>1
  <2>4. CASE got # << >>
    <3>1. Len(got) \in 1..Queue!Waiting
      BY <2>1, <2>4 DEF Queue!Waiting
    <3>2. delivered \o got = SubSeq(reserved, 1, Len(delivered) + Len(got))
      BY <2>1
    <3>3. Queue!Take(Len(got))
      BY <2>1, <2>2, <3>2 DEF Queue!Take
    <3> QED
      BY <3>1, <3>3 DEF Queue!QueueNext
  <2> QED
    BY <2>3, <2>4
<1>3. ASSUME UNCHANGED <<reserved, delivered>>
      PROVE  [Queue!QueueNext]_(Queue!queueVars)
  BY <1>3
<1>4. CASE \E p \in Producers, o \in Orders : EnqueueCall(p, o)
  BY <1>3, <1>4 DEF EnqueueCall, consumerVars
<1>5. CASE \E p \in Producers : EnqueueStep(p)
  BY <1>1, <1>3, <1>5
  DEF EnqueueStep, EnqueueLoadHead, EnqueueLoadTail, EnqueueRefuse, EnqueueLost,
      EnqueuePublish, EnqueueSignal, consumerVars
<1>6. CASE ConsumerStep
  BY <1>2, <1>3, <1>6
  DEF ConsumerStep, DrainCall, DrainCollect, ReceiveNotify, consumerVars
<1>7. CASE UNCHANGED ringVars
  BY <1>3, <1>7 DEF ringVars, consumerVars
<1> QED
  BY <1>4, <1>5, <1>6, <1>7 DEF RingNext

\* The ring buffer implements the bounded FIFO queue: with Cap slots it never
\* holds more than Cap - 1 orders, and it never reorders, loses or repeats one.
THEOREM RingImplementsQueue == RingSpec => ImplementsQueue
<1>1. RingInit => Queue!QueueInit
  BY DEF RingInit, Queue!QueueInit
<1> QED
  BY <1>1, StepRefines, RingInvariant, PTL
  DEF RingSpec, ImplementsQueue, Queue!QueueSpec
-----------------------------------------------------------------------------
(***************************************************************************)
(* What Enqueue answers.                                                   *)
(***************************************************************************)
\* An order that has a slot, published or not.
Reserved(o) == \E k \in 1..Len(reserved) : reserved[k] = o

\* Each order is in one producer's hands or has had one answer; those with a slot
\* were accepted or are about to be.
AnswersInv ==
  /\ accepted \cap refused = {}
  /\ \A p \in Producers : pc[p] = "idle" => arg[p] = NoOrder
  /\ \A p \in Producers : arg[p] \notin accepted \cup refused
  /\ \A p, q \in Producers : arg[p] = arg[q] /\ arg[p] # NoOrder => p = q
  /\ \A o \in accepted : Reserved(o)
  /\ \A p \in Producers : pc[p] = "signal" => Reserved(arg[p])
  /\ \A o \in Orders : Reserved(o) => o \in accepted \/ \E p \in Producers : pc[p] \in {"store", "signal"} /\ arg[p] = o

\* The order a producer is on its way with has one owner.
LEMMA InHand ==
  ASSUME RingInv, AnswersInv, NEW p \in Producers, pc[p] # "idle"
  PROVE  /\ arg[p] \in Orders /\ arg[p] # NoOrder /\ arg[p] \notin accepted \cup refused
         /\ \A q \in Producers : arg[q] = arg[p] => q = p
         /\ pc[p] \notin {"store", "signal"} => ~Reserved(arg[p])
<1>1. arg[p] \in Orders /\ arg[p] # NoOrder
  BY NoOrderAssumption DEF RingInv, TypeOK
<1> QED
  BY <1>1 DEF AnswersInv

\* Nobody has called.
LEMMA InitAnswers == RingInit => AnswersInv
<1> SUFFICES ASSUME RingInit PROVE AnswersInv
  OBVIOUS
<1>1. reserved = << >> /\ \A o : ~Reserved(o)
  BY DEF RingInit, Reserved
<1>2. \A p \in Producers : pc[p] = "idle" /\ arg[p] = NoOrder
  BY DEF RingInit
<1>3. accepted = {} /\ refused = {}
  BY DEF RingInit
<1> QED
  BY <1>1, <1>2, <1>3 DEF AnswersInv

\* Each step of a producer moves its order on, and touches no other.
LEMMA EnqueueAnswers ==
  ASSUME RingInv, AnswersInv, NEW p \in Producers, EnqueueStep(p)
  PROVE  AnswersInv'
<1>1. pc[p] # "idle"
  BY DEF EnqueueStep, EnqueueLoadHead, EnqueueLoadTail, EnqueueRefuse, EnqueueReserve, EnqueueLost,
         EnqueuePublish, EnqueueSignal
<1>2. /\ arg[p] \in Orders /\ arg[p] # NoOrder /\ arg[p] \notin accepted \cup refused
      /\ \A q \in Producers : arg[q] = arg[p] => q = p
      /\ pc[p] \notin {"store", "signal"} => ~Reserved(arg[p])
  BY <1>1, InHand
<1>3. pc \in [Producers -> {"idle", "loadHead", "loadTail", "cas", "store", "signal"}]
      /\ arg \in [Producers -> Orders \cup {NoOrder}] /\ reserved \in Seq(Orders)
  BY DEF RingInv, TypeOK
<1>4. accepted \subseteq Orders /\ refused \subseteq Orders
  BY DEF RingInv, TypeOK
<1>5. CASE EnqueueRefuse(p)
  <2>1. /\ pc[p] = "loadTail" /\ refused' = refused \cup {arg[p]} /\ accepted' = accepted
        /\ arg' = [arg EXCEPT ![p] = NoOrder] /\ pc' = [pc EXCEPT ![p] = "idle"] /\ reserved' = reserved
    BY <1>5 DEF EnqueueRefuse
  <2>2. \A o : Reserved(o)' <=> Reserved(o)
    BY <2>1 DEF Reserved
  <2>3. arg'[p] = NoOrder /\ pc'[p] = "idle" /\ \A q \in Producers \ {p} : arg'[q] = arg[q] /\ pc'[q] = pc[q]
    BY <1>3, <2>1
  <2> QED
    BY <1>2, <1>4, <2>1, <2>2, <2>3, NoOrderAssumption DEF AnswersInv
<1>6. CASE EnqueueReserve(p)
  <2>1. /\ pc[p] = "cas" /\ refused' = refused /\ accepted' = accepted /\ arg' = arg
        /\ pc' = [pc EXCEPT ![p] = "store"] /\ reserved' = Append(reserved, arg[p])
    BY <1>6 DEF EnqueueReserve
  <2>2. \A o : Reserved(o)' <=> Reserved(o) \/ o = arg[p]
    <3>1. /\ Len(reserved) \in Nat /\ Len(reserved') = Len(reserved) + 1 /\ reserved'[Len(reserved) + 1] = arg[p]
          /\ \A k \in 1..Len(reserved) : reserved'[k] = reserved[k]
      BY <1>2, <1>3, <2>1
    <3> QED
      BY <3>1 DEF Reserved
  <2>3. pc'[p] = "store" /\ \A q \in Producers \ {p} : pc'[q] = pc[q]
    BY <1>3, <2>1
  <2> QED
    BY <1>2, <2>1, <2>2, <2>3 DEF AnswersInv
<1>7. CASE EnqueuePublish(p)
  <2>1. /\ pc[p] = "store" /\ refused' = refused /\ accepted' = accepted /\ arg' = arg
        /\ pc' = [pc EXCEPT ![p] = "signal"] /\ reserved' = reserved
    BY <1>7 DEF EnqueuePublish
  <2>2. \A o : Reserved(o)' <=> Reserved(o)
    BY <2>1 DEF Reserved
  <2>3. pc'[p] = "signal" /\ \A q \in Producers \ {p} : pc'[q] = pc[q]
    BY <1>3, <2>1
  <2>4. Reserved(arg[p])
    <3>1. tl[p] \in Pending /\ reserved[tl[p] + 1] = arg[p]
      BY <2>1 DEF RingInv, HoldersInv
    <3>2. tl[p] + 1 \in 1..Len(reserved)
      BY <3>1, PendingSlots DEF RingInv, TypeOK, CursorsInv, Pending
    <3> QED
      BY <3>1, <3>2 DEF Reserved
  <2> QED
    BY <1>2, <2>1, <2>2, <2>3, <2>4 DEF AnswersInv
<1>8. CASE EnqueueSignal(p)
  <2>1. /\ pc[p] = "signal" /\ refused' = refused /\ accepted' = accepted \cup {arg[p]}
        /\ arg' = [arg EXCEPT ![p] = NoOrder] /\ pc' = [pc EXCEPT ![p] = "idle"] /\ reserved' = reserved
    BY <1>8 DEF EnqueueSignal
  <2>2. \A o : Reserved(o)' <=> Reserved(o)
    BY <2>1 DEF Reserved
  <2>3. arg'[p] = NoOrder /\ pc'[p] = "idle" /\ \A q \in Producers \ {p} : arg'[q] = arg[q] /\ pc'[q] = pc[q]
    BY <1>3, <2>1
  <2> QED
    BY <1>2, <1>4, <2>1, <2>2, <2>3, NoOrderAssumption DEF AnswersInv
<1>9. CASE EnqueueLoadHead(p) \/ EnqueueLoadTail(p) \/ EnqueueLost(p)
  <2>1. /\ pc[p] \notin {"idle", "store", "signal"} /\ refused' = refused /\ accepted' = accepted
        /\ arg' = arg /\ reserved' = reserved
        /\ \E x \in {"loadHead", "loadTail", "cas"} : pc' = [pc EXCEPT ![p] = x]
    BY <1>9 DEF EnqueueLoadHead, EnqueueLoadTail, EnqueueLost
  <2>2. \A o : Reserved(o)' <=> Reserved(o)
    BY <2>1 DEF Reserved
  <2>3. pc'[p] \in {"loadHead", "loadTail", "cas"} /\ \A q \in Producers \ {p} : pc'[q] = pc[q]
    BY <1>3, <2>1
  <2> QED
    BY <1>2, <2>1, <2>2, <2>3 DEF AnswersInv
<1> QED
  BY <1>5, <1>6, <1>7, <1>8, <1>9 DEF EnqueueStep

\* A call takes an order nobody has had; the consumer touches no answer.
LEMMA NextAnswers == RingInv /\ AnswersInv /\ [RingNext]_ringVars => AnswersInv'
<1> SUFFICES ASSUME RingInv, AnswersInv, [RingNext]_ringVars PROVE AnswersInv'
  OBVIOUS
<1>1. CASE \E p \in Producers, o \in Orders : EnqueueCall(p, o)
  <2>1. PICK p \in Producers, o \in Orders : EnqueueCall(p, o)
    BY <1>1
  <2>2. /\ pc[p] = "idle" /\ o \notin Submitted /\ arg' = [arg EXCEPT ![p] = o]
        /\ pc' = [pc EXCEPT ![p] = "loadTail"]
        /\ accepted' = accepted /\ refused' = refused /\ reserved' = reserved
    BY <2>1 DEF EnqueueCall
  <2>3. \A x : Reserved(x)' <=> Reserved(x)
    BY <2>2 DEF Reserved
  <2>4. arg'[p] = o /\ pc'[p] = "loadTail" /\ \A q \in Producers \ {p} : arg'[q] = arg[q] /\ pc'[q] = pc[q]
    BY <2>2 DEF RingInv, TypeOK
  <2>5. o # NoOrder /\ o \notin accepted \cup refused /\ \A q \in Producers : arg[q] # o
    BY <2>2, NoOrderAssumption DEF Submitted
  <2> QED
    BY <2>2, <2>3, <2>4, <2>5 DEF AnswersInv
<1>2. CASE \E p \in Producers : EnqueueStep(p)
  BY <1>2, EnqueueAnswers
<1>3. CASE ConsumerStep \/ UNCHANGED ringVars
  <2>1. /\ pc' = pc /\ arg' = arg /\ accepted' = accepted /\ refused' = refused /\ reserved' = reserved
    BY <1>3 DEF ConsumerStep, DrainCall, DrainCollect, DrainReturn, ReceiveNotify, ringVars, producerVars
  <2>2. \A x : Reserved(x)' <=> Reserved(x)
    BY <2>1 DEF Reserved
  <2> QED
    BY <2>1, <2>2 DEF AnswersInv
<1> QED
  BY <1>1, <1>2, <1>3 DEF RingNext

\* An order whose Enqueue returned true was handed over, is being collected or
\* waits in a slot; one that was refused never had a slot (ringbuffer.go).
THEOREM RingAnswersTruly == RingSpec => []AnswerIsTrue
<1>1. RingInv /\ AnswersInv => AnswerIsTrue
  <2> SUFFICES ASSUME RingInv, AnswersInv PROVE AnswerIsTrue
    OBVIOUS
  <2>1. /\ head \in Nat /\ tail \in Nat /\ NextPos \in Nat /\ Len(got) \in Nat /\ NextPos = head + Len(got)
        /\ head = Len(delivered) /\ tail = Len(reserved) /\ NextPos <= tail
    BY PendingSlots DEF RingInv, TypeOK, CursorsInv, NextPos
  <2>2. ASSUME NEW o \in accepted
        PROVE  \/ \E i \in 1..Len(delivered) : delivered[i] = o
               \/ \E i \in 1..Len(got) : got[i] = o
               \/ \E x \in NextPos..tail-1 : buffer[Slot(x)] = o
    <3>1. PICK k \in 1..Len(reserved) : reserved[k] = o
      BY DEF AnswersInv, Reserved
    <3>2. CASE k <= head
      <4>1. k \in 1..Len(delivered)
        BY <2>1, <3>2
      <4> QED
        BY <3>1, <4>1 DEF RingInv, CollectedInv
    <3>3. CASE k > head /\ k <= NextPos
      <4>1. k - head \in 1..Len(got) /\ head + (k - head) = k
        BY <2>1, <3>3
      <4> QED
        BY <3>1, <4>1 DEF RingInv, CollectedInv
    <3>4. CASE k > NextPos
      <4>1. k - 1 \in Pending /\ (k - 1) + 1 = k
        BY <2>1, <3>4 DEF Pending
      <4>2. \A p \in Producers : ~Holds(p, k - 1)
        <5> SUFFICES ASSUME NEW p \in Producers, Holds(p, k - 1) PROVE FALSE
          OBVIOUS
        <5>1. arg[p] = o
          BY <3>1, <4>1 DEF Holds, RingInv, HoldersInv
        <5> QED
          BY <5>1 DEF AnswersInv
      <4>3. buffer[Slot(k - 1)] = o
        BY <3>1, <4>1, <4>2 DEF RingInv, SlotsInv
      <4> QED
        BY <4>1, <4>3 DEF Pending
    <3> QED
      BY <2>1, <3>2, <3>3, <3>4
  <2>3. ASSUME NEW o \in refused, NEW k \in 1..Len(reserved), reserved[k] = o
        PROVE  FALSE
    <3>1. Reserved(o) /\ o \in Orders
      BY <2>3 DEF Reserved, RingInv, TypeOK
    <3> QED
      BY <3>1 DEF AnswersInv
  <2> QED
    BY <2>2, <2>3 DEF AnswerIsTrue
<1> QED
  BY <1>1, InitAnswers, NextAnswers, RingInvariant, PTL DEF RingSpec
-----------------------------------------------------------------------------
(***************************************************************************)
(* The loop.                                                               *)
(***************************************************************************)
\* Somebody will wake the loop up, or already has.
WakeUpDue == notify \/ \E p \in Producers : pc[p] \in {"store", "signal"}

\* The loop drains where it says so, has a batch while it processes one, and what
\* its last look at the tail did not cover is announced.
LoopInv ==
  /\ batch \in Seq(Orders) /\ processed \in Seq(Orders)
  /\ cpc = "swap" <=> lpc = "drain"
  /\ lpc = "process" <=> batch # << >>
  /\ processed \o batch = delivered
  /\ lpc = "drain" /\ tail > cTail => WakeUpDue
  /\ lpc \in {"stalledTail", "stalledSlot", "block"} /\ tail > head => WakeUpDue

\* Each step of the engine is a step of its ring, or leaves the ring as it is.
LEMMA EngineStepsRing ==
  ASSUME [EngineNext]_engineVars
  PROVE  [RingNext]_ringVars
<1>1. CASE EngineNext
  BY <1>1 DEF EngineNext, Submit, SubmitStep, SubmitAccepted, SyncReturn, CancelCall, CancelReturn,
    CancelGivesUp, Stop, LoopStep, BlockIdleTimeout, PollStop, PollCancel, PollDefault, Collect, Drained,
    ProcessOrder, StalledTail, StalledSlot, BlockStop, BlockCancel, BlockNotify, ProcessCancel, ExitLoop,
    RingNext, EnqueueStep, ConsumerStep
<1>2. CASE UNCHANGED engineVars
  BY <1>2 DEF engineVars
<1> QED
  BY <1>1, <1>2

\* The engine uses the ring as the ring asks for (one consumer, one call at a
\* time), so that all that is proved of the ring holds in it.
THEOREM EngineRunsRing == EngineSpec => RingSpec
<1>1. EngineInit => RingInit
  BY DEF EngineInit
<1> QED
  BY <1>1, EngineStepsRing, PTL DEF EngineSpec, RingSpec

\* A wake-up that is due stays due while producers go on.
LEMMA ProducersAnnounce ==
  ASSUME RingInv, NEW p \in Producers, EnqueueStep(p)
  PROVE  /\ WakeUpDue => WakeUpDue'
         /\ tail' # tail => WakeUpDue'
         /\ UNCHANGED <<head, cpc, cTail, delivered>>
<1>1. pc \in [Producers -> {"idle", "loadHead", "loadTail", "cas", "store", "signal"}]
  BY DEF RingInv, TypeOK
<1>2. CASE EnqueueReserve(p) \/ EnqueuePublish(p)
  <2>1. pc'[p] \in {"store", "signal"} /\ UNCHANGED <<head, cpc, cTail, delivered>>
    BY <1>1, <1>2 DEF EnqueueReserve, EnqueuePublish, consumerVars
  <2> QED
    BY <2>1 DEF WakeUpDue
<1>3. CASE EnqueueSignal(p)
  BY <1>3 DEF EnqueueSignal, WakeUpDue, consumerVars
<1>4. CASE EnqueueLoadHead(p) \/ EnqueueLoadTail(p) \/ EnqueueRefuse(p) \/ EnqueueLost(p)
  <2>1. /\ pc[p] \notin {"store", "signal"} /\ notify' = notify /\ tail' = tail
        /\ UNCHANGED <<head, cpc, cTail, delivered>>
        /\ \A q \in Producers \ {p} : pc'[q] = pc[q]
    BY <1>1, <1>4 DEF EnqueueLoadHead, EnqueueLoadTail, EnqueueRefuse, EnqueueLost, sharedVars, consumerVars
  <2> QED
    BY <2>1 DEF WakeUpDue
<1> QED
  BY <1>2, <1>3, <1>4 DEF EnqueueStep

\* A drain that ends before its tail has met a slot that somebody still fills.
LEMMA DrainEnds ==
  ASSUME RingInv, DrainReturn, tail > cTail => WakeUpDue
  PROVE  tail > head' => WakeUpDue
<1>1. /\ head' = NextPos /\ cpc = "swap" /\ NextPos \in Nat /\ tail \in Nat /\ cTail \in Nat
      /\ NextPos <= cTail /\ cTail <= tail
  BY PendingSlots DEF DrainReturn, RingInv, TypeOK, CursorsInv
<1>2. CASE NextPos < cTail
  <2>1. buffer[Slot(NextPos)] = NoOrder /\ NextPos \in Pending
    BY <1>1, <1>2 DEF DrainReturn, Pending
  <2>2. reserved[NextPos + 1] # NoOrder
    BY <1>1, <1>2, NoOrderAssumption DEF RingInv, TypeOK, CursorsInv
  <2>3. \E p \in Producers : Holds(p, NextPos)
    BY <2>1, <2>2 DEF RingInv, SlotsInv
  <2> QED
    BY <2>3 DEF Holds, WakeUpDue
<1>3. CASE NextPos = cTail
  BY <1>1, <1>3
<1> QED
  BY <1>1, <1>2, <1>3

\* The loop starts with nothing in hand.
LEMMA InitLoop == EngineInit => LoopInv
<1> SUFFICES ASSUME EngineInit PROVE LoopInv
  OBVIOUS
<1>1. lpc = "poll" /\ batch = << >> /\ processed = << >> /\ delivered = << >> /\ cpc = "idle"
  BY DEF EngineInit, RingInit
<1>2. << >> \in Seq(Orders) /\ << >> \o << >> = << >>
  OBVIOUS
<1> QED
  BY <1>1, <1>2 DEF LoopInv

\* Before it blocks the loop looks at the tail again: what it finds it drains, or
\* leaves to the producer that is still filling a slot.
LEMMA NextLoop == RingInv /\ LoopInv /\ [EngineNext]_engineVars => LoopInv'
<1> SUFFICES ASSUME RingInv, LoopInv, [EngineNext]_engineVars PROVE LoopInv'
  OBVIOUS
<1>1. /\ got \in Seq(Orders) /\ delivered \in Seq(Orders) /\ batch \in Seq(Orders) /\ processed \in Seq(Orders)
      /\ head \in Nat /\ tail \in Nat /\ cTail \in Nat
  BY DEF RingInv, TypeOK, LoopInv
<1>2. ASSUME NEW p \in Producers, EnqueueStep(p), UNCHANGED <<lpc, batch, processed>>
      PROVE  LoopInv'
  <2>1. /\ WakeUpDue => WakeUpDue'
        /\ tail' # tail => WakeUpDue'
        /\ UNCHANGED <<head, cpc, cTail, delivered>>
    BY <1>2, ProducersAnnounce
  <2> QED
    BY <1>2, <2>1 DEF LoopInv
<1>3. ASSUME NEW p \in Producers, SubmitStep(p)
      PROVE  LoopInv'
  BY <1>2, <1>3 DEF SubmitStep, SubmitAccepted, EnqueueStep, loopVars, stateVars
<1>4. ASSUME UNCHANGED <<head, tail, notify, pc, cpc, cTail, delivered, lpc, batch, processed>>
      PROVE  LoopInv'
  BY <1>4 DEF LoopInv, WakeUpDue
<1>5. ASSUME UNCHANGED <<cpc, delivered, batch, processed>>, lpc # "drain", lpc' \in {"poll", "exit"},
             lpc # "process"
      PROVE  LoopInv'
  BY <1>5 DEF LoopInv
<1>6. ASSUME NEW p \in Producers, NEW o \in Orders, Submit(p, o)
      PROVE  LoopInv'
  <2>1. /\ pc[p] = "idle" /\ pc' = [pc EXCEPT ![p] = "loadTail"]
        /\ UNCHANGED <<head, tail, notify, cpc, cTail, delivered, lpc, batch, processed>>
    BY <1>6 DEF Submit, EnqueueCall, sharedVars, consumerVars, loopVars, stateVars
  <2>2. \A q \in Producers \ {p} : pc'[q] = pc[q]
    BY <2>1 DEF RingInv, TypeOK
  <2>3. WakeUpDue => WakeUpDue'
    BY <2>1, <2>2 DEF WakeUpDue
  <2> QED
    BY <2>1, <2>3 DEF LoopInv
<1>7. CASE \/ \E p \in Producers : SyncReturn(p)
           \/ \E u \in Users : CancelCall(u) \/ CancelReturn(u) \/ CancelGivesUp(u)
           \/ Stop
  BY <1>4, <1>7 DEF SyncReturn, CancelCall, CancelReturn, CancelGivesUp, Stop, ringVars, sharedVars,
    producerVars, consumerVars, loopVars, stateVars
<1>8. CASE PollStop \/ PollCancel \/ BlockStop \/ BlockCancel \/ BlockNotify \/ BlockIdleTimeout
  BY <1>5, <1>8 DEF PollStop, PollCancel, BlockStop, BlockCancel, BlockNotify, BlockIdleTimeout, ExitLoop,
    ProcessCancel, ReceiveNotify, ringVars, consumerVars, stateVars
<1>9. CASE PollDefault
  BY <1>1, <1>9 DEF PollDefault, DrainCall, sharedVars, producerVars, stateVars, LoopInv
<1>10. CASE Collect
  <2>1. UNCHANGED <<head, tail, notify, pc, cpc, cTail, delivered, lpc, batch, processed>>
    BY <1>10 DEF Collect, DrainCollect, producerVars, loopVars, stateVars
  <2> QED
    BY <1>4, <2>1
<1>11. CASE Drained
  <2>1. /\ lpc = "drain" /\ cpc' = "idle" /\ delivered' = delivered \o got /\ batch' = got
        /\ lpc' = IF got = << >> THEN "stalledTail" ELSE "process"
        /\ UNCHANGED <<tail, notify, pc, processed>> /\ DrainReturn
    BY <1>11 DEF Drained, DrainReturn, producerVars, stateVars
  <2>2. tail > head' => WakeUpDue
    BY <2>1, DrainEnds DEF LoopInv
  <2>3. processed = delivered
    BY <1>1, <2>1 DEF LoopInv
  <2> QED
    BY <1>1, <2>1, <2>2, <2>3 DEF LoopInv, WakeUpDue
<1>12. CASE ProcessOrder
  <2>1. /\ lpc = "process" /\ processed' = Append(processed, Head(batch)) /\ batch' = Tail(batch)
        /\ lpc' = IF Len(batch) = 1 THEN "poll" ELSE "process"
        /\ delivered' = delivered /\ cpc' = cpc
    BY <1>12 DEF ProcessOrder, ringVars, consumerVars
  <2>2. batch # << >> /\ processed \o batch = delivered
    BY <2>1 DEF LoopInv
  <2>3. Head(batch) \in Orders /\ Tail(batch) \in Seq(Orders) /\ Len(Tail(batch)) = Len(batch) - 1 /\ Len(batch) \in Nat
    BY <1>1, <2>2
  <2>4. Append(processed, Head(batch)) \o Tail(batch) = processed \o batch
    <3>1. <<Head(batch)>> \in Seq(Orders) /\ batch = <<Head(batch)>> \o Tail(batch)
      BY <1>1, <2>2, <2>3
    <3>2. Append(processed, Head(batch)) = processed \o <<Head(batch)>>
      BY <1>1, <2>3, AppendIsConcat
    <3> QED
      BY <1>1, <2>3, <3>1, <3>2, ConcatAssociative
  <2>5. Append(processed, Head(batch)) \in Seq(Orders)
    BY <1>1, <2>3, AppendProperties
  <2>6. Len(batch) = 1 <=> Tail(batch) = << >>
    <3>1. Len(Tail(batch)) = 0 <=> Tail(batch) = << >>
      BY <2>3, EmptySeq
    <3> QED
      BY <2>3, <3>1
  <2> QED
    BY <2>1, <2>2, <2>3, <2>4, <2>5, <2>6 DEF LoopInv
<1>13. CASE StalledTail \/ StalledSlot
  <2>1. /\ lpc \in {"stalledTail", "stalledSlot"} /\ lpc' \in {"stalledSlot", "block", "poll"}
        /\ UNCHANGED <<head, tail, notify, pc, cpc, cTail, delivered, batch, processed>>
    BY <1>13 DEF StalledTail, StalledSlot, ringVars, sharedVars, producerVars, consumerVars, stateVars
  <2> QED
    BY <2>1 DEF LoopInv, WakeUpDue
<1>14. CASE UNCHANGED engineVars
  BY <1>4, <1>14 DEF engineVars, ringVars, sharedVars, producerVars, consumerVars, loopVars, stateVars
<1> QED
  BY <1>3, <1>6, <1>7, <1>8, <1>9, <1>10, <1>11, <1>12, <1>13, <1>14 DEF EngineNext, LoopStep

(***************************************************************************)
(* The loop never sleeps over an order nobody will wake it for, and works  *)
(* orders off in the order their slots were reserved (engine.go, run;      *)
(* ringbuffer.go, Notify), for any number of callers and any interleaving. *)
(***************************************************************************)
THEOREM EngineIntakeSound == EngineSpec => []IntakeSound
<1>1. LoopInv => IntakeSound
  BY DEF LoopInv, WakeUpDue, IntakeSound, NoLostWakeup, ProcessedInOrder
<1> QED
  BY <1>1, InitLoop, NextLoop, EngineRunsRing, RingInvariant, PTL DEF EngineSpec

-----------------------------------------------------------------------------
(***************************************************************************)
(* Reading a log: the lines that parse, in order.                          *)
(***************************************************************************)
Before(S, i) == {j \in S : j < i}

\* The positions of a set in order: each one's rank is how many are before it.
LEMMA SortedPositions ==
  ASSUME NEW n \in Nat, NEW S \in SUBSET (1..n)
  PROVE  /\ Cardinality(S) \in Nat
         /\ \A k \in 1..Cardinality(S) : Sorted(S)[k] \in S
         /\ \A i \in S : \E k \in 1..Cardinality(S) : Sorted(S)[k] = i
         /\ \A k, l \in 1..Cardinality(S) : k < l => Sorted(S)[k] < Sorted(S)[l]
<1> DEFINE c == Cardinality(S)
           rank == [i \in S |-> Cardinality(Before(S, i)) + 1]
<1>1. IsFiniteSet(S) /\ c \in Nat
  <2>1. IsFiniteSet(1..n)
    BY FS_Interval
  <2> QED
    BY <2>1, FS_Subset, FS_CardinalityType
<1>2. ASSUME NEW i \in S
      PROVE  /\ IsFiniteSet(Before(S, i)) /\ Cardinality(Before(S, i)) \in Nat
             /\ Cardinality(Before(S, i)) < c
  <2>1. Before(S, i) \subseteq S /\ Before(S, i) # S
    BY DEF Before
  <2>2. IsFiniteSet(Before(S, i)) /\ Cardinality(Before(S, i)) \in Nat
    BY <1>1, <2>1, FS_Subset, FS_CardinalityType
  <2>3. Cardinality(Before(S, i)) <= c /\ Cardinality(Before(S, i)) # c
    BY <1>1, <2>1, FS_Subset
  <2> QED
    BY <1>1, <2>2, <2>3
<1>3. ASSUME NEW i \in S, NEW j \in S, i < j
      PROVE  Cardinality(Before(S, i)) < Cardinality(Before(S, j))
  <2>1. Before(S, i) \subseteq Before(S, j) /\ Before(S, i) # Before(S, j)
    <3>1. \A x \in S : x \in Int
      OBVIOUS
    <3>2. i \in Before(S, j) /\ i \notin Before(S, i)
      BY <1>3, <3>1 DEF Before
    <3>3. \A x \in S : x < i => x < j
      BY <1>3, <3>1
    <3> QED
      BY <3>2, <3>3 DEF Before
  <2>2. Cardinality(Before(S, i)) <= Cardinality(Before(S, j))
        /\ Cardinality(Before(S, i)) # Cardinality(Before(S, j))
    BY <1>2, <2>1, FS_Subset
  <2> QED
    BY <1>2, <2>2
<1>4. rank \in Bijection(S, 1..c)
  <2>1. rank \in [S -> 1..c]
    BY <1>1, <1>2
  <2>2. \A i, j \in S : rank[i] = rank[j] => i = j
    <3> SUFFICES ASSUME NEW i \in S, NEW j \in S, i # j PROVE rank[i] # rank[j]
      OBVIOUS
    <3>1. i < j \/ j < i
      OBVIOUS
    <3> QED
      BY <1>2, <1>3, <3>1
  <2>3. rank \in Injection(S, 1..c)
    BY <2>1, <2>2 DEF Injection, IsInjective
  <2>4. IsFiniteSet(1..c) /\ Cardinality(1..c) = c
    BY <1>1, FS_Interval
  <2> HIDE DEF rank, c
  <2> QED
    BY <1>1, <2>3, <2>4, FS_Injection DEF c, Bijection
<1>5. ASSUME NEW k \in 1..c
      PROVE  Sorted(S)[k] \in S /\ rank[Sorted(S)[k]] = k
  <2>1. \E i \in S : rank[i] = k
    BY <1>4, <1>5 DEF Bijection, Surjection
  <2>2. \E i \in S : Cardinality({j \in S : j < i}) = k - 1
    <3>1. PICK i \in S : rank[i] = k
      BY <2>1
    <3>2. Cardinality(Before(S, i)) = k - 1
      BY <1>1, <1>2, <3>1
    <3> QED
      BY <3>2 DEF Before
  <2>3. Sorted(S)[k] = CHOOSE i \in S : Cardinality({j \in S : j < i}) = k - 1
    BY <1>5 DEF Sorted
  <2>4. Sorted(S)[k] \in S /\ Cardinality({j \in S : j < Sorted(S)[k]}) = k - 1
    BY <2>2, <2>3
  <2> QED
    BY <2>4, <1>5 DEF Before
<1>6. ASSUME NEW i \in S
      PROVE  \E k \in 1..c : Sorted(S)[k] = i
  <2>1. rank[i] \in 1..c
    BY <1>4 DEF Bijection, Surjection, Injection
  <2>2. rank[Sorted(S)[rank[i]]] = rank[i] /\ Sorted(S)[rank[i]] \in S
    BY <1>5, <2>1
  <2>3. Sorted(S)[rank[i]] = i
    BY <1>4, <2>2 DEF Bijection, Injection, IsInjective
  <2> QED
    BY <2>1, <2>3
<1>7. ASSUME NEW k \in 1..c, NEW l \in 1..c, k < l
      PROVE  Sorted(S)[k] < Sorted(S)[l]
  <2> DEFINE i == Sorted(S)[k]
             j == Sorted(S)[l]
  <2>1. i \in S /\ j \in S /\ rank[i] = k /\ rank[j] = l
    BY <1>5
  <2> HIDE DEF i, j
  <2>2. i \in Int /\ j \in Int
    BY <2>1
  <2>3. Cardinality(Before(S, i)) = k - 1 /\ Cardinality(Before(S, j)) = l - 1
    BY <1>1, <1>2, <2>1
  <2>4. ~(j < i) /\ i # j
    BY <1>3, <1>7, <2>1, <2>3
  <2> QED
    BY <2>2, <2>4 DEF i, j
<1> QED
  BY <1>1, <1>5, <1>6, <1>7

\* What is journaled at some positions, in order.
LEMMA OpsProperties ==
  ASSUME NEW f, NEW n \in Nat, NEW S \in SUBSET (1..n), \A i \in S : f[i].op \in Nat
  PROVE  /\ Ops(f, S) \in Seq(Nat)
         /\ \A k \in DOMAIN Ops(f, S) : \E i \in S : Ops(f, S)[k] = f[i].op
         /\ \A i \in S : \E k \in DOMAIN Ops(f, S) : Ops(f, S)[k] = f[i].op
         /\ (\A i, j \in S : i < j => f[i].op < f[j].op)
              => \A k, l \in DOMAIN Ops(f, S) : k < l => Ops(f, S)[k] < Ops(f, S)[l]
<1> DEFINE c == Cardinality(S)
<1>1. /\ c \in Nat
      /\ \A k \in 1..c : Sorted(S)[k] \in S
      /\ \A i \in S : \E k \in 1..c : Sorted(S)[k] = i
      /\ \A k, l \in 1..c : k < l => Sorted(S)[k] < Sorted(S)[l]
  BY SortedPositions
<1>2. DOMAIN Ops(f, S) = 1..c /\ \A k \in 1..c : Ops(f, S)[k] = f[Sorted(S)[k]].op
  BY DEF Ops
<1>3. Ops(f, S) \in Seq(Nat)
  <2>1. Ops(f, S) \in [1..c -> Nat]
    BY <1>1 DEF Ops
  <2> QED
    BY <1>1, <2>1
<1> HIDE DEF c
<1>4. /\ \A k \in 1..c : \E i \in S : Ops(f, S)[k] = f[i].op
      /\ \A i \in S : \E k \in 1..c : Ops(f, S)[k] = f[i].op
  BY <1>1, <1>2
<1>5. ASSUME \A i, j \in S : i < j => f[i].op < f[j].op, NEW k \in 1..c, NEW l \in 1..c, k < l
      PROVE  Ops(f, S)[k] < Ops(f, S)[l]
  BY <1>1, <1>2, <1>5
<1> QED
  BY <1>2, <1>3, <1>4, <1>5
-----------------------------------------------------------------------------
(***************************************************************************)
(* The invariant.  What it says of the numbers in the log holds up to the  *)
(* second crash, or as long as no line was ever cut; what it says of the   *)
(* answers, where they are promised at all.                                *)
(***************************************************************************)
Lines == [kind : {"record", "bare", "cut", "garbage"}, seq : Nat, op : Nat]
Within(b, n) == \A k \in DOMAIN b : b[k] \in 1..n
Has(b, op) == \E k \in DOMAIN b : b[k] = op

Intact   == faulted \cap {"short", "power"} = {}
Numbered == Intact \/ crashes <= 1
Fresh    == Intact \/ crashes = 0 \/ (crashes = 1 /\ ~up)
Ongoing   == IF step = "none" THEN {} ELSE {taken}

RTypeInv ==
  /\ RecoveryTypeOK
  /\ syncEvery \in Nat \ {0} /\ up \in BOOLEAN /\ broken \in BOOLEAN /\ crashes \in Nat
  /\ file \in Seq(Lines) /\ book \in Seq(Nat)
  /\ snap.seq \in Nat /\ snap.book \in Seq(Nat)
  /\ taking.at \in {"none", "seqRead", "bookRead"} /\ taking.of.seq \in Nat /\ taking.of.book \in Seq(Nat)

\* Who runs when: a step in hand, a snapshot under way and an answer pending
\* belong to an engine that is up.
RStateInv ==
  /\ step # "none" => up /\ taken \notin applied \cup rejected /\ taken >= 1
  /\ step = "written" => pending >= 1
  /\ up /\ step # "written" => pending < syncEvery
  /\ up \/ (taking.at = "none" /\ crashes >= 1 /\ step = "none")

\* The records of the log are operations taken in, in that order.
FileInv(f, n) ==
  /\ \A i \in Records(f) : f[i].op \in 1..n
  /\ \A i, j \in Records(f) : i < j => f[i].op < f[j].op

\* So are the books, apart from the operation in hand.
BookInv ==
  /\ Within(book, taken) /\ Within(snap.book, taken) /\ Within(taking.of.book, taken)
  /\ \A op \in Ongoing : ~Has(book, op)

\* A rejected operation is nowhere, unless its fsync or its newline failed.
RejectedInv ==
  faulted \cap {"fsync", "whole"} = {} =>
    \A op \in rejected : /\ \A i \in Records(file) : file[i].op # op
                         /\ ~Has(book, op) /\ ~Has(snap.book, op) /\ ~Has(taking.of.book, op)

\* Before the first restart, and as long as nothing was cut, record i is line i;
\* and the numbers grow up to the second crash.
PlainLog(f) ==
  /\ \A i \in DOMAIN f : i < Len(f) => f[i].kind = "record"
  /\ \A i \in Records(f) : f[i].seq = i
AllRecords(f) == \A i \in DOMAIN f : f[i].kind = "record"

NumberInv ==
  /\ Fresh => PlainLog(file)
  /\ Intact => AllRecords(file)
  /\ Fresh /\ up /\ ~broken => AllRecords(file) /\ seq = Len(file)
  /\ Numbered => \A i, j \in Records(file) : i < j => file[i].seq < file[j].seq
  /\ Numbered /\ up => \A i \in Records(file) : file[i].seq <= seq

\* Where the answered operations are.
Kept(f, n, op) == \E i \in DOMAIN f : i <= n /\ f[i].kind = "record" /\ f[i].op = op

KeptInv ==
  /\ Intact => \A op \in applied \cup Ongoing : Kept(file, Len(file), op)
  /\ syncEvery = 1 /\ crashes = 0 =>
       /\ \A op \in applied : Kept(file, synced, op)
       /\ step = "written" => Kept(file, Len(file), taken)
       /\ step = "journaled" => Kept(file, synced, taken)
  /\ syncEvery = 1 /\ crashes = 1 =>
       \A op \in applied : Kept(file, Len(file), op) \/ (up /\ Has(book, op))

\* How a book with the log's number (n, b) and the book there is now belong together.
Replayed(f, bk, a, n) == \A i \in Records(f) : f[i].seq > n /\ f[i].op \in a => Has(bk, f[i].op)
Extends(f, bk, n, b) ==
  /\ Len(b) <= Len(bk) /\ \A k \in DOMAIN b : bk[k] = b[k]
  /\ \A k, l \in DOMAIN bk : Len(b) < k /\ k < l => bk[k] < bk[l]
  /\ \A i \in Records(f), k \in DOMAIN bk :
       f[i].seq <= n /\ Len(b) < k /\ Has(b, f[i].op) => f[i].op < bk[k]

SnapInv ==
  Numbered /\ up =>
    /\ Replayed(file, book, applied, snap.seq)
    /\ Extends(file, book, snap.seq, snap.book)
    /\ taking.at # "none" => Replayed(file, book, applied, taking.of.seq)
    /\ taking.at = "bookRead" => Extends(file, book, taking.of.seq, taking.of.book)

RInv == /\ RTypeInv /\ RStateInv /\ FileInv(file, taken) /\ BookInv
        /\ RejectedInv /\ NumberInv /\ KeptInv /\ SnapInv

\* The first lines of a log.
LEMMA FirstLines ==
  ASSUME NEW f \in Seq(Lines), NEW k \in 0..Len(f)
  PROVE  SubSeq(f, 1, k) \in Seq(Lines) /\ Len(SubSeq(f, 1, k)) = k /\ \A i \in 1..k : SubSeq(f, 1, k)[i] = f[i]
<1>1. k \in Int /\ k >= 0 /\ \A i \in 1..k : f[i] \in Lines
  OBVIOUS
<1> QED
  BY <1>1, SubSeqProperties

\* What a line appended to a log does to it: the lines that were records stay,
\* and the only new record is the last line.
LEMMA AppendedLine ==
  ASSUME NEW f \in Seq(Lines), NEW l \in Lines
  PROVE  /\ AppendLine(f, l) \in Seq(Lines)
         /\ Len(AppendLine(f, l)) \in {Len(f), Len(f) + 1}
         /\ \A i \in DOMAIN f : f[i].kind = "record" => AppendLine(f, l)[i] = f[i]
         /\ \A i \in Records(AppendLine(f, l)) :
              \/ i \in Records(f) /\ AppendLine(f, l)[i] = f[i]
              \/ i = Len(f) + 1 /\ AppendLine(f, l)[i] = l
         /\ \A i \in DOMAIN AppendLine(f, l) : i < Len(f) => AppendLine(f, l)[i] = f[i]
         /\ AllRecords(f) => AppendLine(f, l) = Append(f, l)
<1>1. CASE f # << >> /\ Unended(f[Len(f)])
  <2> DEFINE s == SubSeq(f, 1, Len(f) - 1)
             x == Line(IF Unended(l) THEN "cut" ELSE "garbage", 0, 0)
  <2>1. Len(f) \in Nat /\ Len(f) >= 1
    BY <1>1, EmptySeq
  <2>2. s \in Seq(Lines) /\ Len(s) = Len(f) - 1 /\ \A i \in 1..(Len(f) - 1) : s[i] = f[i]
    <3>1. Len(f) - 1 \in 0..Len(f)
      BY <2>1
    <3> QED
      BY <3>1, FirstLines
  <2>3. x \in Lines /\ ~Parses(x)
    BY DEF Lines, Line, Parses
  <2>4. AppendLine(f, l) = Append(s, x)
    BY <1>1 DEF AppendLine
  <2> HIDE DEF s, x
  <2>5. /\ Append(s, x) \in Seq(Lines) /\ Len(Append(s, x)) = Len(f)
        /\ \A i \in 1..(Len(f) - 1) : Append(s, x)[i] = f[i]
        /\ Append(s, x)[Len(f)] = x
    BY <2>1, <2>2, <2>3, AppendProperties
  <2>6. f[Len(f)].kind # "record"
    BY <1>1 DEF Unended
  <2>7. DOMAIN Append(s, x) = 1..Len(f) /\ DOMAIN f = 1..Len(f)
    BY <2>1, <2>5
  <2>8. \A i \in DOMAIN f : f[i].kind = "record" => Append(s, x)[i] = f[i]
    BY <2>1, <2>5, <2>6, <2>7
  <2>9. \A i \in Records(Append(s, x)) : i \in Records(f) /\ Append(s, x)[i] = f[i]
    BY <2>1, <2>3, <2>5, <2>7 DEF Records
  <2>10. ~AllRecords(f)
    <3>1. Len(f) \in DOMAIN f
      BY <2>1
    <3> QED
      BY <2>6, <3>1 DEF AllRecords
  <2>11. \A i \in DOMAIN Append(s, x) : i < Len(f) => Append(s, x)[i] = f[i]
    BY <2>1, <2>5, <2>7
  <2>12. Append(s, x) \in Seq(Lines) /\ Len(Append(s, x)) \in {Len(f), Len(f) + 1}
    BY <2>5
  <2> QED
    BY <2>4, <2>8, <2>9, <2>10, <2>11, <2>12
<1>2. CASE ~(f # << >> /\ Unended(f[Len(f)]))
  <2>1. AppendLine(f, l) = Append(f, l)
    BY <1>2 DEF AppendLine
  <2>2. /\ Append(f, l) \in Seq(Lines) /\ Len(Append(f, l)) = Len(f) + 1
        /\ \A i \in 1..Len(f) : Append(f, l)[i] = f[i]
        /\ Append(f, l)[Len(f) + 1] = l
    BY AppendProperties
  <2>3. Len(f) \in Nat /\ DOMAIN Append(f, l) = 1..(Len(f) + 1) /\ DOMAIN f = 1..Len(f)
    BY <2>2
  <2>4. \A i \in Records(Append(f, l)) :
          \/ i \in Records(f) /\ Append(f, l)[i] = f[i]
          \/ i = Len(f) + 1 /\ Append(f, l)[i] = l
    BY <2>2, <2>3 DEF Records
  <2>5. /\ \A i \in DOMAIN f : Append(f, l)[i] = f[i]
        /\ \A i \in DOMAIN Append(f, l) : i < Len(f) => Append(f, l)[i] = f[i]
    BY <2>2, <2>3
  <2> QED
    BY <2>1, <2>2, <2>4, <2>5
<1> QED
  BY <1>1, <1>2

\* What a crash leaves: what was synced, and of the rest no record that was not
\* there before.
LEMMA SurvivingLines ==
  ASSUME file \in Seq(Lines), synced \in 0..Len(file), NEW g \in Survivors
  PROVE  /\ g \in Seq(Lines) /\ Len(g) \in synced..Len(file)
         /\ \A i \in DOMAIN g : i < Len(g) \/ i <= synced => g[i] = file[i]
         /\ \A i \in Records(g) :
              i \in Records(file) /\ g[i].seq = file[i].seq /\ g[i].op = file[i].op
<1>1. Len(file) \in Nat /\ DOMAIN file = 1..Len(file)
  OBVIOUS
<1>2. CASE g = file
  BY <1>1, <1>2
<1>3. ASSUME NEW k \in synced..(Len(file) - 1), g = SubSeq(file, 1, k)
      PROVE  /\ g \in Seq(Lines) /\ Len(g) = k
             /\ \A i \in 1..k : g[i] = file[i]
  BY <1>1, <1>3, SubSeqProperties
<1>4. ASSUME NEW k \in synced..(Len(file) - 1), NEW x \in Lines, g = Append(SubSeq(file, 1, k), x),
             Parses(x) => Parses(file[k + 1]) /\ x.seq = file[k + 1].seq /\ x.op = file[k + 1].op
      PROVE  /\ g \in Seq(Lines) /\ Len(g) = k + 1
             /\ \A i \in 1..k : g[i] = file[i]
             /\ Parses(g[k + 1]) => /\ Parses(file[k + 1])
                                    /\ g[k + 1].seq = file[k + 1].seq /\ g[k + 1].op = file[k + 1].op
  <2> DEFINE s == SubSeq(file, 1, k)
  <2>1. s \in Seq(Lines) /\ Len(s) = k /\ \A i \in 1..k : s[i] = file[i]
    BY <1>1, SubSeqProperties
  <2> HIDE DEF s
  <2>2. /\ Append(s, x) \in Seq(Lines) /\ Len(Append(s, x)) = k + 1
        /\ \A i \in 1..k : Append(s, x)[i] = s[i]
        /\ Append(s, x)[k + 1] = x
    BY <1>1, <2>1, AppendProperties
  <2> QED
    BY <1>4, <2>1, <2>2 DEF s
<1>5. \/ g = file
      \/ \E k \in synced..(Len(file) - 1) :
           \/ g = SubSeq(file, 1, k)
           \/ g = Append(SubSeq(file, 1, k), Line("cut", 0, 0))
           \/ Parses(file[k + 1]) /\ g = Append(SubSeq(file, 1, k), [file[k + 1] EXCEPT !.kind = "bare"])
  BY DEF Survivors
<1>6. ASSUME NEW k \in synced..(Len(file) - 1), g = SubSeq(file, 1, k)
      PROVE  /\ g \in Seq(Lines) /\ Len(g) \in synced..Len(file)
             /\ \A i \in DOMAIN g : i < Len(g) \/ i <= synced => g[i] = file[i]
             /\ \A i \in Records(g) :
                  i \in Records(file) /\ g[i].seq = file[i].seq /\ g[i].op = file[i].op
  <2>1. g \in Seq(Lines) /\ Len(g) = k /\ \A i \in 1..k : g[i] = file[i]
    BY <1>3, <1>6
  <2>2. DOMAIN g = 1..k
    BY <2>1
  <2> QED
    BY <1>1, <2>1, <2>2 DEF Records
<1>7. ASSUME NEW k \in synced..(Len(file) - 1), NEW x \in Lines, g = Append(SubSeq(file, 1, k), x),
             Parses(x) => Parses(file[k + 1]) /\ x.seq = file[k + 1].seq /\ x.op = file[k + 1].op
      PROVE  /\ g \in Seq(Lines) /\ Len(g) \in synced..Len(file)
             /\ \A i \in DOMAIN g : i < Len(g) \/ i <= synced => g[i] = file[i]
             /\ \A i \in Records(g) :
                  i \in Records(file) /\ g[i].seq = file[i].seq /\ g[i].op = file[i].op
  <2>1. /\ g \in Seq(Lines) /\ Len(g) = k + 1
        /\ \A i \in 1..k : g[i] = file[i]
        /\ Parses(g[k + 1]) => /\ Parses(file[k + 1])
                               /\ g[k + 1].seq = file[k + 1].seq /\ g[k + 1].op = file[k + 1].op
    BY <1>4, <1>7
  <2>2. DOMAIN g = 1..(k + 1)
    BY <2>1
  <2> QED
    BY <1>1, <2>1, <2>2 DEF Records
<1>8. Line("cut", 0, 0) \in Lines /\ ~Parses(Line("cut", 0, 0))
  BY DEF Line, Lines, Parses
<1>9. ASSUME NEW k \in synced..(Len(file) - 1)
      PROVE  LET x == [file[k + 1] EXCEPT !.kind = "bare"]
             IN  x \in Lines /\ x.seq = file[k + 1].seq /\ x.op = file[k + 1].op
  <2>1. file[k + 1] \in Lines
    BY <1>1
  <2> QED
    BY <2>1 DEF Lines
<1> QED
  BY <1>2, <1>5, <1>6, <1>7, <1>8, <1>9

\* The operations of some records of a log that FileInv describes.
LEMMA LoggedOps ==
  ASSUME NEW f \in Seq(Lines), NEW n \in Nat, FileInv(f, n), NEW S \in SUBSET Records(f)
  PROVE  /\ Ops(f, S) \in Seq(Nat)
         /\ \A k \in DOMAIN Ops(f, S) : \E i \in S : Ops(f, S)[k] = f[i].op
         /\ \A i \in S : Has(Ops(f, S), f[i].op)
         /\ \A k, l \in DOMAIN Ops(f, S) : k < l => Ops(f, S)[k] < Ops(f, S)[l]
<1>1. Len(f) \in Nat /\ S \in SUBSET (1..Len(f)) /\ \A i \in S : f[i].op \in Nat
  BY DEF Records, FileInv
<1>2. \A i, j \in S : i < j => f[i].op < f[j].op
  BY DEF FileInv
<1> QED
  BY <1>1, <1>2, OpsProperties DEF Has

-----------------------------------------------------------------------------
\* Init: an empty log and an empty book.
LEMMA InitRecovery == Init => RInv
<1> SUFFICES ASSUME Init PROVE RInv
  OBVIOUS
<1>1. file = << >> /\ book = << >> /\ DOMAIN file = {} /\ DOMAIN book = {}
      /\ Records(file) = {} /\ Len(file) = 0 /\ Len(book) = 0
  BY DEF Init, Records
<1>2. RTypeInv
  <2>1. file \in Seq(Lines) /\ book \in Seq(Nat)
    BY <1>1
  <2>2. /\ snap.seq = 0 /\ snap.book = book
        /\ taking.at = "none" /\ taking.of.seq = 0 /\ taking.of.book = book
    BY <1>1 DEF Init, NotTaking, Empty
  <2>3. syncEvery \in Nat \ {0} /\ RecoveryTypeOK
    BY <1>1, SyncAssumption, BoundAssumption DEF Init, RecoveryTypeOK
  <2>6. up \in BOOLEAN /\ broken \in BOOLEAN /\ crashes \in Nat
    BY DEF Init
  <2> QED
    BY <2>1, <2>2, <2>3, <2>6 DEF RTypeInv
<1>3. RStateInv /\ FileInv(file, taken)
  BY <1>1, SyncAssumption DEF Init, RStateInv, NotTaking, FileInv
<1>4. BookInv /\ RejectedInv
  BY <1>1 DEF Init, BookInv, RejectedInv, Within, Ongoing, NotTaking, Empty
<1>5. NumberInv
  BY <1>1 DEF Init, NumberInv, PlainLog, AllRecords
<1>6. KeptInv
  BY <1>1 DEF Init, KeptInv, Ongoing
<1>7. SnapInv
  BY <1>1 DEF Init, SnapInv, Replayed, Extends, NotTaking, Empty
<1> QED
  BY <1>2, <1>3, <1>4, <1>5, <1>6, <1>7 DEF RInv

\* A record for the next operation, and a line of which only part was written.
LEMMA NewLines ==
  ASSUME RTypeInv
  PROVE  /\ Line("record", seq + 1, taken + 1) \in Lines /\ Line("cut", 0, 0) \in Lines
         /\ Line("bare", seq + 1, taken + 1) \in Lines /\ ~Parses(Line("cut", 0, 0))
         /\ Line("bare", seq + 1, taken + 1).seq = seq + 1 /\ Line("bare", seq + 1, taken + 1).op = taken + 1
         /\ Line("record", seq + 1, taken + 1).seq = seq + 1
         /\ Line("record", seq + 1, taken + 1).op = taken + 1
         /\ Line("record", seq + 1, taken + 1).kind = "record"
<1>1. seq \in Nat /\ taken \in Nat
  BY BoundAssumption DEF RTypeInv, RecoveryTypeOK
<1> QED
  BY <1>1 DEF Line, Lines, Parses

\* What recovery reads from the log.
LEMMA ReplayedOps ==
  ASSUME RTypeInv, FileInv(file, taken)
  PROVE  LET ops == Ops(file, ToReplay(file, snap.seq))
         IN  /\ ops \in Seq(Nat)
             /\ \A k \in DOMAIN ops : \E i \in ToReplay(file, snap.seq) : ops[k] = file[i].op
             /\ \A i \in ToReplay(file, snap.seq) : Has(ops, file[i].op)
             /\ \A k, l \in DOMAIN ops : k < l => ops[k] < ops[l]
<1>1. file \in Seq(Lines) /\ taken \in Nat
  BY BoundAssumption DEF RTypeInv, RecoveryTypeOK
<1>2. ToReplay(file, snap.seq) \in SUBSET Records(file)
  BY DEF ToReplay
<1> QED
  BY <1>1, <1>2, LoggedOps

\* A log of n lines has so many records.
LEMMA RecordCount ==
  ASSUME NEW f \in Seq(Lines)
  PROVE  Cardinality(Records(f)) \in Nat /\ Records(f) \subseteq 1..Len(f) /\ IsFiniteSet(Records(f))
<1>1. Records(f) \subseteq 1..Len(f) /\ Len(f) \in Nat
  BY DEF Records
<1>2. IsFiniteSet(1..Len(f))
  BY <1>1, FS_Interval
<1> QED
  BY <1>1, <1>2, FS_Subset, FS_CardinalityType

\* The steps of an operation, a snapshot, a crash or a recovery keep the types.
LEMMA NextRTypes == RTypeInv /\ RStateInv /\ FileInv(file, taken) /\ [Next]_vars => RTypeInv'
<1> SUFFICES ASSUME RTypeInv, RStateInv, FileInv(file, taken), [Next]_vars PROVE RTypeInv'
  OBVIOUS
<1> USE DEF RTypeInv, RecoveryTypeOK, RStateInv, walVars, snapVars
<1>1. ASSUME AppendWrite, UNCHANGED syncEvery PROVE RTypeInv'
  <2>1. /\ file' \in Seq(Lines) /\ Len(file') \in {Len(file), Len(file) + 1}
    <3>1. file \in Seq(Lines) /\ file' = AppendLine(file, Line("record", seq + 1, taken + 1))
      BY <1>1 DEF AppendWrite
    <3> QED
      BY <3>1, NewLines, AppendedLine
  <2>2. /\ UNCHANGED <<syncEvery, up, broken, synced, book, applied, rejected, snap, taking, crashes>>
        /\ step' = "written"
    BY <1>1 DEF AppendWrite
  <2>3. seq' \in Nat /\ taken' = taken + 1 /\ taken' \in 0..MaxOps /\ pending' \in 0..syncEvery
    BY <1>1, BoundAssumption DEF AppendWrite, TakeIn
  <2>4. synced \in 0..Len(file') /\ applied \cup rejected \subseteq 1..taken'
    BY <2>1, <2>3
  <2> QED
    BY <2>1, <2>2, <2>3, <2>4
<1>2. ASSUME AppendFails, UNCHANGED syncEvery PROVE RTypeInv'
  <2>1. /\ file' \in Seq(Lines) /\ Len(file') \in {Len(file), Len(file) + 1}
    <3>1. /\ file \in Seq(Lines)
          /\ file' = file \/ \E l \in {Line("cut", 0, 0), Line("bare", seq + 1, taken + 1)} : file' = AppendLine(file, l)
      BY <1>2 DEF AppendFails
    <3>2. Line("cut", 0, 0) \in Lines /\ Line("bare", seq + 1, taken + 1) \in Lines
      BY NewLines
    <3>3. \A l \in Lines : /\ AppendLine(file, l) \in Seq(Lines)
                          /\ Len(AppendLine(file, l)) \in {Len(file), Len(file) + 1}
      BY <3>1, AppendedLine
    <3> QED
      BY <3>1, <3>2, <3>3
  <2>2. taken' = taken + 1 /\ taken' \in 0..MaxOps /\ rejected' = rejected \cup {taken'} /\ applied' = applied
    BY <1>2, BoundAssumption DEF AppendFails, TakeIn, Reject
  <2>3. applied' \cap rejected' = {} /\ applied' \cup rejected' \subseteq 1..taken'
    BY <2>2
  <2>4. taken \in Nat /\ seq' \in Nat /\ broken' \in BOOLEAN /\ step' \in {"none", "written", "journaled"}
    BY <1>2, BoundAssumption DEF AppendFails, TakeIn, Reject
  <2>5. UNCHANGED <<syncEvery, up, book, applied, snap, taking, crashes, pending, synced>>
    BY <1>2 DEF AppendFails, Reject
  <2> QED
    BY <2>1, <2>2, <2>3, <2>4, <2>5
<1>3. ASSUME AppendUnsynced \/ AppendSynced, UNCHANGED syncEvery PROVE RTypeInv'
  <2>1. pending' \in 0..syncEvery' /\ synced' \in 0..Len(file') /\ step' = "journaled"
    BY <1>3 DEF AppendUnsynced, AppendSynced
  <2>2. UNCHANGED <<syncEvery, up, seq, broken, file, taken, book, applied, rejected, snap, taking, crashes>>
    BY <1>3 DEF AppendUnsynced, AppendSynced
  <2> QED
    BY <2>1, <2>2
<1>4. ASSUME SyncFails, UNCHANGED syncEvery PROVE RTypeInv'
  <2>1. taken' = taken /\ rejected' = rejected \cup {taken} /\ applied' = applied
    BY <1>4 DEF SyncFails, Reject
  <2>2. applied' \cap rejected' = {} /\ applied' \cup rejected' \subseteq 1..taken'
    BY <1>4, <2>1, BoundAssumption DEF SyncFails
  <2> QED
    BY <1>4, <2>2 DEF SyncFails, Reject
<1>5. ASSUME Apply, UNCHANGED syncEvery PROVE RTypeInv'
  <2>1. taken \in Nat /\ taken >= 1 /\ book' \in Seq(Nat)
    BY <1>5, BoundAssumption DEF Apply
  <2>2. applied' \cap rejected' = {} /\ applied' \cup rejected' \subseteq 1..taken'
    BY <1>5, <2>1 DEF Apply
  <2> QED
    BY <1>5, <2>1, <2>2 DEF Apply
<1>6. ASSUME TriggerStops \/ SnapshotSeq \/ SnapshotBook \/ SnapshotSave, UNCHANGED syncEvery PROVE RTypeInv'
  <2>1. UNCHANGED <<syncEvery, up, seq, broken, pending, file, synced, taken, step, book, applied, rejected, crashes>>
    BY <1>6 DEF TriggerStops, SnapshotSeq, SnapshotBook, SnapshotSave
  <2>2. << >> \in Seq(Nat)
    OBVIOUS
  <2>3. /\ snap'.seq \in Nat /\ snap'.book \in Seq(Nat)
        /\ taking'.at \in {"none", "seqRead", "bookRead"} /\ taking'.of.seq \in Nat /\ taking'.of.book \in Seq(Nat)
    <3>1. CASE SnapshotSeq
      BY <2>2, <3>1 DEF SnapshotSeq, Empty
    <3>2. CASE SnapshotBook
      BY <3>2 DEF SnapshotBook
    <3>3. CASE SnapshotSave
      BY <2>2, <3>3 DEF SnapshotSave, NotTaking, Empty
    <3>4. CASE TriggerStops
      BY <3>4 DEF TriggerStops
    <3> QED
      BY <1>6, <3>1, <3>2, <3>3, <3>4
  <2> QED
    BY <2>1, <2>3
<1>7. ASSUME Crash, UNCHANGED syncEvery PROVE RTypeInv'
  <2>1. file' \in Seq(Lines) /\ synced' \in 0..Len(file')
    BY <1>7, SurvivingLines DEF Crash
  <2>2. << >> \in Seq(Nat)
    OBVIOUS
  <2>3. /\ taking'.at = "none" /\ taking'.of.seq \in Nat /\ taking'.of.book \in Seq(Nat) /\ book' \in Seq(Nat)
    BY <1>7, <2>2 DEF Crash, NotTaking, Empty
  <2>4. /\ UNCHANGED <<syncEvery, seq, broken, pending, taken, applied, rejected, snap>>
        /\ crashes' \in Nat /\ step' = "none"
    BY <1>7 DEF Crash
  <2>5. up' \in BOOLEAN
    BY <1>7 DEF Crash
  <2> QED
    BY <2>1, <2>3, <2>4, <2>5
<1>8. ASSUME Recover, UNCHANGED syncEvery PROVE RTypeInv'
  <2>1. book' \in Seq(Nat)
    BY <1>8, ReplayedOps DEF Recover
  <2>2. seq' \in Nat
    BY <1>8, RecordCount DEF Recover
  <2>3. pending' \in 0..syncEvery
    BY <1>8 DEF Recover
  <2> QED
    BY <1>8, <2>1, <2>2, <2>3 DEF Recover
<1>9. ASSUME UNCHANGED vars PROVE RTypeInv'
  BY <1>9 DEF vars
<1> QED
  BY <1>1, <1>2, <1>3, <1>4, <1>5, <1>6, <1>7, <1>8, <1>9 DEF Next

\* Only an engine that is up has an operation in hand or takes a snapshot.
LEMMA NextRState == RTypeInv /\ RStateInv /\ [Next]_vars => RStateInv'
<1> SUFFICES ASSUME RTypeInv, RStateInv, [Next]_vars PROVE RStateInv'
  OBVIOUS
<1>0. /\ taken \in Nat /\ syncEvery \in Nat \ {0} /\ pending \in Nat /\ pending <= syncEvery
      /\ applied \cup rejected \subseteq 1..taken /\ crashes \in Nat /\ up \in BOOLEAN
  BY BoundAssumption DEF RTypeInv, RecoveryTypeOK
<1> USE DEF RStateInv, walVars, snapVars
<1>1. ASSUME AppendWrite, UNCHANGED syncEvery PROVE RStateInv'
  <2>1. taken + 1 \notin applied \cup rejected
    BY <1>0
  <2> QED
    BY <1>0, <1>1, <2>1 DEF AppendWrite, TakeIn
<1>2. ASSUME AppendFails, UNCHANGED syncEvery PROVE RStateInv'
  BY <1>2 DEF AppendFails, TakeIn, Reject
<1>3. ASSUME AppendUnsynced \/ AppendSynced, UNCHANGED syncEvery PROVE RStateInv'
  BY <1>0, <1>3 DEF AppendUnsynced, AppendSynced
<1>4. ASSUME SyncFails, UNCHANGED syncEvery PROVE RStateInv'
  BY <1>0, <1>4 DEF SyncFails, Reject
<1>5. ASSUME Apply, UNCHANGED syncEvery PROVE RStateInv'
  BY <1>5 DEF Apply
<1>6. ASSUME TriggerStops \/ SnapshotSeq \/ SnapshotBook \/ SnapshotSave, UNCHANGED syncEvery PROVE RStateInv'
  <2>1. up /\ UNCHANGED <<syncEvery, up, pending, step, taken, applied, rejected>>
    BY <1>6 DEF TriggerStops, SnapshotSeq, SnapshotBook, SnapshotSave
  <2> QED
    BY <2>1
<1>7. ASSUME Crash, UNCHANGED syncEvery PROVE RStateInv'
  BY <1>0, <1>7 DEF Crash, NotTaking
<1>8. ASSUME Recover, UNCHANGED syncEvery PROVE RStateInv'
  BY <1>0, <1>8 DEF Recover
<1>9. ASSUME UNCHANGED vars PROVE RStateInv'
  BY <1>9 DEF vars
<1> QED
  BY <1>1, <1>2, <1>3, <1>4, <1>5, <1>6, <1>7, <1>8, <1>9 DEF Next

\* What is in a sequence that grew.
LEMMA HasAppend ==
  ASSUME NEW b \in Seq(Nat), NEW x \in Nat
  PROVE  \A y : Has(Append(b, x), y) <=> Has(b, y) \/ y = x
<1>1. /\ DOMAIN Append(b, x) = 1..(Len(b) + 1) /\ DOMAIN b = 1..Len(b) /\ Len(b) \in Nat
      /\ \A k \in 1..Len(b) : Append(b, x)[k] = b[k]
      /\ Append(b, x)[Len(b) + 1] = x
  BY AppendProperties
<1>2. Len(b) + 1 \in 1..(Len(b) + 1) /\ \A k \in 1..(Len(b) + 1) : k \in 1..Len(b) \/ k = Len(b) + 1
  BY <1>1
<1>3. \A k \in 1..Len(b) : k \in 1..(Len(b) + 1)
  BY <1>1
<1> QED
  BY <1>1, <1>2, <1>3 DEF Has

\* The same of two sequences put together: a snapshot's book and what is replayed.
LEMMA HasConcat ==
  ASSUME NEW a \in Seq(Nat), NEW b \in Seq(Nat)
  PROVE  \A y : Has(a \o b, y) <=> Has(a, y) \/ Has(b, y)
<1>1. /\ DOMAIN (a \o b) = 1..(Len(a) + Len(b)) /\ Len(a) \in Nat /\ Len(b) \in Nat
      /\ DOMAIN a = 1..Len(a) /\ DOMAIN b = 1..Len(b)
      /\ \A k \in 1..(Len(a) + Len(b)) : (a \o b)[k] = IF k <= Len(a) THEN a[k] ELSE b[k - Len(a)]
  BY ConcatProperties
<1>2. \A k \in 1..Len(a) : k \in 1..(Len(a) + Len(b)) /\ (a \o b)[k] = a[k]
  BY <1>1
<1>3. \A k \in 1..Len(b) : k + Len(a) \in 1..(Len(a) + Len(b)) /\ (a \o b)[k + Len(a)] = b[k]
  BY <1>1
<1>4. \A k \in 1..(Len(a) + Len(b)) : k \in 1..Len(a) \/ (k - Len(a) \in 1..Len(b) /\ (a \o b)[k] = b[k - Len(a)])
  BY <1>1
<1> QED
  BY <1>1, <1>2, <1>3, <1>4 DEF Has

\* A record has a position, a number and an operation.
LEMMA RecordAt ==
  ASSUME NEW f \in Seq(Lines), NEW i \in Records(f)
  PROVE  i \in 1..Len(f) /\ i \in DOMAIN f /\ f[i] \in Lines /\ f[i].seq \in Nat /\ f[i].op \in Nat
<1>1. i \in DOMAIN f /\ DOMAIN f = 1..Len(f)
  BY DEF Records
<1>2. f[i] \in Lines
  BY <1>1
<1> QED
  BY <1>1, <1>2 DEF Lines

\* The positions of a line stay positions.
LEMMA SameOrLonger ==
  ASSUME NEW m \in Nat, NEW n \in {m, m + 1}
  PROVE  1..m \subseteq 1..n
  OBVIOUS

\* What a journaled operation leaves in the log.
LEMMA WrittenRecords ==
  ASSUME RTypeInv, AppendWrite
  PROVE  /\ file' \in Seq(Lines) /\ Len(file') \in {Len(file), Len(file) + 1}
         /\ \A i \in DOMAIN file : file[i].kind = "record" => i \in DOMAIN file' /\ file'[i] = file[i]
         /\ \A i \in Records(file') :
              \/ i \in Records(file) /\ file'[i] = file[i]
              \/ i = Len(file) + 1 /\ file'[i].seq = seq + 1 /\ file'[i].op = taken + 1
         /\ AllRecords(file) => file' = Append(file, Line("record", seq + 1, taken + 1))
<1>1. file \in Seq(Lines) /\ file' = AppendLine(file, Line("record", seq + 1, taken + 1))
  BY DEF RTypeInv, AppendWrite
<1>2. /\ file' \in Seq(Lines) /\ Len(file') \in {Len(file), Len(file) + 1}
      /\ \A i \in DOMAIN file : file[i].kind = "record" => file'[i] = file[i]
      /\ \A i \in Records(file') :
           \/ i \in Records(file) /\ file'[i] = file[i]
           \/ i = Len(file) + 1 /\ file'[i] = Line("record", seq + 1, taken + 1)
      /\ AllRecords(file) => file' = Append(file, Line("record", seq + 1, taken + 1))
  BY <1>1, NewLines, AppendedLine
<1>3. \A i \in DOMAIN file : i \in DOMAIN file'
  <2>1. Len(file) \in Nat /\ DOMAIN file = 1..Len(file) /\ DOMAIN file' = 1..Len(file')
    BY <1>1, <1>2
  <2>2. Len(file') \in {Len(file), Len(file) + 1}
    BY <1>2
  <2>3. 1..Len(file) \subseteq 1..Len(file')
    BY <2>1, <2>2, SameOrLonger
  <2> QED
    BY <2>1, <2>3
<1> QED
  BY <1>2, <1>3, NewLines

\* The same of an append that failed: at most part of a line, which is a record
\* if only its newline is missing.
LEMMA FailedRecords ==
  ASSUME RTypeInv, AppendFails
  PROVE  /\ file' \in Seq(Lines) /\ Len(file') \in {Len(file), Len(file) + 1}
         /\ \A i \in DOMAIN file : file[i].kind = "record" => i \in DOMAIN file' /\ file'[i] = file[i]
         /\ \A i \in Records(file') :
              \/ i \in Records(file) /\ file'[i] = file[i]
              \/ /\ i = Len(file) + 1 /\ file'[i].seq = seq + 1 /\ file'[i].op = taken + 1
                 /\ "whole" \in faulted'
         /\ \/ file' = file
            \/ /\ "short" \in faulted' /\ ~broken
               /\ AllRecords(file) => \E l \in Lines : file' = Append(file, l)
<1>1. /\ file \in Seq(Lines)
      /\ \/ file' = file
         \/ /\ "short" \in faulted' /\ ~broken
            /\ \E l \in {Line("cut", 0, 0), Line("bare", seq + 1, taken + 1)} :
                 /\ file' = AppendLine(file, l)
                 /\ l # Line("cut", 0, 0) => "whole" \in faulted'
  BY DEF RTypeInv, AppendFails
<1>2. CASE file' = file
  BY <1>1, <1>2 DEF Records
<1>3. ASSUME NEW l \in {Line("cut", 0, 0), Line("bare", seq + 1, taken + 1)},
             file' = AppendLine(file, l), l # Line("cut", 0, 0) => "whole" \in faulted',
             "short" \in faulted', ~broken
      PROVE  /\ file' \in Seq(Lines) /\ Len(file') \in {Len(file), Len(file) + 1}
             /\ \A i \in DOMAIN file : file[i].kind = "record" => i \in DOMAIN file' /\ file'[i] = file[i]
             /\ \A i \in Records(file') :
                  \/ i \in Records(file) /\ file'[i] = file[i]
                  \/ /\ i = Len(file) + 1 /\ file'[i].seq = seq + 1 /\ file'[i].op = taken + 1
                     /\ "whole" \in faulted'
             /\ AllRecords(file) => \E x \in Lines : file' = Append(file, x)
  <2>1. l \in Lines
    BY NewLines
  <2>2. /\ file' \in Seq(Lines) /\ Len(file') \in {Len(file), Len(file) + 1}
        /\ \A i \in DOMAIN file : file[i].kind = "record" => file'[i] = file[i]
        /\ \A i \in Records(file') :
             \/ i \in Records(file) /\ file'[i] = file[i]
             \/ i = Len(file) + 1 /\ file'[i] = l
        /\ AllRecords(file) => file' = Append(file, l)
    BY <1>1, <1>3, <2>1, AppendedLine
  <2>3. \A i \in DOMAIN file : i \in DOMAIN file'
    <3>1. Len(file) \in Nat /\ DOMAIN file = 1..Len(file) /\ DOMAIN file' = 1..Len(file')
      BY <1>1, <2>2
    <3>2. Len(file') \in {Len(file), Len(file) + 1}
      BY <2>2
    <3>3. 1..Len(file) \subseteq 1..Len(file')
      BY <3>1, <3>2, SameOrLonger
    <3> QED
      BY <3>1, <3>3
  <2>4. \A i \in Records(file') : file'[i] # Line("cut", 0, 0)
    BY NewLines DEF Records
  <2>5. \A i \in Records(file') : file'[i] = l =>
          file'[i].seq = seq + 1 /\ file'[i].op = taken + 1 /\ "whole" \in faulted'
    BY <1>3, <2>4, NewLines
  <2> QED
    BY <2>1, <2>2, <2>3, <2>5
<1> QED
  BY <1>1, <1>2, <1>3

\* The same of a crash.
LEMMA CrashRecords ==
  ASSUME RTypeInv, Crash
  PROVE  /\ file' \in Seq(Lines) /\ Len(file') \in synced..Len(file)
         /\ \A i \in DOMAIN file' : i < Len(file') \/ i <= synced => file'[i] = file[i]
         /\ \A i \in Records(file') :
              i \in Records(file) /\ file'[i].seq = file[i].seq /\ file'[i].op = file[i].op
  BY SurvivingLines DEF RTypeInv, RecoveryTypeOK, Crash

\* The other steps write nothing.
Writes == AppendWrite \/ AppendFails \/ Crash

\* Snapshots, fsyncs, answers and recovery leave the lines of the log alone.
LEMMA OtherSteps ==
  ASSUME [Next]_vars, ~Writes
  PROVE  file' = file /\ taken' = taken
  BY DEF Next, vars, Writes, AppendUnsynced, AppendSynced, SyncFails, Apply, TriggerStops, SnapshotSeq,
         SnapshotBook, SnapshotSave, Recover, Reject, walVars

\* Later operations are logged behind earlier ones, by AppendWrite or a write that
\* lacks its newline only; nothing else adds a record.
LEMMA NextFile == RTypeInv /\ FileInv(file, taken) /\ [Next]_vars => FileInv(file', taken')
<1> SUFFICES ASSUME RTypeInv, FileInv(file, taken), [Next]_vars PROVE FileInv(file', taken')
  OBVIOUS
<1>0. taken \in Nat /\ file \in Seq(Lines)
  BY BoundAssumption DEF RTypeInv, RecoveryTypeOK
<1>1. CASE AppendWrite \/ AppendFails
  <2>1. taken' = taken + 1 /\ Len(file) \in Nat
    BY <1>0, <1>1 DEF AppendWrite, AppendFails, TakeIn
  <2>2. \A i \in Records(file') :
          \/ i \in Records(file) /\ file'[i].op = file[i].op
          \/ i = Len(file) + 1 /\ file'[i].op = taken + 1
    BY <1>1, WrittenRecords, FailedRecords
  <2>3. \A i \in Records(file) : i \in 1..Len(file) /\ file[i].op \in 1..taken
    BY <1>0, RecordAt DEF FileInv
  <2>4. \A i \in Records(file') : file'[i].op \in 1..(taken + 1)
    BY <1>0, <2>2, <2>3
  <2>5. ASSUME NEW i \in Records(file'), NEW j \in Records(file'), i < j
        PROVE  file'[i].op < file'[j].op
    <3>1. i \in Records(file)
      BY <2>1, <2>2, <2>3, <2>5
    <3>2. CASE j \in Records(file)
      <4>1. j # Len(file) + 1 /\ i # Len(file) + 1
        BY <2>1, <2>3, <3>1, <3>2
      <4> QED
        BY <2>2, <2>5, <3>1, <3>2, <4>1 DEF FileInv
    <3>3. CASE j = Len(file) + 1 /\ file'[j].op = taken + 1
      <4>1. i # Len(file) + 1
        BY <2>1, <2>3, <3>1
      <4>2. file'[i].op = file[i].op /\ file[i].op \in 1..taken
        BY <2>2, <2>3, <3>1, <4>1
      <4> QED
        BY <1>0, <3>3, <4>2
    <3> QED
      BY <2>2, <3>2, <3>3
  <2> QED
    BY <2>1, <2>4, <2>5 DEF FileInv
<1>2. CASE Crash
  <2>1. \A i \in Records(file') : i \in Records(file) /\ file'[i].op = file[i].op
    BY <1>2, CrashRecords
  <2>2. taken' = taken
    BY <1>2 DEF Crash
  <2> QED
    BY <1>0, <2>1, <2>2 DEF FileInv
<1>3. CASE ~Writes
  BY <1>3, OtherSteps DEF FileInv
<1> QED
  BY <1>1, <1>2, <1>3 DEF Writes

\* What recovery finds of an operation is in the snapshot or in a record.
LEMMA RecoveredBook ==
  ASSUME RTypeInv, FileInv(file, taken), Recover
  PROVE  /\ \A op : Has(book', op) => \/ Has(snap.book, op)
                                      \/ \E i \in Records(file) : file[i].op = op
         /\ \A i \in Records(file) : file[i].seq > snap.seq => Has(book', file[i].op)
         /\ Extends(file, book', snap.seq, snap.book)
            \/ \E i, j \in Records(file) : i < j /\ ~(file[i].seq < file[j].seq)
<1> DEFINE b == snap.book
           ops == Ops(file, ToReplay(file, snap.seq))
           n == Len(b)
           m == Len(ops)
<1>1. /\ ops \in Seq(Nat)
      /\ \A k \in DOMAIN ops : \E i \in ToReplay(file, snap.seq) : ops[k] = file[i].op
      /\ \A i \in ToReplay(file, snap.seq) : Has(ops, file[i].op)
      /\ \A k, l \in DOMAIN ops : k < l => ops[k] < ops[l]
  BY ReplayedOps
<1>2. b \in Seq(Nat) /\ snap.seq \in Nat /\ book' = b \o ops
  BY DEF RTypeInv, Recover
<1> HIDE DEF b, ops
<1>3. \A op : Has(book', op) <=> Has(b, op) \/ Has(ops, op)
  BY <1>1, <1>2, HasConcat
<1>4. \A op : Has(ops, op) => \E i \in Records(file) : file[i].op = op
  BY <1>1 DEF Has, ToReplay
<1>5. \A i \in Records(file) : file[i].seq > snap.seq => Has(ops, file[i].op)
  BY <1>1 DEF ToReplay
<1>6. /\ n \in Nat /\ m \in Nat /\ DOMAIN book' = 1..(n + m) /\ Len(book') = n + m
      /\ DOMAIN ops = 1..m /\ DOMAIN b = 1..n
      /\ \A k \in 1..(n + m) : book'[k] = IF k <= n THEN b[k] ELSE ops[k - n]
  BY <1>1, <1>2, ConcatProperties
<1> HIDE DEF n, m
<1>7. ASSUME \A i, j \in Records(file) : i < j => file[i].seq < file[j].seq
      PROVE  Extends(file, book', snap.seq, b)
  <2>1. \A k \in DOMAIN b : book'[k] = b[k]
    BY <1>6
  <2>2. ASSUME NEW k \in DOMAIN book', NEW l \in DOMAIN book', n < k, k < l
        PROVE  book'[k] < book'[l]
    <3>1. k - n \in 1..m /\ l - n \in 1..m /\ k - n < l - n /\ book'[k] = ops[k - n] /\ book'[l] = ops[l - n]
      BY <1>6, <2>2
    <3> QED
      BY <1>1, <1>6, <3>1
  <2>3. ASSUME NEW i \in Records(file), NEW k \in DOMAIN book', file[i].seq <= snap.seq, n < k
        PROVE  file[i].op < book'[k]
    <3>1. k - n \in 1..m /\ book'[k] = ops[k - n]
      BY <1>6, <2>3
    <3>2. PICK j \in ToReplay(file, snap.seq) : book'[k] = file[j].op
      BY <1>1, <1>6, <3>1
    <3>3. j \in Records(file) /\ file[j].seq > snap.seq
      BY <3>2 DEF ToReplay
    <3>4. file \in Seq(Lines)
      BY DEF RTypeInv
    <3>5. i \in Nat /\ j \in Nat /\ file[i].seq \in Nat /\ file[j].seq \in Nat
      BY <3>3, <3>4, RecordAt
    <3>6. i < j
      <4>1. file[i].seq < file[j].seq
        BY <1>2, <2>3, <3>3, <3>5
      <4>2. ~(j < i) /\ i # j
        BY <1>7, <3>3, <3>5, <4>1
      <4> QED
        BY <3>5, <4>2
    <3> QED
      BY <3>2, <3>3, <3>6 DEF FileInv
  <2>4. Len(b) = n /\ n <= Len(book')
    BY <1>6 DEF n
  <2> QED
    BY <2>1, <2>2, <2>3, <2>4 DEF Extends
<1> QED
  BY <1>3, <1>4, <1>5, <1>7 DEF b

\* The steps of a snapshot copy the book there is.
LEMMA SnapshotBooks ==
  ASSUME RTypeInv, SnapshotSeq \/ SnapshotBook \/ SnapshotSave
  PROVE  snap'.book \in {snap.book, taking.of.book} /\ taking'.of.book \in {taking.of.book, book, << >>}
<1>1. CASE SnapshotSeq
  BY <1>1 DEF SnapshotSeq, Empty
<1>2. CASE SnapshotBook
  BY <1>2 DEF SnapshotBook, RTypeInv
<1>3. CASE SnapshotSave
  BY <1>3 DEF SnapshotSave, NotTaking, Empty
<1> QED
  BY <1>1, <1>2, <1>3

\* Apply is the only step that adds to the book, and it adds the one in hand.
LEMMA NextBook ==
  RTypeInv /\ RStateInv /\ FileInv(file, taken) /\ BookInv /\ [Next]_vars => BookInv'
<1> SUFFICES ASSUME RTypeInv, RStateInv, FileInv(file, taken), BookInv, [Next]_vars PROVE BookInv'
  OBVIOUS
<1>0. taken \in Nat /\ book \in Seq(Nat)
  BY BoundAssumption DEF RTypeInv, RecoveryTypeOK
<1>1. ASSUME NEW b, Within(b, taken) PROVE Within(b, taken + 1)
  BY <1>0, <1>1 DEF Within
<1>2. CASE AppendWrite
  <2>1. ~Has(book, taken + 1)
    BY <1>0 DEF BookInv, Within, Has
  <2>2. /\ taken' = taken + 1 /\ Ongoing' = {taken + 1}
        /\ UNCHANGED <<book, snap, taking>>
    BY <1>2 DEF AppendWrite, TakeIn, Ongoing, snapVars
  <2> QED
    BY <1>1, <2>1, <2>2 DEF BookInv
<1>3. CASE AppendFails
  <2>1. taken' = taken + 1 /\ Ongoing' = {} /\ UNCHANGED <<book, snap, taking>>
    BY <1>3 DEF AppendFails, TakeIn, Reject, Ongoing, snapVars
  <2> QED
    BY <1>1, <2>1 DEF BookInv
<1>4. CASE TriggerStops \/ AppendUnsynced \/ AppendSynced \/ SyncFails
  <2>1. Ongoing' \subseteq Ongoing /\ UNCHANGED <<book, snap, taking, taken>>
    BY <1>4 DEF TriggerStops, AppendUnsynced, AppendSynced, SyncFails, Reject, Ongoing, snapVars
  <2> QED
    BY <2>1 DEF BookInv
<1>5. CASE Apply
  <2>1. taken \in 1..taken /\ book' = Append(book, taken) /\ Ongoing' = {} /\ UNCHANGED <<snap, taking, taken>>
    BY <1>0, <1>5 DEF Apply, RStateInv, Ongoing, snapVars
  <2>2. Within(book', taken)
    <3>1. DOMAIN book' = 1..(Len(book) + 1) /\ DOMAIN book = 1..Len(book) /\ Len(book) \in Nat
          /\ \A k \in 1..Len(book) : book'[k] = book[k]
          /\ book'[Len(book) + 1] = taken
      BY <1>0, <2>1, AppendProperties
    <3>2. ASSUME NEW k \in 1..(Len(book) + 1) PROVE book'[k] \in 1..taken
      <4>1. k \in 1..Len(book) \/ k = Len(book) + 1
        BY <3>1
      <4> QED
        BY <2>1, <3>1, <4>1 DEF BookInv, Within
    <3> QED
      BY <3>1, <3>2 DEF Within
  <2> QED
    BY <2>1, <2>2 DEF BookInv
<1>6. CASE SnapshotSeq \/ SnapshotBook \/ SnapshotSave
  <2>1. Ongoing' = Ongoing /\ UNCHANGED <<book, taken>>
    BY <1>6 DEF SnapshotSeq, SnapshotBook, SnapshotSave, Ongoing
  <2>2. /\ snap'.book \in {snap.book, taking.of.book}
        /\ taking'.of.book \in {taking.of.book, book, << >>}
    BY <1>6, SnapshotBooks
  <2>3. Within(<< >>, taken)
    BY DEF Within
  <2> QED
    BY <2>1, <2>2, <2>3 DEF BookInv
<1>7. CASE Crash
  <2>1. Ongoing' = {} /\ book' = << >> /\ taking'.of.book = << >> /\ UNCHANGED <<snap, taken>>
    BY <1>7 DEF Crash, Ongoing, NotTaking, Empty
  <2> QED
    BY <2>1 DEF BookInv, Within
<1>8. CASE Recover
  <2>1. Ongoing' = {} /\ UNCHANGED <<snap, taking, taken>>
    BY <1>8 DEF Recover, RStateInv, Ongoing, snapVars
  <2>2. \A op : Has(book', op) => op \in 1..taken
    <3>1. \A op : Has(snap.book, op) => op \in 1..taken
      BY DEF BookInv, Within, Has
    <3>2. \A i \in Records(file) : file[i].op \in 1..taken
      BY DEF FileInv
    <3> QED
      BY <1>8, <3>1, <3>2, RecoveredBook
  <2>3. Within(book', taken)
    BY <2>2 DEF Within, Has
  <2> QED
    BY <2>1, <2>3 DEF BookInv
<1>9. CASE UNCHANGED vars
  BY <1>9 DEF vars, walVars, snapVars, BookInv, Ongoing
<1> QED
  BY <1>2, <1>3, <1>4, <1>5, <1>6, <1>7, <1>8, <1>9 DEF Next

\* Reject leaves no trace of the operation, unless its fsync or newline failed.
LEMMA NextRejected ==
  RTypeInv /\ RStateInv /\ FileInv(file, taken) /\ BookInv /\ RejectedInv /\ [Next]_vars => RejectedInv'
<1> SUFFICES ASSUME RTypeInv, RStateInv, FileInv(file, taken), BookInv, RejectedInv, [Next]_vars,
                    faulted' \cap {"fsync", "whole"} = {}, NEW op \in rejected'
             PROVE  /\ \A i \in Records(file') : file'[i].op # op
                    /\ ~Has(book', op) /\ ~Has(snap'.book, op) /\ ~Has(taking'.of.book, op)
  BY DEF RejectedInv
<1>0. taken \in Nat /\ book \in Seq(Nat) /\ file \in Seq(Lines) /\ rejected \subseteq 1..taken
  BY BoundAssumption DEF RTypeInv, RecoveryTypeOK
<1>1. faulted \cap {"fsync", "whole"} = {}
  BY DEF Next, vars, AppendWrite, AppendFails, AppendUnsynced, AppendSynced, SyncFails, Apply, TriggerStops,
         SnapshotSeq, SnapshotBook, SnapshotSave, Crash, Recover
<1>2. ASSUME op \in rejected
      PROVE  /\ \A i \in Records(file) : file[i].op # op
             /\ ~Has(book, op) /\ ~Has(snap.book, op) /\ ~Has(taking.of.book, op)
  BY <1>1, <1>2 DEF RejectedInv
<1>3. CASE AppendWrite
  <2>1. op \in rejected /\ op # taken + 1 /\ UNCHANGED <<book, snap, taking>>
    BY <1>0, <1>3 DEF AppendWrite, snapVars
  <2>2. \A i \in Records(file') : file'[i].op # op
    BY <1>2, <1>3, <2>1, WrittenRecords
  <2> QED
    BY <1>2, <2>1, <2>2
<1>4. CASE AppendFails
  <2>1. op \in rejected \/ op = taken + 1
    BY <1>4 DEF AppendFails, Reject, TakeIn
  <2>2. /\ \A i \in Records(file) : file[i].op # op
        /\ ~Has(book, op) /\ ~Has(snap.book, op) /\ ~Has(taking.of.book, op)
    BY <1>0, <1>2, <2>1 DEF FileInv, BookInv, Within, Has
  <2>3. \A i \in Records(file') : file'[i].op # op
    BY <1>4, <2>2, FailedRecords
  <2>4. UNCHANGED <<book, snap, taking>>
    BY <1>4 DEF AppendFails, Reject, snapVars
  <2> QED
    BY <2>2, <2>3, <2>4
<1>5. CASE TriggerStops \/ AppendUnsynced \/ AppendSynced \/ SyncFails
  <2>1. op \in rejected /\ UNCHANGED <<file, book, snap, taking>>
    BY <1>5 DEF TriggerStops, AppendUnsynced, AppendSynced, SyncFails, walVars, snapVars
  <2> QED
    BY <1>2, <2>1
<1>6. CASE Apply
  <2>1. /\ op \in rejected /\ op # taken /\ book' = Append(book, taken)
        /\ UNCHANGED <<file, snap, taking>>
    BY <1>6 DEF Apply, RStateInv, walVars, snapVars
  <2>2. ~Has(book', op)
    BY <1>0, <1>2, <2>1, HasAppend
  <2> QED
    BY <1>2, <2>1, <2>2
<1>7. CASE SnapshotSeq \/ SnapshotBook \/ SnapshotSave
  <2>1. op \in rejected /\ UNCHANGED <<file, book>>
    BY <1>7 DEF SnapshotSeq, SnapshotBook, SnapshotSave, walVars
  <2>2. /\ snap'.book \in {snap.book, taking.of.book}
        /\ taking'.of.book \in {taking.of.book, book, << >>}
    BY <1>7, SnapshotBooks
  <2>3. ~Has(<< >>, op)
    BY DEF Has
  <2> QED
    BY <1>2, <2>1, <2>2, <2>3
<1>8. CASE Crash
  <2>1. op \in rejected /\ book' = << >> /\ taking'.of.book = << >> /\ UNCHANGED snap
    BY <1>8 DEF Crash, NotTaking, Empty
  <2>2. \A i \in Records(file') : file'[i].op # op
    BY <1>2, <1>8, <2>1, CrashRecords
  <2> QED
    BY <1>2, <2>1, <2>2 DEF Has
<1>9. CASE Recover
  <2>1. op \in rejected /\ UNCHANGED <<file, snap, taking>>
    BY <1>9 DEF Recover, snapVars
  <2>2. ~Has(book', op)
    BY <1>2, <1>9, <2>1, RecoveredBook
  <2> QED
    BY <1>2, <2>1, <2>2
<1>10. CASE UNCHANGED vars
  BY <1>2, <1>10 DEF vars, walVars, snapVars
<1> QED
  BY <1>3, <1>4, <1>5, <1>6, <1>7, <1>8, <1>9, <1>10 DEF Next

\* A regime that has ended does not come back.
LEMMA Regimes ==
  ASSUME RTypeInv, RStateInv, [Next]_vars
  PROVE  /\ (Intact' => Intact) /\ (Numbered' => Numbered) /\ (Fresh' => Fresh)
         /\ syncEvery' = syncEvery /\ crashes' \in {crashes, crashes + 1}
<1>0. crashes \in Nat /\ up \in BOOLEAN
  BY DEF RTypeInv
<1>1. faulted \subseteq faulted' /\ syncEvery' = syncEvery
  BY DEF Next, vars, AppendWrite, AppendFails, AppendUnsynced, AppendSynced, SyncFails, Apply, TriggerStops,
         SnapshotSeq, SnapshotBook, SnapshotSave, Crash, Recover
<1>2. Intact' => Intact
  BY <1>1 DEF Intact
<1>3. CASE Crash
  <2>1. crashes' = crashes + 1
    BY <1>3 DEF Crash
  <2>2. Numbered' => Numbered
    BY <1>0, <1>2, <2>1 DEF Numbered
  <2>3. Fresh' => Fresh
    BY <1>0, <1>2, <2>1 DEF Fresh
  <2> QED
    BY <1>1, <1>2, <2>1, <2>2, <2>3
<1>4. CASE Recover
  <2>1. crashes' = crashes /\ up' /\ crashes >= 1
    BY <1>4 DEF Recover, RStateInv
  <2> QED
    BY <1>0, <1>1, <1>2, <2>1 DEF Numbered, Fresh
<1>5. CASE ~Crash /\ ~Recover
  <2>1. crashes' = crashes /\ up' = up
    BY <1>5 DEF Next, vars, AppendWrite, AppendFails, AppendUnsynced, AppendSynced, SyncFails, Reject, Apply,
       TriggerStops, SnapshotSeq, SnapshotBook, SnapshotSave
  <2> QED
    BY <1>1, <1>2, <2>1 DEF Numbered, Fresh
<1> QED
  BY <1>3, <1>4, <1>5

\* In a log that is plain, record i is preceded by i - 1 others.
LEMMA PlainCount ==
  ASSUME NEW f \in Seq(Lines), PlainLog(f)
  PROVE  /\ \A i \in Records(f) : f[i].seq <= Cardinality(Records(f))
         /\ AllRecords(f) => Cardinality(Records(f)) = Len(f)
<1>1. /\ Cardinality(Records(f)) \in Nat /\ Records(f) \subseteq 1..Len(f) /\ IsFiniteSet(Records(f))
      /\ Len(f) \in Nat /\ DOMAIN f = 1..Len(f)
  BY RecordCount
<1>2. \A i \in DOMAIN f : f[i].kind = "record" => i \in Records(f)
  BY DEF Records, Parses
<1>3. ASSUME NEW i \in Records(f)
      PROVE  f[i].seq <= Cardinality(Records(f))
  <2>1. i \in 1..Len(f) /\ f[i].seq = i /\ i \in Nat
    BY <1>1 DEF PlainLog
  <2>2. 1..i \subseteq Records(f)
    <3> SUFFICES ASSUME NEW j \in 1..i PROVE j \in Records(f)
      OBVIOUS
    <3>1. j = i \/ (j \in 1..Len(f) /\ j < Len(f))
      BY <1>1, <2>1
    <3> QED
      BY <1>1, <1>2, <3>1 DEF PlainLog
  <2>3. Cardinality(1..i) = i /\ IsFiniteSet(1..i)
    BY <2>1, FS_Interval
  <2> QED
    BY <1>1, <2>1, <2>2, <2>3, FS_Subset
<1>4. ASSUME AllRecords(f) PROVE Cardinality(Records(f)) = Len(f)
  <2>1. Records(f) = 1..Len(f)
    BY <1>1, <1>2, <1>4 DEF AllRecords
  <2>2. Cardinality(1..Len(f)) = Len(f)
    <3> DEFINE n == Len(f)
    <3>1. n \in Nat
      BY <1>1
    <3> HIDE DEF n
    <3>2. Cardinality(1..n) = n
      BY <3>1, FS_Interval
    <3> QED
      BY <3>2 DEF n
  <2> QED
    BY <2>1, <2>2
<1> QED
  BY <1>3, <1>4

\* Records are numbered in order, and new ones come after them.
LEMMA NextNumbers ==
  RTypeInv /\ RStateInv /\ NumberInv /\ [Next]_vars => NumberInv'
<1> SUFFICES ASSUME RTypeInv, RStateInv, NumberInv, [Next]_vars PROVE NumberInv'
  OBVIOUS
<1> DEFINE Grow(f) == \A i, j \in Records(f) : i < j => f[i].seq < f[j].seq
           UpTo(f, n) == \A i \in Records(f) : f[i].seq <= n
<1> SUFFICES /\ Fresh' => PlainLog(file')
             /\ Intact' => AllRecords(file')
             /\ Fresh' /\ up' /\ ~broken' => AllRecords(file') /\ seq' = Len(file')
             /\ Numbered' => Grow(file')
             /\ Numbered' /\ up' => UpTo(file', seq')
  BY DEF NumberInv
<1>0. /\ file \in Seq(Lines) /\ seq \in Nat /\ taken \in Nat /\ Len(file) \in Nat /\ DOMAIN file = 1..Len(file)
      /\ crashes \in Nat
  BY BoundAssumption DEF RTypeInv, RecoveryTypeOK
<1>1. /\ (Intact' => Intact) /\ (Numbered' => Numbered) /\ (Fresh' => Fresh) /\ (Intact => Fresh)
  BY Regimes DEF Fresh
<1>2. /\ Fresh => PlainLog(file)
      /\ Intact => AllRecords(file)
      /\ Fresh /\ up /\ ~broken => AllRecords(file) /\ seq = Len(file)
      /\ Numbered => Grow(file)
      /\ Numbered /\ up => UpTo(file, seq)
  BY DEF NumberInv
<1>3. CASE AppendWrite
  <2>1. up /\ up' /\ ~broken /\ seq' = seq + 1
    BY <1>3 DEF AppendWrite, TakeIn
  <2>2. \A i \in Records(file') :
          \/ i \in Records(file) /\ file'[i].seq = file[i].seq
          \/ i = Len(file) + 1 /\ file'[i].seq = seq + 1
    BY <1>3, WrittenRecords
  <2>3. \A i \in Records(file) : i \in 1..Len(file) /\ file[i].seq \in Nat
    BY <1>0, RecordAt
  <2>4. ASSUME Fresh PROVE PlainLog(file') /\ AllRecords(file') /\ seq' = Len(file')
    <3>1. AllRecords(file) /\ seq = Len(file)
      BY <1>2, <2>1, <2>4
    <3> DEFINE x == Line("record", seq + 1, taken + 1)
    <3>2. file' = Append(file, x)
      BY <1>3, <3>1, WrittenRecords
    <3>3. x \in Lines /\ x.kind = "record"
      BY NewLines
    <3> HIDE DEF x
    <3>4. /\ Len(file') = Len(file) + 1 /\ DOMAIN file' = 1..(Len(file) + 1)
          /\ \A i \in 1..Len(file) : file'[i] = file[i]
          /\ file'[Len(file) + 1] = x
      BY <1>0, <3>2, <3>3, AppendProperties
    <3>5. AllRecords(file')
      <4> SUFFICES ASSUME NEW i \in 1..(Len(file) + 1) PROVE file'[i].kind = "record"
        BY <3>4 DEF AllRecords
      <4>1. i \in 1..Len(file) \/ i = Len(file) + 1
        BY <1>0
      <4> QED
        BY <1>0, <3>1, <3>3, <3>4, <4>1 DEF AllRecords
    <3>6. \A i \in Records(file') : file'[i].seq = i
      <4>1. \A i \in Records(file) : file[i].seq = i
        BY <1>2, <2>4 DEF PlainLog
      <4> QED
        BY <2>2, <3>1, <4>1
    <3> QED
      BY <1>0, <2>1, <3>1, <3>4, <3>5, <3>6 DEF PlainLog, AllRecords
  <2>5. ASSUME Numbered PROVE Grow(file') /\ UpTo(file', seq')
    <3>1. Grow(file) /\ UpTo(file, seq)
      BY <1>2, <2>1, <2>5
    <3>2. ASSUME NEW i \in Records(file'), NEW j \in Records(file'), i < j
          PROVE  file'[i].seq < file'[j].seq
      <4>1. i \in Records(file) /\ file'[i].seq = file[i].seq /\ file[i].seq <= seq
        BY <1>0, <2>2, <2>3, <3>1, <3>2
      <4>2. CASE j \in Records(file) /\ file'[j].seq = file[j].seq
        BY <3>1, <3>2, <4>1, <4>2
      <4>3. CASE file'[j].seq = seq + 1
        BY <1>0, <2>3, <4>1, <4>3
      <4> QED
        BY <2>2, <4>2, <4>3
    <3>3. UpTo(file', seq')
      BY <1>0, <2>1, <2>2, <2>3, <3>1
    <3> QED
      BY <3>2, <3>3
  <2> QED
    BY <1>1, <2>4, <2>5
<1>4. CASE AppendFails
  <2>1. up /\ broken' /\ seq' = seq + 1
    BY <1>4 DEF AppendFails, TakeIn
  <2>2. \A i \in Records(file') :
          \/ i \in Records(file) /\ file'[i].seq = file[i].seq
          \/ i = Len(file) + 1 /\ file'[i].seq = seq + 1
    BY <1>4, FailedRecords
  <2>3. \A i \in Records(file) : i \in 1..Len(file) /\ file[i].seq \in Nat
    BY <1>0, RecordAt
  <2>4. ASSUME Fresh PROVE PlainLog(file')
    <3>1. PlainLog(file)
      BY <1>2, <2>4
    <3>2. file' = file \/ (AllRecords(file) /\ seq = Len(file) /\ \E l \in Lines : file' = Append(file, l))
      BY <1>2, <1>4, <2>1, <2>4, FailedRecords
    <3>3. ASSUME AllRecords(file), seq = Len(file), NEW l \in Lines, file' = Append(file, l)
          PROVE  PlainLog(file')
      <4>1. /\ Len(file') = Len(file) + 1 /\ DOMAIN file' = 1..(Len(file) + 1)
            /\ \A i \in 1..Len(file) : file'[i] = file[i]
        BY <1>0, <3>3, AppendProperties
      <4>2. \A i \in DOMAIN file' : i < Len(file') => file'[i].kind = "record"
        <5> SUFFICES ASSUME NEW i \in 1..(Len(file) + 1), i < Len(file) + 1 PROVE file'[i].kind = "record"
          BY <4>1
        <5>1. i \in 1..Len(file)
          BY <1>0
        <5> QED
          BY <1>0, <3>3, <4>1, <5>1 DEF AllRecords
      <4>3. \A i \in Records(file') : file'[i].seq = i
        BY <2>2, <3>1, <3>3 DEF PlainLog
      <4> QED
        BY <4>2, <4>3 DEF PlainLog
    <3> QED
      BY <3>1, <3>2, <3>3
  <2>5. Intact' => file' = file
    BY <1>4, FailedRecords DEF Intact
  <2>6. ASSUME Numbered PROVE Grow(file') /\ UpTo(file', seq')
    <3>1. Grow(file) /\ UpTo(file, seq)
      BY <1>2, <2>1, <2>6
    <3>2. ASSUME NEW i \in Records(file'), NEW j \in Records(file'), i < j
          PROVE  file'[i].seq < file'[j].seq
      <4>1. i \in Records(file) /\ file'[i].seq = file[i].seq /\ file[i].seq <= seq
        BY <1>0, <2>2, <2>3, <3>1, <3>2
      <4>2. CASE j \in Records(file) /\ file'[j].seq = file[j].seq
        BY <3>1, <3>2, <4>1, <4>2
      <4>3. CASE file'[j].seq = seq + 1
        BY <1>0, <2>3, <4>1, <4>3
      <4> QED
        BY <2>2, <4>2, <4>3
    <3>3. UpTo(file', seq')
      BY <1>0, <2>1, <2>2, <2>3, <3>1
    <3> QED
      BY <3>2, <3>3
  <2> QED
    BY <1>1, <1>2, <2>1, <2>4, <2>5, <2>6
<1>5. CASE Crash
  <2>1. /\ file' \in Seq(Lines) /\ Len(file') \in synced..Len(file)
        /\ \A i \in DOMAIN file' : i < Len(file') => file'[i] = file[i]
        /\ \A i \in Records(file') : i \in Records(file) /\ file'[i].seq = file[i].seq
    BY <1>5, CrashRecords
  <2>2. ~up' /\ (Intact' => file' = file)
    BY <1>5 DEF Crash, Intact
  <2>3. ASSUME Fresh PROVE PlainLog(file')
    <3>1. PlainLog(file)
      BY <1>2, <2>3
    <3>2. ASSUME NEW i \in DOMAIN file', i < Len(file') PROVE file'[i].kind = "record"
      <4>1. DOMAIN file' = 1..Len(file') /\ Len(file') <= Len(file) /\ Len(file') \in Nat
        BY <1>0, <2>1
      <4>2. i \in DOMAIN file /\ i < Len(file)
        BY <1>0, <3>2, <4>1
      <4> QED
        BY <2>1, <3>1, <3>2, <4>2 DEF PlainLog
    <3> QED
      BY <2>1, <3>1, <3>2 DEF PlainLog
  <2>4. Numbered => Grow(file')
    BY <1>2, <2>1
  <2> QED
    BY <1>1, <1>2, <2>2, <2>3, <2>4
<1>6. CASE Recover
  <2>1. ~up /\ ~broken' /\ file' = file /\ seq' = Cardinality(Records(file)) /\ crashes' = crashes /\ crashes >= 1
    BY <1>6 DEF Recover, RStateInv
  <2>2. up' /\ (Fresh' => Intact) /\ (Numbered' => Fresh)
    BY <1>0, <1>1, <1>6, <2>1 DEF Recover, Fresh, Numbered, Intact
  <2>3. Intact => AllRecords(file) /\ Cardinality(Records(file)) = Len(file)
    BY <1>0, <1>1, <1>2, PlainCount
  <2>4. Fresh => UpTo(file, Cardinality(Records(file)))
    BY <1>0, <1>2, PlainCount
  <2> QED
    BY <1>1, <1>2, <2>1, <2>2, <2>3, <2>4
<1>7. CASE ~Writes /\ ~Recover
  <2>1. UNCHANGED <<file, seq, broken, up>>
    BY <1>7 DEF Next, vars, Writes, AppendUnsynced, AppendSynced, SyncFails, Apply, TriggerStops, SnapshotSeq,
         SnapshotBook, SnapshotSave, Reject, walVars
  <2> QED
    BY <1>1, <1>2, <2>1
<1> QED
  BY <1>3, <1>4, <1>5, <1>6, <1>7 DEF Writes

\* A record that is kept stays kept while the engine runs, and when what was
\* synced survives.
LEMMA KeptGrows ==
  ASSUME RTypeInv, AppendWrite \/ AppendFails, NEW n, NEW op, Kept(file, n, op)
  PROVE  Kept(file', n, op)
<1>1. PICK i \in DOMAIN file : i <= n /\ file[i].kind = "record" /\ file[i].op = op
  BY DEF Kept
<1>2. i \in DOMAIN file' /\ file'[i] = file[i]
  BY <1>1, WrittenRecords, FailedRecords
<1> QED
  BY <1>1, <1>2 DEF Kept

\* What is kept among the first n lines is kept.
LEMMA KeptSomewhere ==
  ASSUME NEW f \in Seq(Lines), NEW n, NEW op, Kept(f, n, op)
  PROVE  Kept(f, Len(f), op)
<1>1. PICK i \in DOMAIN f : f[i].kind = "record" /\ f[i].op = op
  BY DEF Kept
<1>2. i <= Len(f)
  OBVIOUS
<1> QED
  BY <1>1, <1>2 DEF Kept

\* A crash leaves the lines that were synced (Survivors).
LEMMA KeptSurvives ==
  ASSUME RTypeInv, Crash, NEW op, Kept(file, synced, op)
  PROVE  Kept(file', Len(file'), op)
<1>1. PICK i \in DOMAIN file : i <= synced /\ file[i].kind = "record" /\ file[i].op = op
  BY DEF Kept
<1>2. /\ file' \in Seq(Lines) /\ Len(file') \in synced..Len(file)
      /\ \A j \in DOMAIN file' : j <= synced => file'[j] = file[j]
  BY CrashRecords
<1>3. file \in Seq(Lines) /\ synced \in Nat
  BY DEF RTypeInv, RecoveryTypeOK
<1>4. i \in Nat /\ i >= 1 /\ Len(file') \in Nat /\ i <= Len(file')
  BY <1>1, <1>2, <1>3
<1>5. i \in DOMAIN file'
  BY <1>2, <1>4
<1> QED
  BY <1>1, <1>2, <1>4, <1>5 DEF Kept

\* Where all lines are records, the operation in hand gets one too.
LEMMA KeptInHand ==
  ASSUME RTypeInv, AppendWrite, AllRecords(file)
  PROVE  Kept(file', Len(file'), taken')
<1> DEFINE x == Line("record", seq + 1, taken + 1)
<1>1. file \in Seq(Lines) /\ file' = Append(file, x) /\ taken' = taken + 1
  BY WrittenRecords DEF RTypeInv, AppendWrite, TakeIn
<1>2. x \in Lines /\ x.kind = "record" /\ x.op = taken + 1
  BY NewLines
<1> HIDE DEF x
<1>3. Len(file) \in Nat /\ Len(file') = Len(file) + 1 /\ DOMAIN file' = 1..(Len(file) + 1) /\ file'[Len(file) + 1] = x
  BY <1>1, <1>2, AppendProperties
<1>4. Len(file') \in DOMAIN file' /\ Len(file') <= Len(file') /\ file'[Len(file')] = x
  BY <1>3
<1> QED
  BY <1>1, <1>2, <1>4 DEF Kept

\* Answered operations are where KeptInv says.
LEMMA NextKept ==
  RTypeInv /\ RStateInv /\ NumberInv /\ KeptInv /\ [Next]_vars => KeptInv'
<1> SUFFICES ASSUME RTypeInv, RStateInv, NumberInv, KeptInv, [Next]_vars PROVE KeptInv'
  OBVIOUS
<1> SUFFICES /\ Intact' => \A op \in applied' \cup Ongoing' : Kept(file', Len(file'), op)
             /\ syncEvery' = 1 /\ crashes' = 0 =>
                  /\ \A op \in applied' : Kept(file', synced', op)
                  /\ step' = "written" => Kept(file', Len(file'), taken')
                  /\ step' = "journaled" => Kept(file', synced', taken')
             /\ syncEvery' = 1 /\ crashes' = 1 =>
                  \A op \in applied' : Kept(file', Len(file'), op) \/ (up' /\ Has(book', op))
  BY DEF KeptInv
<1>0. file \in Seq(Lines) /\ book \in Seq(Nat) /\ taken \in Nat /\ crashes \in Nat
  BY BoundAssumption DEF RTypeInv, RecoveryTypeOK
<1>1. (Intact' => Intact) /\ syncEvery' = syncEvery
  BY Regimes
<1>2. /\ Intact => \A op \in applied \cup Ongoing : Kept(file, Len(file), op)
      /\ syncEvery = 1 /\ crashes = 0 =>
           /\ \A op \in applied : Kept(file, synced, op)
           /\ step = "written" => Kept(file, Len(file), taken)
           /\ step = "journaled" => Kept(file, synced, taken)
      /\ syncEvery = 1 /\ crashes = 1 =>
           \A op \in applied : Kept(file, Len(file), op) \/ (up /\ Has(book, op))
  BY DEF KeptInv
<1>3. CASE AppendWrite
  <2>1. /\ Ongoing' = {taken'} /\ step' = "written" /\ up /\ ~broken
        /\ UNCHANGED <<applied, synced, book, up, crashes>>
    BY <1>3 DEF AppendWrite, TakeIn, Ongoing
  <2>2. file' \in Seq(Lines)
    BY <1>3, WrittenRecords
  <2>3. \A op, n : Kept(file, n, op) => Kept(file', n, op) /\ Kept(file', Len(file'), op)
    BY <1>3, <2>2, KeptGrows, KeptSomewhere
  <2>4. Intact \/ crashes = 0 => Kept(file', Len(file'), taken')
    BY <1>3, <2>1, KeptInHand DEF NumberInv, Fresh
  <2> QED
    BY <1>1, <1>2, <2>1, <2>3, <2>4
<1>4. CASE AppendFails
  <2>1. /\ Ongoing' = {} /\ step' = "none"
        /\ UNCHANGED <<applied, synced, book, up, crashes>>
    BY <1>4 DEF AppendFails, Reject, Ongoing
  <2>2. file' \in Seq(Lines)
    BY <1>4, FailedRecords
  <2>3. \A op, n : Kept(file, n, op) => Kept(file', n, op) /\ Kept(file', Len(file'), op)
    BY <1>4, <2>2, KeptGrows, KeptSomewhere
  <2> QED
    BY <1>1, <1>2, <2>1, <2>3
<1>5. CASE AppendUnsynced
  <2>1. /\ Ongoing' = Ongoing /\ step' = "journaled" /\ pending < syncEvery /\ pending >= 1
        /\ UNCHANGED <<applied, synced, file, taken, book, up, crashes>>
    BY <1>5 DEF AppendUnsynced, RStateInv, Ongoing, walVars
  <2>2. syncEvery # 1
    BY <2>1 DEF RTypeInv, RecoveryTypeOK
  <2> QED
    BY <1>1, <1>2, <2>1, <2>2
<1>6. CASE AppendSynced
  <2>1. /\ Ongoing' = Ongoing /\ step = "written" /\ step' = "journaled" /\ synced' = Len(file)
        /\ UNCHANGED <<applied, file, taken, book, up, crashes>>
    BY <1>6 DEF AppendSynced, Ongoing
  <2>2. \A op, n : Kept(file, n, op) => Kept(file, Len(file), op)
    BY <1>0, KeptSomewhere
  <2> QED
    BY <1>1, <1>2, <2>1, <2>2
<1>7. CASE SyncFails
  <2>1. /\ Ongoing' = {} /\ step' = "none"
        /\ UNCHANGED <<applied, synced, file, taken, book, up, crashes>>
    BY <1>7 DEF SyncFails, Reject, Ongoing
  <2> QED
    BY <1>1, <1>2, <2>1
<1>8. CASE Apply
  <2>1. /\ Ongoing' = {} /\ Ongoing = {taken} /\ step = "journaled" /\ step' = "none" /\ up
        /\ applied' = applied \cup {taken} /\ book' = Append(book, taken)
        /\ UNCHANGED <<synced, file, taken, up, crashes>>
    BY <1>8 DEF Apply, RStateInv, Ongoing, walVars
  <2>2. \A op : Has(book, op) \/ op = taken => Has(book', op)
    BY <1>0, <2>1, HasAppend
  <2> QED
    BY <1>1, <1>2, <2>1, <2>2
<1>9. CASE TriggerStops \/ SnapshotSeq \/ SnapshotBook \/ SnapshotSave \/ UNCHANGED vars
  <2>1. UNCHANGED <<Ongoing, applied, synced, file, taken, step, book, up, crashes>>
    BY <1>9 DEF TriggerStops, SnapshotSeq, SnapshotBook, SnapshotSave, vars, walVars, Ongoing
  <2> QED
    BY <1>1, <1>2, <2>1
<1>10. CASE Crash
  <2>1. /\ Ongoing' = {} /\ crashes' = crashes + 1 /\ applied' = applied
        /\ Intact' => file' = file
    BY <1>10 DEF Crash, Ongoing, Intact
  <2>2. \A op : Kept(file, synced, op) => Kept(file', Len(file'), op)
    BY <1>10, KeptSurvives
  <2>3. crashes' # 0 /\ (crashes' = 1 => crashes = 0)
    BY <1>0, <2>1
  <2> QED
    BY <1>1, <1>2, <2>1, <2>2, <2>3
<1>11. CASE Recover
  <2>1. /\ Ongoing' = {} /\ ~up /\ crashes >= 1
        /\ UNCHANGED <<applied, file, crashes>>
    BY <1>11 DEF Recover, RStateInv, Ongoing
  <2>2. crashes' # 0
    BY <1>0, <2>1
  <2> QED
    BY <1>1, <1>2, <2>1, <2>2
<1> QED
  BY <1>3, <1>4, <1>5, <1>6, <1>7, <1>8, <1>9, <1>10, <1>11 DEF Next

\* The book grows by the operation in hand, which is later than all in it.
LEMMA AppliedExtends ==
  ASSUME NEW f, NEW bk \in Seq(Nat), NEW n, NEW b \in Seq(Nat), Extends(f, bk, n, b),
         NEW x \in Nat, Within(bk, x), ~Has(bk, x)
  PROVE  Extends(f, Append(bk, x), n, b)
<1>1. /\ DOMAIN bk = 1..Len(bk) /\ DOMAIN b = 1..Len(b) /\ Len(bk) \in Nat /\ Len(b) \in Nat
      /\ DOMAIN Append(bk, x) = 1..(Len(bk) + 1) /\ Len(Append(bk, x)) = Len(bk) + 1
      /\ \A k \in 1..Len(bk) : Append(bk, x)[k] = bk[k]
      /\ Append(bk, x)[Len(bk) + 1] = x
  BY AppendProperties
<1>2. \A k \in 1..Len(bk) : bk[k] \in Nat /\ bk[k] < x
  <2> SUFFICES ASSUME NEW k \in 1..Len(bk) PROVE bk[k] \in Nat /\ bk[k] < x
    OBVIOUS
  <2>1. bk[k] \in 1..x /\ bk[k] # x
    BY <1>1 DEF Within, Has
  <2> QED
    BY <2>1
<1>3. Len(b) <= Len(bk) /\ \A k \in 1..Len(b) : k \in 1..Len(bk) /\ bk[k] = b[k]
  BY <1>1 DEF Extends
<1>4. \A op : Has(b, op) => \E k \in 1..Len(bk) : bk[k] = op
  BY <1>1, <1>3 DEF Has
<1>5. ASSUME NEW k \in 1..(Len(bk) + 1), NEW l \in 1..(Len(bk) + 1), Len(b) < k, k < l
      PROVE  Append(bk, x)[k] < Append(bk, x)[l]
  <2>1. k \in 1..Len(bk) /\ (l \in 1..Len(bk) \/ l = Len(bk) + 1)
    <3>1. Len(bk) \in Nat
      OBVIOUS
    <3> QED
      BY <1>5, <3>1
  <2>2. CASE l \in 1..Len(bk)
    BY <1>1, <1>5, <2>1, <2>2 DEF Extends
  <2>3. CASE l = Len(bk) + 1
    BY <1>1, <1>2, <2>1, <2>3
  <2> QED
    BY <2>1, <2>2, <2>3
<1>6. ASSUME NEW i \in Records(f), NEW k \in 1..(Len(bk) + 1), f[i].seq <= n, Len(b) < k, Has(b, f[i].op)
      PROVE  f[i].op < Append(bk, x)[k]
  <2>1. k \in 1..Len(bk) \/ k = Len(bk) + 1
    BY <1>1
  <2>2. CASE k \in 1..Len(bk)
    BY <1>1, <1>6, <2>2 DEF Extends
  <2>3. CASE k = Len(bk) + 1
    BY <1>1, <1>2, <1>4, <1>6, <2>3
  <2> QED
    BY <2>1, <2>2, <2>3
<1>7. Len(b) <= Len(bk) + 1 /\ \A k \in 1..Len(b) : Append(bk, x)[k] = b[k]
  BY <1>1, <1>3
<1> QED
  BY <1>1, <1>5, <1>6, <1>7 DEF Extends

\* A new record says nothing about the books there are.
LEMMA WrittenExtends ==
  ASSUME RTypeInv, AppendWrite \/ AppendFails, NEW n, NEW b, Within(b, taken), Extends(file, book, n, b)
  PROVE  Extends(file', book, n, b)
<1>1. \A i \in Records(file') : \/ i \in Records(file) /\ file'[i] = file[i]
                                \/ file'[i].op = taken + 1
  BY WrittenRecords, FailedRecords
<1>2. ~Has(b, taken + 1)
  <2>1. taken \in Nat
    BY BoundAssumption DEF RTypeInv, RecoveryTypeOK
  <2> QED
    BY <2>1 DEF Within, Has
<1> QED
  BY <1>1, <1>2 DEF Extends

\* Nor is it an answer that replaying owes.
LEMMA WrittenReplayed ==
  ASSUME RTypeInv, AppendWrite \/ AppendFails, NEW n, Replayed(file, book, applied, n)
  PROVE  Replayed(file', book, applied, n)
<1>1. \A i \in Records(file') : \/ i \in Records(file) /\ file'[i] = file[i]
                                \/ file'[i].op = taken + 1
  BY WrittenRecords, FailedRecords
<1>2. taken + 1 \notin applied
  BY BoundAssumption DEF RTypeInv, RecoveryTypeOK
<1> QED
  BY <1>1, <1>2 DEF Replayed

\* The snapshots, on disk and under way, go with the book and the log.
LEMMA NextSnapshots ==
  ASSUME RTypeInv, RStateInv, FileInv(file, taken), BookInv, NumberInv, SnapInv, [Next]_vars
  PROVE  SnapInv'
<1> SUFFICES ASSUME Numbered', up'
             PROVE  /\ Replayed(file', book', applied', snap'.seq)
                    /\ Extends(file', book', snap'.seq, snap'.book)
                    /\ taking'.at # "none" => Replayed(file', book', applied', taking'.of.seq)
                    /\ taking'.at = "bookRead" => Extends(file', book', taking'.of.seq, taking'.of.book)
  BY DEF SnapInv
<1>0. /\ file \in Seq(Lines) /\ book \in Seq(Nat) /\ taken \in Nat /\ snap.book \in Seq(Nat)
      /\ taking.of.book \in Seq(Nat)
  BY BoundAssumption DEF RTypeInv, RecoveryTypeOK
<1>1. Numbered
  BY Regimes
<1>2. up => /\ Replayed(file, book, applied, snap.seq)
            /\ Extends(file, book, snap.seq, snap.book)
            /\ taking.at # "none" => Replayed(file, book, applied, taking.of.seq)
            /\ taking.at = "bookRead" => Extends(file, book, taking.of.seq, taking.of.book)
  BY <1>1 DEF SnapInv
<1>3. CASE AppendWrite \/ AppendFails
  <2>1. up /\ UNCHANGED <<book, applied, snap, taking>>
    BY <1>3 DEF AppendWrite, AppendFails, TakeIn, Reject, snapVars
  <2>2. Within(snap.book, taken) /\ Within(taking.of.book, taken)
    BY DEF BookInv
  <2> QED
    BY <1>2, <1>3, <2>1, <2>2, WrittenExtends, WrittenReplayed
<1>4. CASE TriggerStops \/ AppendUnsynced \/ AppendSynced \/ SyncFails \/ UNCHANGED vars
  <2>1. UNCHANGED <<up, file, book, applied, snap, taking>>
    BY <1>4 DEF TriggerStops, AppendUnsynced, AppendSynced, SyncFails, Reject, vars, walVars, snapVars
  <2> QED
    BY <1>2, <2>1
<1>5. CASE Apply
  <2>1. /\ up /\ book' = Append(book, taken) /\ applied' = applied \cup {taken} /\ Ongoing = {taken}
        /\ UNCHANGED <<file, snap, taking>>
    BY <1>5 DEF Apply, RStateInv, Ongoing, walVars, snapVars
  <2>2. Within(book, taken) /\ ~Has(book, taken)
    BY <2>1 DEF BookInv
  <2>3. ASSUME NEW n, Replayed(file, book, applied, n) PROVE Replayed(file', book', applied', n)
    <3>1. \A op : Has(book, op) \/ op = taken => Has(book', op)
      BY <1>0, <2>1, HasAppend
    <3> QED
      BY <2>1, <2>3, <3>1 DEF Replayed
  <2>4. ASSUME NEW n, NEW b \in Seq(Nat), Extends(file, book, n, b) PROVE Extends(file', book', n, b)
    BY <1>0, <2>1, <2>2, <2>4, AppliedExtends
  <2> QED
    BY <1>0, <1>2, <2>1, <2>3, <2>4
<1>6. CASE SnapshotSeq
  <2>1. /\ up /\ taking'.at = "seqRead" /\ taking'.of.seq = seq /\ snap' = snap
        /\ UNCHANGED <<file, book, applied>>
    BY <1>6 DEF SnapshotSeq, walVars, Empty
  <2>2. Replayed(file, book, applied, seq)
    <3>1. \A i \in Records(file) : file[i].seq <= seq
      BY <1>1, <2>1 DEF NumberInv
    <3>2. seq \in Nat /\ \A i \in Records(file) : file[i].seq \in Nat
      BY <1>0, RecordAt DEF RTypeInv, RecoveryTypeOK
    <3>3. \A i \in Records(file) : ~(file[i].seq > seq)
      BY <3>1, <3>2
    <3> QED
      BY <3>3 DEF Replayed
  <2> QED
    BY <1>2, <2>1, <2>2
<1>7. CASE SnapshotBook
  <2>1. /\ taking.at = "seqRead" /\ taking'.at = "bookRead" /\ taking'.of.seq = taking.of.seq /\ taking'.of.book = book
        /\ UNCHANGED <<up, file, book, applied, snap>>
    BY <1>7 DEF SnapshotBook, walVars, RTypeInv
  <2>2. Extends(file, book, taking.of.seq, book)
    <3>1. DOMAIN book = 1..Len(book) /\ Len(book) \in Nat
      BY <1>0
    <3> QED
      BY <3>1 DEF Extends
  <2> QED
    BY <1>2, <2>1, <2>2
<1>8. CASE SnapshotSave
  <2>1. /\ taking.at = "bookRead" /\ taking'.at = "none" /\ snap'.seq = taking.of.seq /\ snap'.book = taking.of.book
        /\ UNCHANGED <<up, file, book, applied>>
    BY <1>8 DEF SnapshotSave, walVars, NotTaking
  <2> QED
    BY <1>2, <2>1
<1>9. CASE Crash
  BY <1>9 DEF Crash
<1>10. CASE Recover
  <2>1. ~up /\ taking'.at = "none" /\ UNCHANGED <<file, applied, snap>>
    BY <1>10 DEF Recover, RStateInv, snapVars
  <2>2. \A i, j \in Records(file) : i < j => file[i].seq < file[j].seq
    BY <1>1 DEF NumberInv
  <2>3. Extends(file, book', snap.seq, snap.book)
    BY <1>10, <2>2, RecoveredBook
  <2>4. Replayed(file, book', applied, snap.seq)
    BY <1>10, RecoveredBook DEF Replayed
  <2> QED
    BY <2>1, <2>3, <2>4
<1> QED
  BY <1>3, <1>4, <1>5, <1>6, <1>7, <1>8, <1>9, <1>10 DEF Next

\* All of it together.
LEMMA NextRecovery == RInv /\ [Next]_vars => RInv'
<1> SUFFICES ASSUME RInv, [Next]_vars PROVE RInv'
  OBVIOUS
<1>1. RTypeInv /\ RStateInv /\ FileInv(file, taken) /\ BookInv /\ RejectedInv /\ NumberInv /\ KeptInv /\ SnapInv
  BY DEF RInv
<1>2. RTypeInv' /\ RStateInv' /\ FileInv(file', taken')
  BY <1>1, NextRTypes, NextRState, NextFile
<1>3. BookInv' /\ RejectedInv' /\ NumberInv' /\ KeptInv' /\ SnapInv'
  BY <1>1, NextBook, NextRejected, NextNumbers, NextKept, NextSnapshots
<1> QED
  BY <1>2, <1>3 DEF RInv

\* An applied operation that is kept is in the book, be it replayed from its
\* record or in the snapshot.
LEMMA AnsweredSurvive == RInv => AppliedSurvives
<1> SUFFICES ASSUME RInv, up, SnapshotExact,
                    (crashes <= 1 /\ syncEvery = 1) \/ faulted \cap {"short", "power"} = {},
                    NEW op \in applied
             PROVE  InBook(op)
  BY DEF AppliedSurvives
<1>0. /\ file \in Seq(Lines) /\ snap.seq \in Nat /\ crashes \in Nat /\ book \in Seq(Nat) /\ snap.book \in Seq(Nat)
  BY DEF RInv, RTypeInv
<1>1. Numbered
  BY DEF Numbered, Intact
<1>2. Replayed(file, book, applied, snap.seq) /\ Extends(file, book, snap.seq, snap.book)
  BY <1>1 DEF RInv, SnapInv
<1>3. Has(book, op) \/ Kept(file, Len(file), op)
  <2>1. CASE Intact
    BY <2>1 DEF RInv, KeptInv
  <2>2. CASE syncEvery = 1 /\ crashes = 0
    <3>1. Kept(file, synced, op)
      BY <2>2 DEF RInv, KeptInv
    <3> QED
      BY <1>0, <3>1, KeptSomewhere
  <2>3. CASE syncEvery = 1 /\ crashes = 1
    BY <2>3 DEF RInv, KeptInv
  <2> QED
    BY <1>0, <2>1, <2>2, <2>3 DEF Intact
<1>4. ASSUME Kept(file, Len(file), op) PROVE Has(book, op)
  <2>1. PICK i \in Records(file) : file[i].op = op
    BY <1>4 DEF Kept, Records, Parses
  <2>2. file[i].seq \in Nat
    BY <1>0, <2>1, RecordAt
  <2>3. CASE file[i].seq > snap.seq
    BY <1>2, <2>1, <2>3 DEF Replayed
  <2>4. CASE file[i].seq <= snap.seq
    <3>1. i \in Reflected(file, snap.seq)
      BY <2>1, <2>4 DEF Reflected
    <3>2. Has(snap.book, op)
      <4>1. Reflected(file, snap.seq) \in SUBSET Records(file)
        BY DEF Reflected
      <4>2. taken \in Nat /\ FileInv(file, taken)
        BY BoundAssumption DEF RInv, RTypeInv, RecoveryTypeOK
      <4>3. Has(Ops(file, Reflected(file, snap.seq)), file[i].op)
        BY <1>0, <3>1, <4>1, <4>2, LoggedOps
      <4> QED
        BY <2>1, <4>3 DEF SnapshotExact
    <3>3. PICK k \in DOMAIN snap.book : snap.book[k] = op
      BY <3>2 DEF Has
    <3>4. k \in DOMAIN book /\ book[k] = op
      <4>1. Len(snap.book) <= Len(book) /\ book[k] = snap.book[k]
        BY <1>2 DEF Extends
      <4>2. k \in 1..Len(snap.book) /\ DOMAIN book = 1..Len(book) /\ Len(book) \in Nat /\ Len(snap.book) \in Nat
        BY <1>0
      <4> QED
        BY <3>3, <4>1, <4>2
    <3> QED
      BY <3>4 DEF Has
  <2> QED
    BY <1>0, <2>2, <2>3, <2>4
<1> QED
  BY <1>3, <1>4 DEF Has, InBook

\* The snapshot's part of the book is in order because the records are, and the
\* rest comes after it.
LEMMA BookInOrder == RInv => OnceInOrder
<1> SUFFICES ASSUME RInv, up, SnapshotExact,
                    crashes <= 1 \/ faulted \cap {"short", "power"} = {},
                    NEW i \in DOMAIN book, NEW j \in DOMAIN book, i < j
             PROVE  book[i] < book[j]
  BY DEF OnceInOrder
<1> DEFINE b == snap.book
           R == Reflected(file, snap.seq)
<1>0. /\ file \in Seq(Lines) /\ book \in Seq(Nat) /\ b \in Seq(Nat) /\ taken \in Nat /\ FileInv(file, taken)
  BY BoundAssumption DEF RInv, RTypeInv, RecoveryTypeOK
<1>1. Extends(file, book, snap.seq, b)
  BY DEF RInv, SnapInv, Numbered, Intact
<1>2. R \in SUBSET Records(file) /\ \A r \in R : r \in Records(file) /\ file[r].seq <= snap.seq
  BY DEF Reflected
<1>3. b = Ops(file, R)
  BY DEF SnapshotExact
<1> HIDE DEF b, R
<1>4. /\ \A k \in DOMAIN b : \E r \in R : b[k] = file[r].op
      /\ \A k, l \in DOMAIN b : k < l => b[k] < b[l]
  <2>1. /\ \A k \in DOMAIN Ops(file, R) : \E r \in R : Ops(file, R)[k] = file[r].op
        /\ \A k, l \in DOMAIN Ops(file, R) : k < l => Ops(file, R)[k] < Ops(file, R)[l]
    <3>1. R \in SUBSET Records(file)
      BY <1>2
    <3>2. file \in Seq(Lines) /\ taken \in Nat /\ FileInv(file, taken)
      BY <1>0
    <3>3. /\ Ops(file, R) \in Seq(Nat)
          /\ \A k \in DOMAIN Ops(file, R) : \E r \in R : Ops(file, R)[k] = file[r].op
          /\ \A r \in R : Has(Ops(file, R), file[r].op)
          /\ \A k, l \in DOMAIN Ops(file, R) : k < l => Ops(file, R)[k] < Ops(file, R)[l]
      BY <3>1, <3>2, LoggedOps
    <3> QED
      BY <3>3
  <2> QED
    BY <1>3, <2>1
<1>5. /\ Len(b) \in Nat /\ DOMAIN b = 1..Len(b) /\ i \in Nat /\ j \in Nat /\ i >= 1
      /\ \A k \in DOMAIN b : book[k] = b[k]
  BY <1>0, <1>1 DEF Extends
<1>6. CASE j <= Len(b)
  <2>1. i \in DOMAIN b /\ j \in DOMAIN b
    BY <1>5, <1>6
  <2> QED
    BY <1>4, <1>5, <2>1
<1>7. CASE i <= Len(b) /\ Len(b) < j
  <2>1. i \in DOMAIN b /\ book[i] = b[i]
    BY <1>5, <1>7
  <2>2. PICK r \in R : b[i] = file[r].op
    BY <1>4, <2>1
  <2>3. Has(b, file[r].op)
    BY <2>1, <2>2 DEF Has
  <2> QED
    BY <1>1, <1>2, <1>7, <2>1, <2>2, <2>3 DEF Extends
<1>8. CASE Len(b) < i
  BY <1>1, <1>8 DEF Extends
<1> QED
  BY <1>5, <1>6, <1>7, <1>8

(***************************************************************************)
(* The time priorities.  They grow along the book as long as the book      *)
(* itself is in order, for what is replayed follows what was restored, and *)
(* what was restored is sorted by the times of the requests: an order made *)
(* behind the record of another was created after it, whether that one's   *)
(* time is of its request or of its record.                                *)
(***************************************************************************)
Increasing(b) == \A i, j \in DOMAIN b : i < j => b[i] < b[j]
ShotInv(s) == s.seqNo \in Nat /\ Len(s.book) <= s.seqNo /\ s.parked \subseteq work.stops
Behind(n, m) == Has(book, m) /\ Has(book, n) /\ work.made[n] > m /\ bookSeq[n] # 0 /\ (m \in work.stops => crashes = 0)
Placed == \A m, n \in 1..MaxOps : Behind(n, m) => bookSeq[m] < bookSeq[n]

PlaceInv ==
  /\ work \in Workloads /\ bookSeq \in [1..MaxOps -> Nat] /\ seqNo \in Nat
  /\ Len(book) <= seqNo /\ parked \subseteq work.stops
  /\ ShotInv(snap) /\ ShotInv(taking.of)
  /\ \A n \in 1..MaxOps : bookSeq[n] <= seqNo
  /\ crashes = 0 => \A n \in 1..MaxOps : Has(book, n) => bookSeq[n] # 0
  /\ Increasing(book) => Placed

\* Init: no order has a place yet.
LEMMA InitPlaces == Init => PlaceInv
<1> SUFFICES ASSUME Init PROVE PlaceInv
  OBVIOUS
<1>1. book = << >> /\ Len(book) = 0 /\ \A n : ~Has(book, n)
  BY DEF Init, Has
<1>2. ShotInv(Empty)
  BY DEF ShotInv, Empty
<1>3. snap = Empty /\ taking.of = Empty
  BY DEF Init, NotTaking
<1>4. /\ work \in Workloads /\ bookSeq = [n \in 1..MaxOps |-> 0] /\ seqNo = 0 /\ parked = {}
  BY DEF Init
<1> QED
  BY <1>1, <1>2, <1>3, <1>4 DEF PlaceInv, Placed, Behind

\* What is known of a workload (CreatedAt: an order made behind m's record was
\* created after m).
LEMMA MadeBehind ==
  ASSUME work \in Workloads, NEW m \in 1..MaxOps, NEW n \in 1..MaxOps, work.made[n] > m
  PROVE  m < n /\ \A A : CreatedAt(m, A) \in Int /\ CreatedAt(n, A) \in Int /\ CreatedAt(m, A) < CreatedAt(n, A)
<1>1. work.made[m] \in Nat /\ work.made[n] \in Nat /\ work.made[m] <= m /\ work.made[n] <= n
  BY WorkAssumption
<1>2. m \in Nat /\ n \in Nat
  BY BoundAssumption
<1>3. m < n
  BY <1>1, <1>2
<1>4. ASSUME NEW A PROVE CreatedAt(m, A) \in Int /\ CreatedAt(m, A) <= 2 * m
  BY <1>1, <1>2 DEF CreatedAt
<1>5. ASSUME NEW A PROVE CreatedAt(n, A) \in Int /\ CreatedAt(n, A) > 2 * m
  BY <1>1, <1>2 DEF CreatedAt
<1> QED
  BY <1>2, <1>3, <1>4, <1>5

\* An order that Apply adds comes behind all that are in the book.
LEMMA ApplyPlaces == RInv /\ PlaceInv /\ Apply /\ UNCHANGED work => PlaceInv'
<1> SUFFICES ASSUME RInv, PlaceInv, Apply, work' = work PROVE PlaceInv'
  OBVIOUS
<1>0. /\ taken \in Nat /\ taken >= 1 /\ taken \in 1..MaxOps /\ book \in Seq(Nat) /\ Within(book, taken) /\ ~Has(book, taken)
  <2>1. taken \in 0..MaxOps /\ step # "none" /\ book \in Seq(Nat)
    BY DEF RInv, RTypeInv, RecoveryTypeOK, Apply
  <2>2. taken >= 1 /\ Within(book, taken) /\ ~Has(book, taken)
    BY <2>1 DEF RInv, RStateInv, BookInv, Ongoing
  <2> QED
    BY <2>1, <2>2, BoundAssumption
<1>1. /\ book' = Append(book, taken) /\ seqNo' = seqNo + 1 /\ bookSeq' = [bookSeq EXCEPT ![taken] = seqNo + 1]
      /\ (parked' = parked \/ (taken \in work.stops /\ parked' = parked \cup {taken}))
      /\ UNCHANGED <<snap, taking, crashes>>
  BY DEF Apply, snapVars
<1>2. /\ bookSeq \in [1..MaxOps -> Nat] /\ seqNo \in Nat /\ \A n \in 1..MaxOps : bookSeq[n] <= seqNo
  BY DEF PlaceInv
<1>3. /\ bookSeq'[taken] = seqNo + 1
      /\ \A n \in 1..MaxOps : n # taken => bookSeq'[n] = bookSeq[n]
      /\ bookSeq' \in [1..MaxOps -> Nat] /\ seqNo' \in Nat
  BY <1>0, <1>1, <1>2
<1>4. \A y : Has(book', y) <=> Has(book, y) \/ y = taken
  BY <1>0, <1>1, HasAppend
<1>5. /\ Len(book) \in Nat /\ Len(book') = Len(book) + 1 /\ DOMAIN book = 1..Len(book) /\ DOMAIN book' = 1..(Len(book) + 1)
      /\ \A k \in 1..Len(book) : book'[k] = book[k]
  BY <1>0, <1>1, AppendProperties
<1>6. Increasing(book') => Increasing(book)
  BY <1>5 DEF Increasing
<1>7. ASSUME Increasing(book'), NEW m \in 1..MaxOps, NEW n \in 1..MaxOps, Behind(n, m)'
      PROVE  bookSeq'[m] < bookSeq'[n]
  <2>1. Placed
    BY <1>6, <1>7 DEF PlaceInv
  <2>2. m < n
    BY <1>1, <1>7, MadeBehind DEF PlaceInv, Behind
  <2>3. CASE n = taken
    <3>1. m # taken /\ bookSeq[m] \in Nat /\ bookSeq[m] <= seqNo
      BY <1>0, <1>2, <2>2, <2>3
    <3> QED
      BY <1>2, <1>3, <2>3, <3>1
  <2>4. CASE n # taken
    <3>1. Has(book, n) /\ n <= taken
      <4>1. Has(book, n)
        BY <1>4, <1>7, <2>4 DEF Behind
      <4> QED
        BY <4>1 DEF RInv, BookInv, Within, Has
    <3>2. m # taken
      BY <1>0, <2>2, <3>1
    <3>3. Behind(n, m)
      BY <1>1, <1>3, <1>4, <1>7, <2>4, <3>2 DEF Behind
    <3> QED
      BY <1>3, <2>1, <2>4, <3>2, <3>3 DEF Placed
  <2> QED
    BY <2>3, <2>4
<1>8. \A n \in 1..MaxOps : bookSeq'[n] <= seqNo'
  BY <1>1, <1>2, <1>3
<1>9. crashes' = 0 => \A n \in 1..MaxOps : Has(book', n) => bookSeq'[n] # 0
  BY <1>1, <1>2, <1>3, <1>4 DEF PlaceInv
<1>10. work' \in Workloads /\ Len(book') <= seqNo' /\ parked' \subseteq work'.stops /\ ShotInv(snap)' /\ ShotInv(taking.of)'
  BY <1>1, <1>2, <1>5 DEF PlaceInv, ShotInv
<1>11. Increasing(book') => Placed'
  BY <1>7 DEF Placed
<1> QED
  BY <1>3, <1>8, <1>9, <1>10, <1>11 DEF PlaceInv

\* Stops that go off had a place before the first crash, and get the last ones
\* behind it.
LEMMA TriggerPlaces == RInv /\ PlaceInv /\ TriggerStops /\ UNCHANGED work => PlaceInv'
<1> SUFFICES ASSUME RInv, PlaceInv, TriggerStops, work' = work PROVE PlaceInv'
  OBVIOUS
<1>1. /\ bookSeq \in [1..MaxOps -> Nat] /\ seqNo \in Nat /\ \A n \in 1..MaxOps : bookSeq[n] <= seqNo
      /\ work \in Workloads /\ parked \subseteq work.stops
  BY DEF PlaceInv
<1>2. PICK S \in SUBSET parked \ {{}} :
        /\ bookSeq' = [n \in 1..MaxOps |-> IF n \in S /\ bookSeq[n] = 0 THEN seqNo + Cardinality({m \in S : m <= n})
                                          ELSE bookSeq[n]]
        /\ seqNo' = seqNo + Cardinality(S)
        /\ parked' = parked \ S
  BY DEF TriggerStops
<1>3. UNCHANGED <<book, snap, taking, crashes>>
  BY DEF TriggerStops, snapVars
<1>4. S \subseteq work.stops /\ S \subseteq 1..MaxOps
  BY <1>1, <1>2, WorkAssumption
<1>5. IsFiniteSet(S) /\ Cardinality(S) \in Nat
  <2>1. IsFiniteSet(1..MaxOps)
    BY BoundAssumption, FS_Interval
  <2> QED
    BY <1>4, <2>1, FS_Subset, FS_CardinalityType
<1>6. ASSUME NEW n \in S
      PROVE  Cardinality({m \in S : m <= n}) \in Nat /\ Cardinality({m \in S : m <= n}) >= 1
             /\ Cardinality({m \in S : m <= n}) <= Cardinality(S)
  <2> DEFINE T == {m \in S : m <= n}
  <2>1. n \in T
    BY <1>4, BoundAssumption
  <2>2. T \subseteq S
    OBVIOUS
  <2> HIDE DEF T
  <2>3. IsFiniteSet(T) /\ Cardinality(T) \in Nat /\ Cardinality(T) <= Cardinality(S)
    BY <1>5, <2>2, FS_Subset, FS_CardinalityType
  <2>4. Cardinality(T) # 0
    BY <2>1, <2>3, FS_EmptySet
  <2> QED
    BY <2>3, <2>4 DEF T
<1>7. ASSUME NEW n \in 1..MaxOps
      PROVE  /\ bookSeq'[n] \in Nat /\ bookSeq'[n] <= seqNo'
             /\ bookSeq'[n] = bookSeq[n] \/ (n \in S /\ bookSeq[n] = 0 /\ bookSeq'[n] > seqNo)
  <2>1. CASE n \in S /\ bookSeq[n] = 0
    <3>1. bookSeq'[n] = seqNo + Cardinality({m \in S : m <= n})
      BY <1>2, <2>1
    <3> HIDE DEF PlaceInv
    <3> QED
      BY <1>1, <1>2, <1>5, <1>6, <2>1, <3>1
  <2>2. CASE ~(n \in S /\ bookSeq[n] = 0)
    BY <1>1, <1>2, <1>5, <2>2
  <2> QED
    BY <2>1, <2>2
<1>8. ASSUME Increasing(book), NEW m \in 1..MaxOps, NEW n \in 1..MaxOps, Behind(n, m)'
      PROVE  bookSeq'[m] < bookSeq'[n]
  <2>1. /\ Has(book, m) /\ Has(book, n) /\ work.made[n] > m /\ bookSeq'[n] # 0
        /\ m \in work.stops => crashes = 0
    BY <1>3, <1>8 DEF Behind
  <2>2. bookSeq'[m] = bookSeq[m]
    <3>1. bookSeq[m] # 0 \/ m \notin work.stops
      BY <2>1 DEF PlaceInv
    <3> QED
      BY <1>4, <1>7, <3>1
  <2>3. CASE bookSeq'[n] = bookSeq[n]
    <3>1. Behind(n, m)
      BY <2>1, <2>3 DEF Behind
    <3> QED
      BY <1>8, <2>2, <2>3, <3>1 DEF PlaceInv, Placed
  <2>4. CASE bookSeq'[n] > seqNo
    BY <1>1, <1>7, <2>2, <2>4
  <2> QED
    BY <1>7, <2>3, <2>4
<1>9. bookSeq' \in [1..MaxOps -> Nat]
  <2>1. bookSeq' = [n \in 1..MaxOps |-> bookSeq'[n]]
    BY <1>2
  <2> QED
    BY <1>7, <2>1
<1>10. seqNo' \in Nat /\ seqNo' >= seqNo
  BY <1>1, <1>2, <1>5
<1>11. Len(book') <= seqNo'
  <2>1. Len(book) \in Nat /\ Len(book) <= seqNo
    BY DEF PlaceInv, RInv, RTypeInv
  <2> QED
    BY <1>1, <1>3, <1>10, <2>1
<1>12. crashes' = 0 => \A n \in 1..MaxOps : Has(book', n) => bookSeq'[n] # 0
  BY <1>3, <1>7 DEF PlaceInv
<1>13. work' \in Workloads /\ parked' \subseteq work'.stops /\ ShotInv(snap)' /\ ShotInv(taking.of)'
  BY <1>1, <1>2, <1>3 DEF PlaceInv, ShotInv
<1>14. Increasing(book') => Placed'
  BY <1>3, <1>8 DEF Placed
<1> QED
  BY <1>7, <1>9, <1>10, <1>11, <1>12, <1>13, <1>14 DEF PlaceInv

\* Restore and replayWAL: what is restored keeps its order, what is replayed
\* follows it, in the order of the records.
LEMMA RecoverPlaces == RInv /\ PlaceInv /\ Recover /\ UNCHANGED work => PlaceInv'
<1> SUFFICES ASSUME RInv, PlaceInv, Recover, work' = work PROVE PlaceInv'
  OBVIOUS
<1> DEFINE R == ToReplay(file, snap.seq)
           again == {file[i].op : i \in R}
           Place(n) == CHOOSE i \in R : file[i].op = n
           resting == InBookOf(snap) \ snap.parked
<1>0. /\ file \in Seq(Lines) /\ taken \in 0..MaxOps /\ snap.seq \in Nat /\ snap.book \in Seq(Nat)
      /\ FileInv(file, taken) /\ Within(snap.book, taken) /\ Len(file) \in Nat /\ Len(snap.book) \in Nat
      /\ RTypeInv
  BY DEF RInv, RTypeInv, RecoveryTypeOK, BookInv
<1>1. snap.seqNo \in Nat /\ Len(snap.book) <= snap.seqNo /\ snap.parked \subseteq work.stops /\ work \in Workloads
  BY DEF PlaceInv, ShotInv
<1>2. PICK f \in Priorities(snap) :
        bookSeq' = [n \in 1..MaxOps |-> IF n \in again THEN snap.seqNo + Place(n) ELSE IF n \in DOMAIN f THEN f[n] ELSE 0]
  BY DEF Recover
<1>3. /\ seqNo' = snap.seqNo + Len(file) /\ book' = snap.book \o Ops(file, R)
      /\ \E S \in SUBSET (again \cap work.stops) : parked' = snap.parked \cup S
      /\ UNCHANGED <<file, snap, taking, crashes>> /\ crashes >= 1 /\ crashes \in Nat
  BY DEF Recover, snapVars, RInv, RStateInv, RTypeInv
<1>4. /\ f \in [resting -> 1..Len(snap.book)]
      /\ \A m, n \in resting : CreatedAt(m, snap.replayed) < CreatedAt(n, snap.replayed) => f[m] < f[n]
  BY DEF Priorities
<1>5. R \subseteq Records(file)
  BY DEF ToReplay
<1> HIDE DEF R
<1>6. ASSUME NEW n \in again
      PROVE  Place(n) \in R /\ file[Place(n)].op = n /\ Place(n) \in 1..Len(file) /\ Place(n) \in Nat
  <2>1. \E i \in R : file[i].op = n
    OBVIOUS
  <2>2. Place(n) \in R /\ file[Place(n)].op = n
    BY <2>1
  <2> HIDE DEF Place, again
  <2>3. Place(n) \in 1..Len(file)
    BY <1>0, <1>5, <2>2, RecordAt
  <2> QED
    BY <2>2, <2>3
<1>7. ASSUME NEW m \in again, NEW n \in again, m < n
      PROVE  Place(m) < Place(n)
  <2>1. /\ Place(m) \in Records(file) /\ Place(n) \in Records(file) /\ Place(m) \in Nat /\ Place(n) \in Nat
        /\ file[Place(m)].op = m /\ file[Place(n)].op = n
    BY <1>5, <1>6
  <2>2. m \in Nat /\ n \in Nat
    BY <1>0, <2>1, RecordAt
  <2> HIDE DEF Place, again
  <2>3. ~(Place(n) < Place(m)) /\ Place(n) # Place(m)
    BY <1>0, <1>7, <2>1, <2>2 DEF FileInv
  <2> QED
    BY <2>1, <2>3
<1> HIDE DEF Place, again
<1>8. ASSUME NEW n \in 1..MaxOps
      PROVE  /\ bookSeq'[n] \in Nat /\ bookSeq'[n] <= seqNo'
             /\ n \in again => bookSeq'[n] = snap.seqNo + Place(n)
             /\ n \notin again => bookSeq'[n] <= snap.seqNo
             /\ n \notin again /\ n \in resting => bookSeq'[n] = f[n]
             /\ n \notin again /\ n \notin resting => bookSeq'[n] = 0
  <2>1. CASE n \in again
    <3>1. bookSeq'[n] = snap.seqNo + Place(n)
      BY <1>2, <2>1
    <3> QED
      BY <1>0, <1>1, <1>3, <1>6, <2>1, <3>1
  <2>2. CASE n \notin again /\ n \in resting
    <3>1. bookSeq'[n] = f[n] /\ f[n] \in 1..Len(snap.book)
      BY <1>2, <1>4, <2>2
    <3>2. f[n] \in Nat /\ f[n] <= Len(snap.book)
      BY <3>1
    <3>3. /\ Len(snap.book) \in Nat /\ Len(snap.book) <= snap.seqNo /\ snap.seqNo \in Nat
          /\ Len(file) \in Nat /\ seqNo' = snap.seqNo + Len(file)
      BY <1>0, <1>1, <1>3
    <3>4. f[n] <= snap.seqNo /\ f[n] <= seqNo'
      BY <3>2, <3>3
    <3> QED
      BY <2>2, <3>1, <3>2, <3>4
  <2>3. CASE n \notin again /\ n \notin resting
    <3>1. bookSeq'[n] = 0
      BY <1>2, <1>4, <2>3
    <3> QED
      BY <1>0, <1>1, <1>3, <2>3, <3>1
  <2> QED
    BY <2>1, <2>2, <2>3
<1>9. \A n : Has(book', n) => n \in again \/ n \in InBookOf(snap)
  <2>1. /\ Ops(file, R) \in Seq(Nat)
        /\ \A k \in DOMAIN Ops(file, R) : \E i \in R : Ops(file, R)[k] = file[i].op
    BY <1>0, ReplayedOps DEF R
  <2>2. \A n : Has(Ops(file, R), n) => n \in again
    BY <2>1 DEF Has, again
  <2>3. \A n : Has(snap.book, n) => n \in InBookOf(snap)
    BY DEF Has, InBookOf
  <2> QED
    BY <1>0, <1>3, <2>1, <2>2, <2>3, HasConcat
<1>10. ASSUME Increasing(book'), NEW m \in again, NEW n \in InBookOf(snap), m \in Nat, n \in Nat, m < n
       PROVE  FALSE
  <2>1. PICK k \in DOMAIN snap.book : snap.book[k] = n
    BY DEF InBookOf
  <2> DEFINE ops == Ops(file, R)
  <2>2. ops \in Seq(Nat) /\ \A i \in R : Has(ops, file[i].op)
    BY <1>0, ReplayedOps DEF R
  <2>3. PICK l \in DOMAIN ops : ops[l] = m
    BY <2>2 DEF again, Has
  <2> HIDE DEF ops
  <2>4. /\ DOMAIN book' = 1..(Len(snap.book) + Len(ops)) /\ Len(ops) \in Nat
        /\ DOMAIN ops = 1..Len(ops) /\ DOMAIN snap.book = 1..Len(snap.book)
        /\ \A i \in 1..(Len(snap.book) + Len(ops)) :
             book'[i] = IF i <= Len(snap.book) THEN snap.book[i] ELSE ops[i - Len(snap.book)]
    <3> DEFINE b == snap.book
    <3>1. book' = b \o ops /\ b \in Seq(Nat)
      BY <1>0, <1>3 DEF ops
    <3> HIDE DEF b
    <3>2. /\ DOMAIN book' = 1..(Len(b) + Len(ops)) /\ DOMAIN b = 1..Len(b) /\ DOMAIN ops = 1..Len(ops)
          /\ \A i \in 1..(Len(b) + Len(ops)) : book'[i] = IF i <= Len(b) THEN b[i] ELSE ops[i - Len(b)]
      BY <2>2, <3>1, ConcatProperties
    <3> QED
      BY <2>2, <3>2 DEF b
  <2>5. /\ k \in 1..(Len(snap.book) + Len(ops)) /\ l + Len(snap.book) \in 1..(Len(snap.book) + Len(ops))
        /\ k < l + Len(snap.book) /\ book'[k] = n /\ book'[l + Len(snap.book)] = m
    <3>1. k \in 1..Len(snap.book) /\ l \in 1..Len(ops)
      BY <2>1, <2>3, <2>4
    <3>2. /\ k \in 1..(Len(snap.book) + Len(ops)) /\ k <= Len(snap.book)
          /\ l + Len(snap.book) \in 1..(Len(snap.book) + Len(ops)) /\ k < l + Len(snap.book)
          /\ ~(l + Len(snap.book) <= Len(snap.book)) /\ (l + Len(snap.book)) - Len(snap.book) = l
      <4>1. Len(snap.book) \in Nat /\ Len(ops) \in Nat
        BY <1>0, <2>4
      <4> QED
        BY <3>1, <4>1
    <3>3. book'[k] = snap.book[k]
      BY <2>4, <3>2
    <3>4. book'[l + Len(snap.book)] = ops[l]
      BY <2>4, <3>2
    <3> QED
      BY <2>1, <2>3, <3>2, <3>3, <3>4
  <2> QED
    BY <1>10, <2>4, <2>5 DEF Increasing
<1>11. ASSUME Increasing(book'), NEW m \in 1..MaxOps, NEW n \in 1..MaxOps, Behind(n, m)'
       PROVE  bookSeq'[m] < bookSeq'[n]
  <2>1. /\ Has(book', m) /\ Has(book', n) /\ work.made[n] > m /\ bookSeq'[n] # 0 /\ m \notin work.stops
    BY <1>3, <1>11 DEF Behind
  <2>2. m < n /\ CreatedAt(m, snap.replayed) < CreatedAt(n, snap.replayed)
    BY <1>1, <2>1, MadeBehind
  <2>3. m \in Nat /\ n \in Nat
    BY BoundAssumption
  <2>4. CASE n \in again
    <3>1. bookSeq'[n] = snap.seqNo + Place(n) /\ Place(n) \in Nat /\ Place(n) >= 1
      BY <1>6, <1>8, <2>4
    <3>2. CASE m \in again
      <4>1. bookSeq'[m] = snap.seqNo + Place(m) /\ Place(m) \in Nat /\ Place(m) < Place(n)
        BY <1>6, <1>7, <1>8, <2>2, <2>4, <3>2
      <4> QED
        BY <1>1, <3>1, <4>1
    <3>3. CASE m \notin again
      <4>1. bookSeq'[m] \in Nat /\ bookSeq'[m] <= snap.seqNo
        BY <1>8, <3>3
      <4> QED
        BY <1>1, <3>1, <4>1
    <3> QED
      BY <3>2, <3>3
  <2>5. CASE n \notin again
    <3>1. n \in resting /\ bookSeq'[n] = f[n]
      BY <1>8, <2>1, <2>5
    <3>2. m \notin again
      BY <1>10, <1>11, <2>2, <2>3, <2>5, <3>1
    <3>3. m \in resting
      BY <1>1, <1>9, <2>1, <3>2
    <3>4. bookSeq'[m] = f[m]
      BY <1>8, <3>2, <3>3
    <3> QED
      BY <1>4, <2>2, <3>1, <3>3, <3>4
  <2> QED
    BY <2>4, <2>5
<1>12. bookSeq' \in [1..MaxOps -> Nat]
  <2>1. bookSeq' = [n \in 1..MaxOps |-> bookSeq'[n]]
    BY <1>2
  <2> QED
    BY <1>8, <2>1
<1>13. Len(book') <= seqNo'
  <2> DEFINE ops == Ops(file, R)
  <2>1. ops \in Seq(Nat)
    BY <1>0, ReplayedOps DEF R
  <2>2. Cardinality(R) \in Nat /\ Cardinality(R) <= Len(file)
    <3>1. R \subseteq 1..Len(file)
      BY <1>0, <1>5, RecordCount
    <3>2. IsFiniteSet(1..Len(file)) /\ Cardinality(1..Len(file)) = Len(file)
      <4> DEFINE x == Len(file)
      <4>1. x \in Nat
        BY <1>0
      <4> HIDE DEF x
      <4>2. IsFiniteSet(1..x) /\ Cardinality(1..x) = x
        BY <4>1, FS_Interval
      <4> QED
        BY <4>2 DEF x
    <3> QED
      BY <3>1, <3>2, FS_Subset, FS_CardinalityType
  <2>3. DOMAIN ops = 1..Cardinality(R)
    BY DEF Ops
  <2>4. DOMAIN ops = 1..Len(ops) /\ Len(ops) \in Nat
    BY <2>1
  <2> HIDE DEF ops
  <2>5. Len(ops) = Cardinality(R)
    BY <2>2, <2>3, <2>4
  <2>6. Len(book') = Len(snap.book) + Len(ops)
    <3>1. book' = snap.book \o ops
      BY <1>3 DEF ops
    <3> QED
      BY <1>0, <2>1, <3>1, ConcatProperties
  <2> QED
    <3>1. Len(snap.book) \in Nat /\ Len(snap.book) <= snap.seqNo /\ snap.seqNo \in Nat /\ Len(file) \in Nat
      BY <1>0, <1>1
    <3>2. seqNo' = snap.seqNo + Len(file)
      BY <1>3
    <3> QED
      BY <2>2, <2>5, <2>6, <3>1, <3>2
<1>14. work' \in Workloads /\ seqNo' \in Nat /\ parked' \subseteq work'.stops /\ ShotInv(snap)' /\ ShotInv(taking.of)'
  BY <1>0, <1>1, <1>3 DEF PlaceInv, ShotInv
<1>15. crashes' # 0
  BY <1>3
<1>16. Increasing(book') => Placed'
  BY <1>11 DEF Placed
<1> QED
  BY <1>8, <1>12, <1>13, <1>14, <1>15, <1>16 DEF PlaceInv

\* Appends and snapshots give no places, and a crash takes them all.
LEMMA NextPlaces == RInv /\ PlaceInv /\ [Next]_vars => PlaceInv'
<1> SUFFICES ASSUME RInv, PlaceInv, [Next]_vars PROVE PlaceInv'
  OBVIOUS
<1>0. work' = work
  BY DEF Next, vars
<1>1. Len(book) \in Nat /\ crashes \in Nat
  BY DEF RInv, RTypeInv
<1>2. ShotInv(Empty)
  BY DEF ShotInv, Empty
<1>3. CASE AppendWrite \/ AppendFails \/ AppendUnsynced \/ AppendSynced \/ SyncFails \/ UNCHANGED vars
  <2>1. UNCHANGED <<timeVars, book, crashes, snap, taking>>
    BY <1>3 DEF AppendWrite, AppendFails, AppendUnsynced, AppendSynced, SyncFails, Reject, vars, snapVars
  <2>2. UNCHANGED <<bookSeq, seqNo, parked, book, crashes, snap, taking>>
    BY <2>1 DEF timeVars
  <2>3. Placed' = Placed
    BY <1>0, <2>2 DEF Placed, Behind
  <2> QED
    BY <1>0, <2>2, <2>3 DEF PlaceInv, ShotInv
<1>4. CASE SnapshotSeq \/ SnapshotBook \/ SnapshotSave
  <2>1. UNCHANGED <<bookSeq, seqNo, parked, book, crashes>>
    BY <1>4 DEF SnapshotSeq, SnapshotBook, SnapshotSave, timeVars
  <2>2. ShotInv(snap)' /\ ShotInv(taking.of)'
    <3>1. ASSUME NEW s, ShotInv(s) PROVE s.seqNo \in Nat /\ Len(s.book) <= s.seqNo /\ s.parked \subseteq work'.stops
      BY <1>0, <3>1 DEF ShotInv
    <3>2. CASE SnapshotSeq
      <4>1. /\ snap' = snap /\ taking'.of.seqNo = 0 /\ taking'.of.book = << >> /\ taking'.of.parked = {}
        BY <3>2 DEF SnapshotSeq, Empty
      <4> QED
        BY <1>0, <4>1 DEF PlaceInv, ShotInv
    <3>3. CASE SnapshotBook
      <4>1. /\ snap' = snap /\ taking'.of.seqNo = seqNo /\ taking'.of.book = book /\ taking'.of.parked = parked
        BY <3>3 DEF SnapshotBook
      <4> QED
        BY <1>0, <4>1 DEF PlaceInv, ShotInv
    <3>4. CASE SnapshotSave
      <4>1. snap' = taking.of /\ taking'.of = Empty
        BY <3>4 DEF SnapshotSave, NotTaking
      <4> QED
        BY <1>0, <1>2, <4>1 DEF PlaceInv, ShotInv
    <3> QED
      BY <1>4, <3>2, <3>3, <3>4
  <2>3. Placed' = Placed
    BY <1>0, <2>1 DEF Placed, Behind
  <2> QED
    BY <1>0, <2>1, <2>2, <2>3 DEF PlaceInv
<1>5. CASE Crash
  <2>1. /\ bookSeq' = [n \in 1..MaxOps |-> 0] /\ seqNo' = 0 /\ parked' = {} /\ book' = << >>
        /\ snap' = snap /\ taking'.of = Empty /\ crashes' = crashes + 1
    BY <1>5 DEF Crash, NotTaking
  <2>2. Len(book') = 0 /\ \A n : ~Has(book', n)
    BY <2>1 DEF Has
  <2>3. ShotInv(snap)' /\ ShotInv(taking.of)'
    BY <1>0, <1>2, <2>1 DEF PlaceInv, ShotInv
  <2>4. Placed'
    BY <2>2 DEF Placed, Behind
  <2>5. work' \in Workloads
    BY <1>0 DEF PlaceInv
  <2>6. bookSeq' \in [1..MaxOps -> Nat] /\ \A n \in 1..MaxOps : bookSeq'[n] <= seqNo'
    BY <2>1
  <2> QED
    BY <2>1, <2>2, <2>3, <2>4, <2>5, <2>6 DEF PlaceInv
<1> QED
  BY <1>0, <1>3, <1>4, <1>5, ApplyPlaces, TriggerPlaces, RecoverPlaces DEF Next

\* A book in order keeps the places of its orders.
LEMMA PlacesKept == RInv /\ PlaceInv => KeepsPlace
<1> SUFFICES ASSUME RInv, PlaceInv, up, SnapshotExact,
                    crashes <= 1 \/ faulted \cap {"short", "power"} = {},
                    NEW m \in 1..MaxOps, NEW n \in 1..MaxOps,
                    InBook(m), InBook(n), work.made[n] > m, bookSeq[n] # 0, m \in work.stops => crashes = 0
             PROVE  bookSeq[m] < bookSeq[n]
  BY DEF KeepsPlace
<1>1. Increasing(book)
  BY BookInOrder DEF OnceInOrder, Increasing
<1>2. Behind(n, m)
  BY DEF Behind, InBook, Has
<1> QED
  BY <1>1, <1>2 DEF PlaceInv, Placed

(***************************************************************************)
(* The answers given hold across crashes (replayWAL, Append): what was     *)
(* applied is in the book, once and in order, and keeps its place; what    *)
(* was rejected is not; and record numbers grow (NewWALWriter).  For any   *)
(* settings, faults, workloads and numbers of operations.                  *)
(***************************************************************************)
THEOREM AnswersRecovered == Spec => []AnswersSurvive
<1>1. RInv /\ PlaceInv => AnswersSurvive
  <2> SUFFICES ASSUME RInv, PlaceInv PROVE AnswersSurvive
    OBVIOUS
  <2>1. RecoveryTypeOK
    BY DEF RInv, RTypeInv
  <2>2. RejectedStaysOut
    BY DEF RInv, RejectedInv, RejectedStaysOut, Has, InBook
  <2>3. NumbersGrow
    BY DEF RInv, NumberInv, LogNumbered, NumbersGrow, Numbered, Intact
  <2> QED
    BY <2>1, <2>2, <2>3, AnsweredSurvive, BookInOrder, PlacesKept DEF AnswersSurvive
<1>2. Spec => [](RInv /\ PlaceInv)
  BY InitRecovery, NextRecovery, InitPlaces, NextPlaces, PTL DEF Spec
<1> QED
  BY <1>1, <1>2, PTL
=============================================================================
