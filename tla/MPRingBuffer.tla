---------------------------- MODULE MPRingBuffer ----------------------------
(***************************************************************************)
(* The lock-free inbound buffer of a matching engine                       *)
(* (internal/matching/ringbuffer.go, MPRingBuffer): many producers call    *)
(* Enqueue concurrently, one consumer - the engine goroutine - calls Drain *)
(* and DrainStalled and receives from the notify channel.                  *)
(*                                                                         *)
(* Every atomic load, store, swap and compare-and-swap of the code is one  *)
(* action.  A slot index x & mask is x % Cap.  The uint64 cursors are      *)
(* naturals: they count the orders of one engine's life and do not wrap.   *)
(* Here the consumer may call its operations at any time; EngineLoop       *)
(* restricts it to what the engine's run loop does.                        *)
(***************************************************************************)
EXTENDS Integers, Sequences, FiniteSets

CONSTANTS Producers,   \* goroutines calling Enqueue
          Orders,      \* the orders they submit, each at most once
          Cap,         \* length of the slot array
          NoOrder      \* the nil *Order

ASSUME CapAssumption     == Cap \in Nat \ {0}
ASSUME NoOrderAssumption == NoOrder \notin Orders

VARIABLES
  buffer,     \* the slots: [0..Cap-1 -> Orders \cup {NoOrder}]
  head,       \* position of the next order to drain
  tail,       \* position of the next slot to reserve
  notify,     \* TRUE iff a signal is pending in the capacity-1 channel
  pc,         \* where each producer is inside Enqueue
  arg,        \* the order each producer is enqueueing
  hd, tl,     \* each producer's local copies of head and tail
  cpc,        \* where the consumer is inside Drain
  cTail,      \* the consumer's local copy of tail
  got,        \* orders collected by the Drain call in progress
  accepted,   \* orders whose Enqueue returned true
  refused,    \* orders whose Enqueue returned false
  reserved,   \* history: orders in the order their slots were reserved
  delivered   \* history: orders returned by Drain, in order

sharedVars   == <<buffer, head, tail, notify>>
producerVars == <<pc, arg, hd, tl, accepted, refused>>
consumerVars == <<cpc, cTail, got, delivered>>
ringVars     == <<sharedVars, producerVars, consumerVars, reserved>>

mask    == Cap - 1
Slot(x) == x % Cap

\* Mutant: one order too many fits.
Mutant_FullOffByTwo(t, h) == t - h > Cap

\* tail-head >= mask: one slot is always left free.
Full(t, h) == t - h >= mask

RingInit ==
  /\ buffer = [i \in 0..Cap-1 |-> NoOrder]
  /\ head = 0 /\ tail = 0
  /\ notify = FALSE
  /\ pc  = [p \in Producers |-> "idle"]
  /\ arg = [p \in Producers |-> NoOrder]
  /\ hd  = [p \in Producers |-> 0]
  /\ tl  = [p \in Producers |-> 0]
  /\ cpc = "idle" /\ cTail = 0 /\ got = << >>
  /\ accepted = {} /\ refused = {}
  /\ reserved = << >> /\ delivered = << >>
-----------------------------------------------------------------------------
(***************************************************************************)
(* Producers: Enqueue.                                                     *)
(***************************************************************************)
Submitted == accepted \cup refused \cup {arg[p] : p \in Producers}

\* A call begins with its first head.Load.
EnqueueCall(p, o) ==
  /\ pc[p] = "idle"
  /\ o \notin Submitted
  /\ arg' = [arg EXCEPT ![p] = o]
  /\ hd'  = [hd EXCEPT ![p] = head]
  /\ pc'  = [pc EXCEPT ![p] = "loadTail"]
  /\ UNCHANGED <<sharedVars, tl, accepted, refused, consumerVars, reserved>>

\* head.Load of the next turn of the retry loop.
EnqueueLoadHead(p) ==
  /\ pc[p] = "loadHead"
  /\ hd' = [hd EXCEPT ![p] = head]
  /\ pc' = [pc EXCEPT ![p] = "loadTail"]
  /\ UNCHANGED <<sharedVars, arg, tl, accepted, refused, consumerVars, reserved>>

\* tail.Load, then the check for room against the head read before it.
EnqueueLoadTail(p) ==
  /\ pc[p] = "loadTail"
  /\ ~Full(tail, hd[p])
  /\ tl' = [tl EXCEPT ![p] = tail]
  /\ pc' = [pc EXCEPT ![p] = "cas"]
  /\ UNCHANGED <<sharedVars, arg, hd, accepted, refused, consumerVars, reserved>>

EnqueueRefuse(p) ==
  /\ pc[p] = "loadTail"
  /\ Full(tail, hd[p])
  /\ refused' = refused \cup {arg[p]}
  /\ arg' = [arg EXCEPT ![p] = NoOrder]
  /\ pc'  = [pc EXCEPT ![p] = "idle"]
  /\ UNCHANGED <<sharedVars, hd, tl, accepted, consumerVars, reserved>>

\* The successful compare-and-swap reserves slot tl[p].
EnqueueReserve(p) ==
  /\ pc[p] = "cas"
  /\ tail = tl[p]
  /\ tail' = tail + 1
  /\ reserved' = Append(reserved, arg[p])
  /\ pc' = [pc EXCEPT ![p] = "store"]
  /\ UNCHANGED <<buffer, head, notify, arg, hd, tl, accepted, refused, consumerVars>>

\* The failed compare-and-swap starts over.
EnqueueLost(p) ==
  /\ pc[p] = "cas"
  /\ tail # tl[p]
  /\ pc' = [pc EXCEPT ![p] = "loadHead"]
  /\ UNCHANGED <<sharedVars, arg, hd, tl, accepted, refused, consumerVars, reserved>>

\* The reserved slot is published.
EnqueuePublish(p) ==
  /\ pc[p] = "store"
  /\ buffer' = [buffer EXCEPT ![Slot(tl[p])] = arg[p]]
  /\ pc' = [pc EXCEPT ![p] = "signal"]
  /\ UNCHANGED <<head, tail, notify, arg, hd, tl, accepted, refused, consumerVars, reserved>>

\* Mutant: a signal already pending is taken for a full buffer.
Mutant_BusyIfSignalled(p) ==
  /\ pc[p] = "signal"
  /\ notify' = TRUE
  /\ accepted' = IF notify THEN accepted ELSE accepted \cup {arg[p]}
  /\ refused' = IF notify THEN refused \cup {arg[p]} ELSE refused
  /\ arg' = [arg EXCEPT ![p] = NoOrder]
  /\ pc'  = [pc EXCEPT ![p] = "idle"]
  /\ UNCHANGED <<buffer, head, tail, hd, tl, consumerVars, reserved>>

\* Mutant: only the order that ends an empty ring signals.
Mutant_SignalIfAlone(p) ==
  /\ pc[p] = "signal"
  /\ notify' = (notify \/ tail - head = 1)
  /\ accepted' = accepted \cup {arg[p]}
  /\ arg' = [arg EXCEPT ![p] = NoOrder]
  /\ pc'  = [pc EXCEPT ![p] = "idle"]
  /\ UNCHANGED <<buffer, head, tail, hd, tl, refused, consumerVars, reserved>>

\* Mutant: no order signals.
Mutant_NoSignal(p) ==
  /\ pc[p] = "signal"
  /\ accepted' = accepted \cup {arg[p]}
  /\ arg' = [arg EXCEPT ![p] = NoOrder]
  /\ pc'  = [pc EXCEPT ![p] = "idle"]
  /\ UNCHANGED <<sharedVars, hd, tl, refused, consumerVars, reserved>>

\* Non-blocking send on notify: a signal already pending absorbs this one.
EnqueueSignal(p) ==
  /\ pc[p] = "signal"
  /\ notify' = TRUE
  /\ accepted' = accepted \cup {arg[p]}
  /\ arg' = [arg EXCEPT ![p] = NoOrder]
  /\ pc'  = [pc EXCEPT ![p] = "idle"]
  /\ UNCHANGED <<buffer, head, tail, hd, tl, refused, consumerVars, reserved>>

EnqueueStep(p) ==
  \/ EnqueueLoadHead(p) \/ EnqueueLoadTail(p) \/ EnqueueRefuse(p)
  \/ EnqueueReserve(p) \/ EnqueueLost(p) \/ EnqueuePublish(p) \/ EnqueueSignal(p)
-----------------------------------------------------------------------------
(***************************************************************************)
(* The consumer: Drain, DrainStalled and the notify channel.  Only the     *)
(* consumer writes head, so its own head.Load adds no interleaving.        *)
(***************************************************************************)
DrainCall ==
  /\ cpc = "idle"
  /\ cTail' = tail
  /\ cpc' = "swap"
  /\ UNCHANGED <<sharedVars, producerVars, got, delivered, reserved>>

NextPos == head + Len(got)

\* Swap(nil) finds a published order and collects it.
DrainCollect ==
  /\ cpc = "swap"
  /\ NextPos < cTail
  /\ buffer[Slot(NextPos)] # NoOrder
  /\ got' = Append(got, buffer[Slot(NextPos)])
  /\ buffer' = [buffer EXCEPT ![Slot(NextPos)] = NoOrder]
  /\ UNCHANGED <<head, tail, notify, producerVars, cpc, cTail, delivered, reserved>>

\* Mutant: Drain moves head over the whole range it set out to drain.
Mutant_DrainSkips ==
  /\ cpc = "swap"
  /\ NextPos < cTail => buffer[Slot(NextPos)] = NoOrder
  /\ head' = cTail
  /\ delivered' = delivered \o got
  /\ got' = << >>
  /\ cpc' = "idle"
  /\ UNCHANGED <<buffer, tail, notify, producerVars, cTail, reserved>>

\* Either every position up to the loaded tail is collected, or the spin
\* budget runs out on a slot that still reads nil: head advances past the
\* collected orders only, and they are returned.
DrainReturn ==
  /\ cpc = "swap"
  /\ NextPos < cTail => buffer[Slot(NextPos)] = NoOrder
  /\ head' = NextPos
  /\ delivered' = delivered \o got
  /\ got' = << >>
  /\ cpc' = "idle"
  /\ UNCHANGED <<buffer, tail, notify, producerVars, cTail, reserved>>

\* What DrainStalled answers when its loads of tail and of the slot meet.
DrainStalled == tail > head /\ buffer[Slot(head)] = NoOrder

\* The consumer receives from the notify channel.
ReceiveNotify ==
  /\ cpc = "idle"
  /\ notify
  /\ notify' = FALSE
  /\ UNCHANGED <<buffer, head, tail, producerVars, consumerVars, reserved>>

ConsumerStep == DrainCall \/ DrainCollect \/ DrainReturn \/ ReceiveNotify

RingNext ==
  \/ \E p \in Producers, o \in Orders : EnqueueCall(p, o)
  \/ \E p \in Producers : EnqueueStep(p)
  \/ ConsumerStep

RingSpec == RingInit /\ [][RingNext]_ringVars
-----------------------------------------------------------------------------
(***************************************************************************)
(* Properties.                                                             *)
(***************************************************************************)
TypeOK ==
  /\ buffer \in [0..Cap-1 -> Orders \cup {NoOrder}]
  /\ head \in Nat /\ tail \in Nat /\ cTail \in Nat
  /\ notify \in BOOLEAN
  /\ pc \in [Producers -> {"idle", "loadHead", "loadTail", "cas", "store", "signal"}]
  /\ arg \in [Producers -> Orders \cup {NoOrder}]
  /\ \A p \in Producers : pc[p] # "idle" => arg[p] \in Orders
  /\ hd \in [Producers -> Nat] /\ tl \in [Producers -> Nat]
  /\ cpc \in {"idle", "swap"}
  /\ got \in Seq(Orders)
  /\ accepted \subseteq Orders /\ refused \subseteq Orders
  /\ reserved \in Seq(Orders) /\ delivered \in Seq(Orders)

\* Producer p holds position x: reserved by it, not published yet.
Holds(p, x) == pc[p] = "store" /\ tl[p] = x

(***************************************************************************)
(* Drain hands the engine exactly the reserved orders, each once and in    *)
(* reservation order: a slow producer's order is neither skipped nor       *)
(* overtaken (ringbuffer.go: "Orders are never skipped").                  *)
(***************************************************************************)
DeliveredInOrder ==
  /\ Len(delivered) <= Len(reserved)
  /\ \A i \in 1..Len(delivered) : delivered[i] = reserved[i]

(***************************************************************************)
(* A producer about to publish finds its slot empty: the ring never laps   *)
(* an order the consumer has not collected, and no two producers own the   *)
(* same slot.                                                              *)
(***************************************************************************)
NoOverwrite ==
  \A p \in Producers : pc[p] = "store" =>
    /\ buffer[Slot(tl[p])] = NoOrder
    /\ \A q \in Producers \ {p} : pc[q] = "store" => Slot(tl[q]) # Slot(tl[p])

(***************************************************************************)
(* An order whose Enqueue returned true is in the engine's hands or in a   *)
(* slot the consumer will reach; one that was refused is in neither, so a  *)
(* client told "busy" can submit again without trading twice.              *)
(***************************************************************************)
AnswerIsTrue ==
  /\ \A o \in accepted :
       \/ \E i \in 1..Len(delivered) : delivered[i] = o
       \/ \E i \in 1..Len(got) : got[i] = o
       \/ \E x \in NextPos..tail-1 : buffer[Slot(x)] = o
  /\ \A o \in refused : \A i \in 1..Len(reserved) : reserved[i] # o

\* The ring buffer is the bounded FIFO queue of OrderQueue.
Queue == INSTANCE OrderQueue
           WITH Limit <- mask, enqueued <- reserved, dequeued <- delivered
ImplementsQueue == Queue!QueueSpec
-----------------------------------------------------------------------------
(***************************************************************************)
(* The inductive invariant behind the properties above.                    *)
(***************************************************************************)
\* Positions between what the consumer has collected and the reservations.
Pending == NextPos..tail-1

\* The cursors count the orders, and a stale cursor is only ever behind.
CursorsInv ==
  /\ head = Len(delivered) /\ tail = Len(reserved)
  /\ tail - head <= mask
  /\ NextPos <= tail
  /\ cpc = "idle" => got = << >>
  /\ cpc = "swap" => NextPos <= cTail /\ cTail <= tail
  /\ \A p \in Producers : hd[p] <= head
  /\ \A p \in Producers : pc[p] = "cas" => tl[p] <= tail /\ tl[p] - hd[p] < mask

\* What left the ring left it in reservation order.
CollectedInv ==
  /\ \A i \in 1..Len(delivered) : delivered[i] = reserved[i]
  /\ \A i \in 1..Len(got) : got[i] = reserved[head + i]

\* Each unpublished slot is pending and has one holder.
HoldersInv ==
  \A p \in Producers : pc[p] = "store" =>
    /\ tl[p] \in Pending
    /\ reserved[tl[p] + 1] = arg[p]
    /\ \A q \in Producers : pc[q] = "store" /\ tl[q] = tl[p] => q = p

\* A pending slot is published or still held; every other slot is empty.
SlotsInv ==
  /\ \A x \in Pending :
       IF \E p \in Producers : Holds(p, x)
         THEN buffer[Slot(x)] = NoOrder
         ELSE buffer[Slot(x)] = reserved[x + 1]
  /\ \A s \in 0..Cap-1 :
       (\A x \in Pending : Slot(x) # s) => buffer[s] = NoOrder

RingInv == TypeOK /\ CursorsInv /\ CollectedInv /\ HoldersInv /\ SlotsInv
=============================================================================
