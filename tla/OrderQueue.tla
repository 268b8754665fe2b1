----------------------------- MODULE OrderQueue -----------------------------
(***************************************************************************)
(* What the inbound buffer of a matching engine promises, with no slots,   *)
(* cursors or signals in sight: a bounded first-in first-out queue.        *)
(* enqueued is every order the queue ever took in, in arrival order;       *)
(* dequeued is what the matching loop was handed.  MPRingBuffer implements *)
(* this specification.                                                     *)
(***************************************************************************)
EXTENDS Naturals, Sequences

CONSTANTS Orders,   \* the orders clients may submit
          Limit     \* how many orders may wait at once

VARIABLES enqueued, dequeued

queueVars == <<enqueued, dequeued>>

Waiting == Len(enqueued) - Len(dequeued)

QueueInit ==
  /\ enqueued = << >>
  /\ dequeued = << >>

\* An order joins the queue if there is room for it.
Put(o) ==
  /\ Waiting < Limit
  /\ enqueued' = Append(enqueued, o)
  /\ UNCHANGED dequeued

\* The consumer takes the n oldest waiting orders, all of them in order.
Take(n) ==
  /\ Len(dequeued) + n <= Len(enqueued)
  /\ dequeued' = SubSeq(enqueued, 1, Len(dequeued) + n)
  /\ UNCHANGED enqueued

QueueNext ==
  \/ \E o \in Orders : Put(o)
  \/ \E n \in 1..Waiting : Take(n)

QueueSpec == QueueInit /\ [][QueueNext]_queueVars
=============================================================================
