----------------------------- MODULE EngineLoop -----------------------------
(***************************************************************************)
(* One matching engine's goroutine (internal/matching/engine.go, run) with *)
(* the callers around it: producers in SubmitOrder and SubmitOrderSync,    *)
(* users in Cancel, and Stop.  It composes the inbound ring buffer of      *)
(* MPRingBuffer, step for step, with the bounded cancels channel and the   *)
(* done channel.                                                           *)
(*                                                                         *)
(* What processing an order or a cancel does to the book is the subject of *)
(* MatchingEngine; here it matters that a caller is answered, and not      *)
(* which order a cancel names or what the answer says (cancelled, not      *)
(* found, or a failed write-ahead-log append).                             *)
(***************************************************************************)
EXTENDS MPRingBuffer

CONSTANTS Users,        \* goroutines calling Cancel, over and over
          CancelCap,    \* capacity of the cancels channel (1024)
          SyncOrders,   \* orders submitted through SubmitOrderSync
          BadOrders     \* orders whose Quantity is nil or not positive

ASSUME CancelCapAssumption == CancelCap \in Nat \ {0}
ASSUME OrderKinds == SyncOrders \subseteq Orders /\ BadOrders \subseteq Orders

VARIABLES
  lpc,         \* where the run loop is
  batch,       \* the drained orders still to process
  cancels,     \* the cancels channel and its blocked senders, by user
  stopped,     \* the done channel is closed
  cst,         \* where each user is inside Cancel
  resp,        \* whether the response channel of each user's cancelOp is full
  syncWait,    \* the order a producer awaits in SubmitOrderSync
  doneClosed,  \* orders whose done channel the engine closed
  processed    \* history: orders handed to processOrder, in order

loopVars  == <<lpc, batch>>
callVars  == <<cst, resp, cancels>>
stateVars == <<doneClosed, processed>>
engineVars == <<ringVars, loopVars, callVars, stopped, syncWait, stateVars>>

EngineInit ==
  /\ RingInit
  /\ lpc = "poll" /\ batch = << >>
  /\ cancels = << >> /\ stopped = FALSE
  /\ cst = [u \in Users |-> "idle"]
  /\ resp = [u \in Users |-> FALSE]
  /\ syncWait = [p \in Producers |-> NoOrder]
  /\ doneClosed = {} /\ processed = << >>
-----------------------------------------------------------------------------
(***************************************************************************)
(* Submitting: SubmitOrder is Enqueue; SubmitOrderSync then waits for the  *)
(* order's done channel or for the engine's.                               *)
(***************************************************************************)
Submit(p, o) ==
  /\ syncWait[p] = NoOrder
  /\ EnqueueCall(p, o)
  /\ UNCHANGED <<loopVars, callVars, stopped, syncWait, stateVars>>

\* The end of a successful Enqueue.
SubmitAccepted(p) ==
  /\ EnqueueSignal(p)
  /\ syncWait' = IF arg[p] \in SyncOrders
                   THEN [syncWait EXCEPT ![p] = arg[p]] ELSE syncWait
  /\ UNCHANGED <<loopVars, callVars, stopped, stateVars>>

SubmitStep(p) ==
  \/ /\ \/ EnqueueLoadHead(p) \/ EnqueueLoadTail(p) \/ EnqueueRefuse(p)
        \/ EnqueueReserve(p) \/ EnqueueLost(p) \/ EnqueuePublish(p)
     /\ UNCHANGED <<loopVars, callVars, stopped, syncWait, stateVars>>
  \/ SubmitAccepted(p)

\* SubmitOrderSync returns: the order's outcome, or ErrEngineStopped.
SyncReturn(p) ==
  /\ syncWait[p] # NoOrder
  /\ syncWait[p] \in doneClosed \/ stopped
  /\ syncWait' = [syncWait EXCEPT ![p] = NoOrder]
  /\ UNCHANGED <<ringVars, loopVars, callVars, stopped, stateVars>>
-----------------------------------------------------------------------------
(***************************************************************************)
(* Cancelling: Cancel sends its op and waits for the answer, giving up     *)
(* when the engine stops.  A Go channel serves blocked senders in the      *)
(* order they came, so the channel and the senders that wait for room in   *)
(* it are one queue: its first CancelCap entries are the channel's buffer. *)
(***************************************************************************)
CancelCall(u) ==
  /\ cst[u] = "idle"
  /\ cst' = [cst EXCEPT ![u] = "wait"]
  /\ cancels' = Append(cancels, u)
  /\ UNCHANGED <<ringVars, loopVars, stopped, resp, syncWait, stateVars>>

\* The answer arrives.
CancelReturn(u) ==
  /\ cst[u] = "wait" /\ resp[u]
  /\ cst' = [cst EXCEPT ![u] = IF stopped THEN "gone" ELSE "idle"]
  /\ resp' = [resp EXCEPT ![u] = FALSE]
  /\ UNCHANGED <<ringVars, loopVars, cancels, stopped, syncWait, stateVars>>

\* The engine stops first.  An op already in the channel stays there for a loop
\* that no longer reads it; one that still waits for room is withdrawn.
InChannel(u) == \E i \in 1..Len(cancels) : i <= CancelCap /\ cancels[i] = u
CancelGivesUp(u) ==
  /\ cst[u] = "wait" /\ stopped
  /\ cst' = [cst EXCEPT ![u] = "gone"]
  /\ cancels' = IF InChannel(u) THEN cancels ELSE SelectSeq(cancels, LAMBDA v : v # u)
  /\ UNCHANGED <<ringVars, loopVars, stopped, resp, syncWait, stateVars>>

\* Stop closes done.
Stop ==
  /\ ~stopped
  /\ stopped' = TRUE
  /\ UNCHANGED <<ringVars, loopVars, callVars, syncWait, stateVars>>
-----------------------------------------------------------------------------
(***************************************************************************)
(* The run loop.                                                           *)
(***************************************************************************)
\* processCancel on the oldest op of the channel; the loop goes on polling.
ProcessCancel ==
  /\ cancels # << >>
  /\ resp' = [resp EXCEPT ![Head(cancels)] = TRUE]
  /\ cancels' = Tail(cancels)
  /\ lpc' = "poll"
  /\ UNCHANGED <<ringVars, batch, cst, stopped, syncWait, stateVars>>

ExitLoop ==
  /\ stopped
  /\ lpc' = "exit"
  /\ UNCHANGED <<ringVars, batch, callVars, stopped, syncWait, stateVars>>

\* The select at the top of the loop: a closed done, a queued cancel, or - only
\* when neither is ready - the default, which starts a Drain.
PollStop   == lpc = "poll" /\ ExitLoop
PollCancel == lpc = "poll" /\ ProcessCancel
PollDefault ==
  /\ lpc = "poll" /\ ~stopped /\ cancels = << >>
  /\ DrainCall
  /\ lpc' = "drain"
  /\ UNCHANGED <<batch, callVars, stopped, syncWait, stateVars>>

Collect ==
  /\ lpc = "drain"
  /\ DrainCollect
  /\ UNCHANGED <<loopVars, callVars, stopped, syncWait, stateVars>>

Drained ==
  /\ lpc = "drain"
  /\ DrainReturn
  /\ batch' = got
  /\ lpc' = IF got = << >> THEN "stalledTail" ELSE "process"
  /\ UNCHANGED <<callVars, stopped, syncWait, stateVars>>

\* processOrder on the next drained order, then triggerStops after the last.
\* A failed append rejects the order; so does a quantity that is not positive,
\* but that return leaves the order's done channel open.
ProcessOrder ==
  /\ lpc = "process"
  /\ LET o == Head(batch)
     IN  /\ processed' = Append(processed, o)
         /\ \/ doneClosed' = doneClosed \cup ({o} \cap SyncOrders)
            \/ o \in BadOrders /\ UNCHANGED doneClosed
  /\ batch' = Tail(batch)
  /\ lpc' = IF Len(batch) = 1 THEN "poll" ELSE "process"
  /\ UNCHANGED <<ringVars, callVars, stopped, syncWait>>

\* DrainStalled: the load of tail, then the load of the slot.  A stall sleeps
\* drainStallYield and starts over.
StalledTail ==
  /\ lpc = "stalledTail"
  /\ lpc' = IF tail > head THEN "stalledSlot" ELSE "block"
  /\ UNCHANGED <<ringVars, batch, callVars, stopped, syncWait, stateVars>>

StalledSlot ==
  /\ lpc = "stalledSlot"
  /\ lpc' = IF buffer[Slot(head)] = NoOrder THEN "poll" ELSE "block"
  /\ UNCHANGED <<ringVars, batch, callVars, stopped, syncWait, stateVars>>

\* Mutant: the blocking select does not listen to done.
Mutant_BlockIgnoresStop == FALSE

\* The blocking select.
BlockStop   == lpc = "block" /\ ExitLoop
BlockCancel == lpc = "block" /\ ProcessCancel
BlockNotify ==
  /\ lpc = "block"
  /\ ReceiveNotify
  /\ lpc' = "poll"
  /\ UNCHANGED <<batch, callVars, stopped, syncWait, stateVars>>
BlockIdleTimeout ==
  /\ lpc = "block"
  /\ lpc' = "poll"
  /\ UNCHANGED <<ringVars, batch, callVars, stopped, syncWait, stateVars>>

\* Everything the loop does without the help of the idle timer.
LoopStep ==
  \/ PollStop \/ PollCancel \/ PollDefault \/ Collect \/ Drained \/ ProcessOrder
  \/ StalledTail \/ StalledSlot \/ BlockStop \/ BlockCancel \/ BlockNotify

EngineNext ==
  \/ \E p \in Producers, o \in Orders : Submit(p, o)
  \/ \E p \in Producers : SubmitStep(p) \/ SyncReturn(p)
  \/ \E u \in Users : CancelCall(u) \/ CancelReturn(u) \/ CancelGivesUp(u)
  \/ Stop \/ LoopStep \/ BlockIdleTimeout

EngineSpec == EngineInit /\ [][EngineNext]_engineVars
-----------------------------------------------------------------------------
(***************************************************************************)
(* Fairness.  Every goroutine that can run eventually runs.  The idle      *)
(* timer and the return of SubmitOrderSync are given none, so that what is *)
(* shown does not lean on them.  The pseudo-random select cannot pass over *)
(* a closed done for ever.  No caller is obliged to call, nor anyone to    *)
(* stop the engine.                                                        *)
(***************************************************************************)
EngineFairness ==
  /\ \A p \in Producers : WF_engineVars(SubmitStep(p))
  /\ \A u \in Users : WF_engineVars(CancelReturn(u) \/ CancelGivesUp(u))
  /\ WF_engineVars(LoopStep)
  /\ SF_engineVars(PollStop \/ BlockStop)

FairEngineSpec == EngineSpec /\ EngineFairness
-----------------------------------------------------------------------------
(***************************************************************************)
(* Properties.                                                             *)
(***************************************************************************)
(***************************************************************************)
(* No lost wake-up: when the loop sleeps while an order waits in the ring, *)
(* a signal is pending or the producer that owes one is still on its way   *)
(* to send it (ringbuffer.go: "a single pending signal guarantees the      *)
(* consumer will wake and drain everything").                              *)
(***************************************************************************)
NoLostWakeup ==
  lpc = "block" /\ tail > head =>
    notify \/ \E p \in Producers : pc[p] \in {"store", "signal"}

(***************************************************************************)
(* The engine works off the orders in the order their slots were reserved, *)
(* and never has one in hand that is neither processed nor in its batch.   *)
(***************************************************************************)
ProcessedInOrder == processed \o batch = delivered

(***************************************************************************)
(* The backlog of accepted orders is worked off unless the engine is       *)
(* stopped, without any help from the idle timer (engine.go: "It only      *)
(* guards against lost signals").  Cancels have priority, so a stream that *)
(* never pauses may hold orders back for ever: the formula lets the        *)
(* backlog stay as long as a cancel is under way again and again, which is *)
(* no weaker than assuming that cancels come to an end.                    *)
(***************************************************************************)
CancelUnderWay == \E u \in Users : cst[u] = "wait"
Backlog == \E o \in accepted : \A i \in 1..Len(processed) : processed[i] # o
BacklogIsProcessed == Backlog ~> (~Backlog \/ stopped \/ CancelUnderWay)

\* Cancel never hangs: it is answered, or the engine's stop releases it, even
\* when more users cancel at once than the channel has room for.
CancelReturns == \A u \in Users : cst[u] = "wait" ~> cst[u] \in {"idle", "gone"}

\* Stop ends the loop, whatever keeps arriving.
StopEnds == stopped ~> lpc = "exit"

\* No accepted order is overlooked while the loop sleeps, nor taken out of turn.
IntakeSound == NoLostWakeup /\ ProcessedInOrder

\* Every call that waits for the loop returns, and the loop itself ends.
CallsReturn == CancelReturns /\ StopEnds
=============================================================================
