------------------------------- MODULE AuditLog -------------------------------
(***************************************************************************)
(* The admin audit trail, internal/audit/log.go: handlers Record entries   *)
(* into a buffered channel, a background loop batches them and writes them *)
(* to the store, and whatever cannot take this way goes to the local log.  *)
(* At shutdown main closes the logger while requests may still be at work: *)
(* Record reads closed, and sends on a channel that may have been closed   *)
(* since.  When Close returns, the process ends.                           *)
(*                                                                         *)
(* A write that times out may still have reached the table: then the entry *)
(* is in both places.                                                      *)
(***************************************************************************)
EXTENDS Integers, Sequences, FiniteSets, SequencesExt

CONSTANTS
  Handlers, EntriesEach,  \* requests at work, entries each records
  ChanBuffer, BatchSize,  \* capacity of the channel (4096), entries of a batch (32)
  Stores                  \* whether there is a store: a subset of BOOLEAN

ASSUME AuditAssumption ==
  ChanBuffer \in Nat \ {0} /\ BatchSize \in Nat \ {0} /\ EntriesEach \in Nat /\ Stores \subseteq BOOLEAN

VARIABLES
  hasStore,
  ch, chOpen,     \* Logger.ch: what is queued, whether it is open
  closedFlag,     \* Logger.closed
  handler,        \* each handler: its step and the entries it has recorded
  flusher,        \* run: its step and its buffer
  closing,        \* Close, called by main: "no", "flagged", "waiting", "returned"
  auditTable, localLog, \* where entries end up
  recorded        \* history: entries whose Record has returned

auditVars == <<hasStore, ch, chOpen, closedFlag, handler, flusher, closing, auditTable, localLog, recorded>>
kept == <<auditTable, localLog>>

Entry(h)      == <<h, handler[h].done>>
Running       == closing # "returned"
LocalLog(e)   == localLog' = localLog \cup {e}

-----------------------------------------------------------------------------
(* Record *)

\* The admin action is done; its entry is built and closed is read.
Record(h) ==
  /\ Running /\ handler[h].step = "idle" /\ handler[h].done < EntriesEach
  /\ IF closedFlag
     THEN /\ LocalLog(Entry(h)) /\ recorded' = recorded \cup {Entry(h)}
          /\ handler' = [handler EXCEPT ![h].done = @ + 1]
     ELSE handler' = [handler EXCEPT ![h].step = "send"] /\ UNCHANGED <<localLog, recorded>>
  /\ UNCHANGED <<hasStore, ch, chOpen, closedFlag, flusher, closing, auditTable>>

\* A full channel, and a channel closed since: the local log, never a block.
Send(h) ==
  /\ Running /\ handler[h].step = "send"
  /\ IF chOpen /\ Len(ch) < ChanBuffer
     THEN ch' = Append(ch, Entry(h)) /\ UNCHANGED localLog
     ELSE LocalLog(Entry(h)) /\ UNCHANGED ch
  /\ recorded' = recorded \cup {Entry(h)}
  /\ handler' = [handler EXCEPT ![h] = [step |-> "idle", done |-> @.done + 1]]
  /\ UNCHANGED <<hasStore, chOpen, closedFlag, flusher, closing, auditTable>>

-----------------------------------------------------------------------------
(* run *)

\* MUTANT for NothingDisappears: a closed channel ends the loop at once.
Mutant_DropRest(buf) == [step |-> "over", buf |-> buf]
\* Closed and drained: what is buffered is written, then the loop ends.
LastFlush(buf) == [step |-> "last", buf |-> buf]

Receive ==
  /\ Running /\ flusher.step = "wait"
  /\ IF ch # <<>>
     THEN /\ ch' = Tail(ch)
          /\ LET buf == Append(flusher.buf, Head(ch)) IN
             flusher' = [step |-> IF Len(buf) >= BatchSize THEN "flush" ELSE "wait", buf |-> buf]
     ELSE ~chOpen /\ ch' = ch /\ flusher' = LastFlush(flusher.buf)
  /\ UNCHANGED <<hasStore, chOpen, closedFlag, handler, closing, kept, recorded>>

FlushTick ==
  /\ Running /\ flusher.step = "wait" /\ flusher.buf # <<>>
  /\ flusher' = [flusher EXCEPT !.step = "flush"]
  /\ UNCHANGED <<hasStore, ch, chOpen, closedFlag, handler, closing, kept, recorded>>

\* One entry after the other; a failing write goes to the local log, a write
\* that timed out perhaps to both.
Write ==
  /\ Running /\ flusher.step \in {"flush", "last"} /\ flusher.buf # <<>>
  /\ LET e == Head(flusher.buf) IN
     \/ hasStore /\ auditTable' = auditTable \cup {e} /\ UNCHANGED localLog
     \/ LocalLog(e) /\ UNCHANGED auditTable
     \/ hasStore /\ LocalLog(e) /\ auditTable' = auditTable \cup {e}
  /\ flusher' = [flusher EXCEPT !.buf = Tail(@)]
  /\ UNCHANGED <<hasStore, ch, chOpen, closedFlag, handler, closing, recorded>>

FlushEnds ==
  /\ Running /\ flusher.step \in {"flush", "last"} /\ flusher.buf = <<>>
  /\ flusher' = [flusher EXCEPT !.step = IF flusher.step = "last" THEN "over" ELSE "wait"]
  /\ UNCHANGED <<hasStore, ch, chOpen, closedFlag, handler, closing, kept, recorded>>

-----------------------------------------------------------------------------
(* Close: the flag, the channel, and the wait for the loop *)

CloseFlags ==
  /\ closing = "no" /\ closing' = "flagged" /\ closedFlag' = TRUE
  /\ UNCHANGED <<hasStore, ch, chOpen, handler, flusher, kept, recorded>>

CloseChannel ==
  /\ closing = "flagged" /\ closing' = "waiting" /\ chOpen' = FALSE
  /\ UNCHANGED <<hasStore, ch, closedFlag, handler, flusher, kept, recorded>>

CloseReturns ==
  /\ closing = "waiting" /\ flusher.step = "over" /\ closing' = "returned"
  /\ UNCHANGED <<hasStore, ch, chOpen, closedFlag, handler, flusher, kept, recorded>>

AuditInit ==
  /\ hasStore \in Stores
  /\ ch = <<>> /\ chOpen = TRUE /\ closedFlag = FALSE
  /\ handler = [h \in Handlers |-> [step |-> "idle", done |-> 0]]
  /\ flusher = [step |-> "wait", buf |-> <<>>]
  /\ closing = "no"
  /\ auditTable = {} /\ localLog = {} /\ recorded = {}

AuditNext ==
  \/ \E h \in Handlers : Record(h) \/ Send(h)
  \/ Receive \/ FlushTick \/ Write \/ FlushEnds
  \/ CloseFlags \/ CloseChannel \/ CloseReturns

AuditSpec == AuditInit /\ [][AuditNext]_auditVars

-----------------------------------------------------------------------------
(* Properties *)

\* "So no admin action silently disappears": an entry whose Record has returned
\* is on its way, in the table or in the local log - in one of the last two
\* when Close has returned and the process ends - however Record, the flush
\* loop, failing writes and Close overlap.
NothingDisappears ==
  \A e \in recorded :
    \/ e \in auditTable \cup localLog
    \/ Running /\ e \in Range(ch) \cup Range(flusher.buf)
===============================================================================
