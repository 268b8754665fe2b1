--------------------------- MODULE EngineRecovery ---------------------------
(***************************************************************************)
(* Durability of one matching engine: the write-ahead log (internal/       *)
(* matching/wal.go), the snapshots taken while the engine runs             *)
(* (snapshot.go) and recovery at start-up (exchange.go, recoverPair).      *)
(*                                                                         *)
(* An operation is an order or a cancel, numbered in the order the engine  *)
(* takes it in.  What it does to the book is left to MatchingEngine: here  *)
(* the book is the sequence of operations applied to it, and the time      *)
(* priority (bookSeq, orderbook.go) of each, which a snapshot does not     *)
(* hold: it is made anew from the times the orders were created.  These    *)
(* are the times of the requests, and an order may be made while another,  *)
(* taken in before it, waits: made[n] = k says that operation n was made   *)
(* behind the record of k - 1 and before that of k.  The clock runs        *)
(* forward.                                                                *)
(*                                                                         *)
(* The file is a sequence of lines.  A crash may cut the last line when    *)
(* the disk had not made it durable; the next append then continues that   *)
(* very line.                                                              *)
(***************************************************************************)
EXTENDS Integers, Sequences, FiniteSets

CONSTANTS
  SyncModes,    \* values of WAL_SYNC_EVERY: fsync after so many records
  TimedSync,    \* WAL_SYNC_INTERVAL_MS is set: fsync earlier when it has passed
  Faults,       \* which of "write", "short", "fsync", "power" may happen
  Workloads,    \* when each operation was made, and which are stop orders
  MaxOps,       \* bound: operations taken in
  MaxCrashes,   \* bound: crashes
  MaxSnapshots  \* bound: snapshots started

ASSUME SyncAssumption  == SyncModes \subseteq Nat \ {0} /\ TimedSync \in BOOLEAN
ASSUME BoundAssumption == MaxOps \in Nat /\ MaxCrashes \in Nat /\ MaxSnapshots \in Nat
ASSUME FaultAssumption == Faults \subseteq {"write", "short", "fsync", "power"}
ASSUME WorkAssumption  ==
  \A w \in Workloads : /\ w.made \in [1..MaxOps -> Nat \ {0}] /\ \A n \in 1..MaxOps : w.made[n] <= n
                       /\ w.stops \subseteq 1..MaxOps

VARIABLES
  syncEvery, \* the setting this deployment runs with
  up,        \* the engine runs
  seq,       \* the writer's sequence number
  broken,    \* the buffered writer holds an error, which it never forgets
  pending,   \* records since the last fsync
  file,      \* the log: lines
  synced,    \* how many lines are known to be on disk
  taken,     \* how many operations the engine took in
  step,      \* the one in hand: "none", "written" or "journaled"
  book,      \* the operations the book reflects
  work,      \* the workload
  bookSeq,   \* the time priority of each operation in the book, 0 for none
  seqNo,     \* the last priority given
  parked,    \* stop orders that wait for their price
  replayed,  \* orders made anew from their records, with the records' times
  applied,   \* operations applied, and so answered, at some time
  rejected,  \* operations rejected because they could not be journaled
  snap,      \* the snapshot on disk: last WAL sequence number, book and what is known of its orders
  taking,    \* the snapshot being taken
  faulted,   \* history: the kinds of fault that happened; "whole" is a short write that lacks the newline only
  crashes, snapshots

walVars  == <<seq, broken, pending, file, synced>>
timeVars == <<bookSeq, seqNo, parked, replayed>>
snapVars == <<snap, taking, snapshots>>
vars == <<syncEvery, work, up, walVars, taken, step, book, timeVars, applied, rejected, snapVars, faulted, crashes>>

\* A line is a record, a line cut short ("cut"), a record that lacks only its
\* newline ("bare"), or garbage.
Line(kind, n, op) == [kind |-> kind, seq |-> n, op |-> op]
Empty     == [seq |-> 0, book |-> << >>, seqNo |-> 0, parked |-> {}, replayed |-> {}]
NotTaking == [at |-> "none", of |-> Empty]

Init ==
  /\ syncEvery \in SyncModes
  /\ up = TRUE /\ seq = 0 /\ broken = FALSE /\ pending = 0
  /\ file = << >> /\ synced = 0
  /\ taken = 0 /\ step = "none" /\ book = << >> /\ applied = {} /\ rejected = {}
  /\ work \in Workloads
  /\ bookSeq = [n \in 1..MaxOps |-> 0] /\ seqNo = 0 /\ parked = {} /\ replayed = {}
  /\ snap = Empty /\ taking = NotTaking
  /\ faulted = {} /\ crashes = 0 /\ snapshots = 0
-----------------------------------------------------------------------------
(***************************************************************************)
(* The log.                                                                *)
(***************************************************************************)
Parses(l) == l.kind \in {"record", "bare"}
Unended(l) == l.kind \in {"cut", "bare"}

\* The bytes of l go to the end of f: behind a line without its newline they
\* spoil it.
AppendLine(f, l) ==
  IF f # << >> /\ Unended(f[Len(f)])
    THEN Append(SubSeq(f, 1, Len(f) - 1), Line(IF Unended(l) THEN "cut" ELSE "garbage", 0, 0))
    ELSE Append(f, l)

\* The positions of the lines that parse, and what is journaled at some of them.
Records(f) == {i \in DOMAIN f : Parses(f[i])}
Sorted(S) == [k \in 1..Cardinality(S) |-> CHOOSE i \in S : Cardinality({j \in S : j < i}) = k - 1]
Ops(f, S) == [k \in 1..Cardinality(S) |-> f[Sorted(S)[k]].op]

Reject ==
  /\ rejected' = rejected \cup {taken'}
  /\ step' = "none"
  /\ UNCHANGED <<up, book, timeVars, applied, snapVars, crashes>>

\* The engine takes in an operation; append gives it a sequence number.
TakeIn ==
  /\ up /\ step = "none" /\ taken < MaxOps
  /\ taken' = taken + 1
  /\ seq' = seq + 1

\* The record is written and flushed out of the buffer.
AppendWrite ==
  /\ TakeIn /\ ~broken
  /\ file' = AppendLine(file, Line("record", seq + 1, taken + 1))
  /\ pending' = pending + 1
  /\ step' = "written"
  /\ UNCHANGED <<up, broken, synced, book, timeVars, applied, rejected, snapVars, faulted, crashes>>

\* The write or the flush fails, perhaps having written part of the line - all
\* of it but the newline, even - and goes on failing.
AppendFails ==
  /\ TakeIn
  /\ \/ broken /\ UNCHANGED <<file, faulted>>
     \/ /\ ~broken /\ "write" \in Faults
        /\ faulted' = faulted \cup {"write"}
        /\ UNCHANGED file
     \/ /\ ~broken /\ "short" \in Faults
        /\ \/ /\ file' = AppendLine(file, Line("cut", 0, 0))
              /\ faulted' = faulted \cup {"short"}
           \/ /\ file' = AppendLine(file, Line("bare", seq + 1, taken + 1))
              /\ faulted' = faulted \cup {"short", "whole"}
  /\ broken' = TRUE
  /\ UNCHANGED <<pending, synced>>
  /\ Reject

\* maybeSyncLocked: not due yet, done, or failed.  A failed fsync rejects the
\* operation, whose record stays in the file.
AppendUnsynced ==
  /\ step = "written"
  /\ pending < syncEvery
  /\ step' = "journaled"
  /\ UNCHANGED <<up, walVars, taken, book, timeVars, applied, rejected, snapVars, faulted, crashes>>

\* Mutant: the file is not fsynced.
Mutant_NeverSynced ==
  /\ step = "written"
  /\ pending >= syncEvery \/ TimedSync
  /\ pending' = 0
  /\ step' = "journaled"
  /\ UNCHANGED <<up, seq, broken, file, synced, taken, book, timeVars, applied, rejected, snapVars, faulted, crashes>>

AppendSynced ==
  /\ step = "written"
  /\ pending >= syncEvery \/ TimedSync
  /\ pending' = 0
  /\ synced' = Len(file)
  /\ step' = "journaled"
  /\ UNCHANGED <<up, seq, broken, file, taken, book, timeVars, applied, rejected, snapVars, faulted, crashes>>

SyncFails ==
  /\ step = "written"
  /\ pending >= syncEvery \/ TimedSync
  /\ "fsync" \in Faults
  /\ faulted' = faulted \cup {"fsync"}
  /\ pending' = 0
  /\ UNCHANGED <<seq, broken, file, synced, taken>>
  /\ Reject

\* The operation is applied to the book under its lock, and answered.  A stop
\* order has its priority from then on, whether it is parked or not.
Apply ==
  /\ step = "journaled"
  /\ book' = Append(book, taken)
  /\ bookSeq' = [bookSeq EXCEPT ![taken] = seqNo + 1] /\ seqNo' = seqNo + 1
  /\ parked' = parked \/ (taken \in work.stops /\ parked' = parked \cup {taken})
  /\ applied' = applied \cup {taken}
  /\ step' = "none"
  /\ UNCHANGED <<up, walVars, taken, replayed, rejected, snapVars, faulted, crashes>>

\* The price sets off some stop orders, in the order of their list; one that
\* was restored has no priority yet.
TriggerStops ==
  /\ up /\ step = "none"
  /\ \E S \in SUBSET parked \ {{}} :
       /\ bookSeq' = [n \in 1..MaxOps |-> IF n \in S /\ bookSeq[n] = 0 THEN seqNo + Cardinality({m \in S : m <= n})
                                         ELSE bookSeq[n]]
       /\ seqNo' = seqNo + Cardinality(S)
       /\ parked' = parked \ S
  /\ UNCHANGED <<up, walVars, taken, step, book, replayed, applied, rejected, snapVars, faulted, crashes>>
-----------------------------------------------------------------------------
(***************************************************************************)
(* Snapshots, taken by a ticker or an administrator while the engine runs: *)
(* the log's sequence number first, then the book, then the file is        *)
(* renamed into place.                                                     *)
(***************************************************************************)
SnapshotSeq ==
  /\ up /\ taking.at = "none" /\ snapshots < MaxSnapshots
  /\ taking' = [at |-> "seqRead", of |-> [Empty EXCEPT !.seq = seq]]
  /\ snapshots' = snapshots + 1
  /\ UNCHANGED <<up, walVars, taken, step, book, timeVars, applied, rejected, snap, faulted, crashes>>

SnapshotBook ==
  /\ taking.at = "seqRead"
  /\ taking' = [at |-> "bookRead", of |-> [seq |-> taking.of.seq, book |-> book, seqNo |-> seqNo,
                                          parked |-> parked, replayed |-> replayed]]
  /\ UNCHANGED <<up, walVars, taken, step, book, timeVars, applied, rejected, snap, snapshots, faulted, crashes>>

SnapshotSave ==
  /\ taking.at = "bookRead"
  /\ snap' = taking.of
  /\ taking' = NotTaking
  /\ UNCHANGED <<up, walVars, taken, step, book, timeVars, applied, rejected, snapshots, faulted, crashes>>
-----------------------------------------------------------------------------
(***************************************************************************)
(* Crash and recovery.                                                     *)
(***************************************************************************)
\* What a crash leaves of the log: all of it, or, if the power goes, any part
\* of the lines not known to be on disk.
Survivors ==
  {file} \cup
  IF "power" \notin Faults THEN {}
  ELSE UNION {{SubSeq(file, 1, k), Append(SubSeq(file, 1, k), Line("cut", 0, 0))}
              \cup (IF Parses(file[k + 1])
                     THEN {Append(SubSeq(file, 1, k), [file[k + 1] EXCEPT !.kind = "bare"])}
                     ELSE {}) : k \in synced..(Len(file) - 1)}

Crash ==
  /\ up /\ crashes < MaxCrashes
  /\ up' = FALSE
  /\ file' \in Survivors
  /\ synced' = Len(file')
  /\ step' = "none" /\ taking' = NotTaking /\ book' = << >>
  /\ crashes' = crashes + 1
  /\ faulted' = IF file' = file THEN faulted ELSE faulted \cup {"power"}
  /\ bookSeq' = [n \in 1..MaxOps |-> 0] /\ seqNo' = 0 /\ parked' = {} /\ replayed' = {}
  /\ UNCHANGED <<seq, broken, pending, taken, applied, rejected, snap, snapshots>>

\* replayWAL skips the records up to the snapshot's.
ToReplay(f, n) == {i \in Records(f) : f[i].seq > n}

\* CreatedAt: the time of the request, or that of the record it was replayed from.
CreatedAt(n, anew) == IF n \in anew THEN 2 * n ELSE 2 * work.made[n] - 1

\* Restore sorts the orders by the times they were created, those of one time in
\* any order (Snapshot lists them from a map).
InBookOf(s) == {s.book[i] : i \in DOMAIN s.book}
Priorities(s) ==
  LET resting == InBookOf(s) \ s.parked IN
  {f \in [resting -> 1..Len(s.book)] :
     \A m, n \in resting : /\ f[m] = f[n] => m = n
                           /\ CreatedAt(m, s.replayed) < CreatedAt(n, s.replayed) => f[m] < f[n]}

\* RegisterPair: open the log, counting its records; restore the snapshot;
\* replay what follows it, journaling nothing and setting off no stops.  Stops
\* in the snapshot have lost their priority.
Recover ==
  /\ ~up
  /\ up' = TRUE
  /\ seq' = Cardinality(Records(file))
  /\ broken' = FALSE /\ pending' = 0
  /\ book' = snap.book \o Ops(file, ToReplay(file, snap.seq))
  /\ LET again    == {file[i].op : i \in ToReplay(file, snap.seq)}
         Place(n) == CHOOSE i \in ToReplay(file, snap.seq) : file[i].op = n
     IN  /\ \E f \in Priorities(snap) :
              bookSeq' = [n \in 1..MaxOps |-> IF n \in again THEN snap.seqNo + Place(n) ELSE IF n \in DOMAIN f THEN f[n] ELSE 0]
         /\ seqNo' = snap.seqNo + Len(file)
         /\ \E S \in SUBSET (again \cap work.stops) : parked' = snap.parked \cup S
         /\ replayed' = snap.replayed \cup again
  /\ UNCHANGED <<file, synced, taken, step, applied, rejected, snapVars, faulted, crashes>>

Next ==
  /\ \/ AppendWrite \/ AppendFails \/ AppendUnsynced \/ AppendSynced \/ SyncFails \/ Apply \/ TriggerStops
     \/ SnapshotSeq \/ SnapshotBook \/ SnapshotSave
     \/ Crash \/ Recover
  /\ UNCHANGED <<syncEvery, work>>

Spec == Init /\ [][Next]_vars
-----------------------------------------------------------------------------
(***************************************************************************)
(* Properties.                                                             *)
(***************************************************************************)
RecoveryTypeOK ==
  /\ seq \in Nat /\ taken \in 0..MaxOps /\ pending \in 0..syncEvery
  /\ synced \in 0..Len(file)
  /\ step \in {"none", "written", "journaled"}
  /\ applied \cap rejected = {} /\ applied \cup rejected \subseteq 1..taken

InBook(op) == \E i \in DOMAIN book : book[i] = op

(***************************************************************************)
(* The snapshot on disk reflects exactly the records up to its sequence    *)
(* number (exchange.go, replayWAL: "Records up to and including lastSeq    *)
(* are assumed to be already reflected in the snapshot").  Snapshot reads  *)
(* the number before the book and without holding the engine back, so that *)
(* this is an assumption of the properties below and not one of them.      *)
(***************************************************************************)
Reflected(f, n) == {i \in Records(f) : f[i].seq <= n}
SnapshotExact == snap.book = Ops(file, Reflected(file, snap.seq))

(***************************************************************************)
(* What recovery promises of the operations the engine answered.  Whatever *)
(* fails, the first crash costs none of them when every record is fsynced  *)
(* (wal.go: "fsync after every record (default, the safest mode)"); and no *)
(* number of crashes costs any unless one cut a line short, which swallows *)
(* the record appended behind it.                                          *)
(***************************************************************************)
AppliedSurvives ==
  /\ up /\ SnapshotExact
  /\ (crashes <= 1 /\ syncEvery = 1) \/ faulted \cap {"short", "power"} = {}
  => \A op \in applied : InBook(op)

(***************************************************************************)
(* The book reflects no operation twice, and all of them in the order the  *)
(* engine took them in.  That needs record numbers that grow (NumbersGrow).*)
(***************************************************************************)
OnceInOrder ==
  /\ up /\ SnapshotExact
  /\ crashes <= 1 \/ faulted \cap {"short", "power"} = {}
  => \A i, j \in DOMAIN book : i < j => book[i] < book[j]

(***************************************************************************)
(* An order keeps its place before every order made behind its record,     *)
(* whatever is restored from snapshots, sorted anew and replayed (snapshot.*)
(* go, Restore: "Re-establish FIFO (time) priority").  Orders made while   *)
(* another that was taken in first was not journaled yet may change places *)
(* with it at a restart, and a stop order that was parked loses its own:   *)
(* bookSeq is not in the snapshot.                                         *)
(***************************************************************************)
KeepsPlace ==
  /\ up /\ SnapshotExact
  /\ crashes <= 1 \/ faulted \cap {"short", "power"} = {}
  => \A m, n \in 1..MaxOps :
       /\ InBook(m) /\ InBook(n) /\ work.made[n] > m
       /\ bookSeq[n] # 0 /\ (m \in work.stops => crashes = 0)
       => bookSeq[m] < bookSeq[n]

\* wal.go: "The writer's sequence number is initialised to the number of existing
\* records so Seq() remains monotonic across restarts": it is never below that of
\* a record in the log.  That is not true of every restart: a line cut by a crash
\* swallows the record behind it, and the next count is below the last number.
LogNumbered == up => \A i \in Records(file) : file[i].seq <= seq

\* It is true up to the second crash, or while no line was cut (NewWALWriter).
NumbersGrow == crashes <= 1 \/ faulted \cap {"short", "power"} = {} => LogNumbered

(***************************************************************************)
(* An operation rejected for want of durability is never matched, not even *)
(* after a restart (engine.go: "a rejected-by-durability order is never    *)
(* matched"), unless its record was in the file after all, for it was its  *)
(* fsync or the last byte of it, the newline, that failed: it is replayed. *)
(***************************************************************************)
RejectedStaysOut == faulted \cap {"fsync", "whole"} = {} => \A op \in rejected : ~InBook(op)

\* The engine's answers hold across crashes: what it accepted is there once and
\* in order and keeps its place, what it rejected is not, and numbers grow
\* (Restore, replayWAL, append).
AnswersSurvive == RecoveryTypeOK /\ AppliedSurvives /\ OnceInOrder /\ KeepsPlace /\ NumbersGrow /\ RejectedStaysOut
=============================================================================
