---------------------------- MODULE GatewayProofs ----------------------------
(***************************************************************************)
(* What a gateway keeps up around its requests, for any number of          *)
(* connections, handlers, callers and capacities: the websocket hub's      *)
(* slots, the entries of the audit trail, the end of sessions, what the    *)
(* risk checks remember of earlier orders, and what the limiters let       *)
(* through.                                                                *)
(***************************************************************************)
EXTENDS WebsocketHub, AuditLog, Sessions, OrderRisk, RateLimits, SumTheorems, SequenceTheorems, TLAPS

-----------------------------------------------------------------------------
(***************************************************************************)
(* The hub.  A slot is held by a connection that Register has counted, by  *)
(* one whose registration waits for the Run loop, or by a client.  Only    *)
(* the first may exceed the cap, until it has looked at it again.          *)
(***************************************************************************)
ConnSteps ==
  {"new", "refused", "upgraded", "counted", "registering", "registered", "serving", "leaving", "over"}
ConnsAt(x) == {c \in Conns : conn[c] = x}

HubType ==
  /\ maxConn \in Nat /\ count \in Nat
  /\ clients \in SUBSET Conns /\ conn \in [Conns -> ConnSteps]
  /\ \A c \in clients : conn[c] \in {"registered", "serving", "leaving"}
  /\ IsFiniteSet(clients) /\ IsFiniteSet(ConnsAt("counted")) /\ IsFiniteSet(ConnsAt("registering"))

HubSlots ==
  /\ count = Cardinality(clients) + Cardinality(ConnsAt("counted")) + Cardinality(ConnsAt("registering"))
  /\ maxConn > 0 => Cardinality(clients) + Cardinality(ConnsAt("registering")) <= maxConn

HubInv == HubType /\ HubSlots

\* One member more, one less.
LEMMA OneMore ==
  ASSUME NEW S, IsFiniteSet(S), NEW c, c \notin S
  PROVE  IsFiniteSet(S \cup {c}) /\ Cardinality(S \cup {c}) = Cardinality(S) + 1
  BY FS_AddElement

\* Removing a member counts one down: a client that leaves its pool.
LEMMA OneLess ==
  ASSUME NEW S, IsFiniteSet(S), NEW c \in S
  PROVE  /\ IsFiniteSet(S \ {c}) /\ Cardinality(S \ {c}) = Cardinality(S) - 1
         /\ Cardinality(S) \in Nat \ {0}
<1>1. Cardinality(S) \in Nat /\ (Cardinality(S) = 0 <=> S = {})
  BY FS_CardinalityType, FS_EmptySet
<1> QED
  BY <1>1, FS_RemoveElement

\* A connection that moves on leaves the one place for the other.
LEMMA ConnMoves ==
  ASSUME HubType, NEW c \in Conns, NEW from, NEW to \in ConnSteps, Move(c, from, to), from # to
  PROVE  /\ conn' \in [Conns -> ConnSteps]
         /\ ConnsAt(from)' = ConnsAt(from) \ {c} /\ c \in ConnsAt(from)
         /\ ConnsAt(to)' = ConnsAt(to) \cup {c} /\ c \notin ConnsAt(to)
         /\ \A x : x \notin {from, to} => ConnsAt(x)' = ConnsAt(x)
         /\ \A d \in Conns \ {c} : conn'[d] = conn[d]
         /\ conn'[c] = to
<1>1. conn \in [Conns -> ConnSteps]
  BY DEF HubType
<1>2. conn[c] = from /\ conn' = [conn EXCEPT ![c] = to]
  BY DEF Move
<1>3. \A d \in Conns : conn'[d] = IF d = c THEN to ELSE conn[d]
  BY <1>1, <1>2
<1> QED
  BY <1>1, <1>2, <1>3 DEF ConnsAt

\* No client is connected when the hub starts.
LEMMA HubStart == HubInit => HubInv
<1> SUFFICES ASSUME HubInit PROVE HubInv
  OBVIOUS
<1>1. ConnsAt("counted") = {} /\ ConnsAt("registering") = {} /\ clients = {}
  BY DEF HubInit, ConnsAt
<1>2. IsFiniteSet({}) /\ Cardinality({}) = 0
  BY FS_EmptySet
<1>3. HubType
  BY <1>1, <1>2, HubAssumption DEF HubInit, HubType, ConnSteps
<1>4. HubSlots
  <2>1. maxConn \in Nat /\ count = 0
    BY <1>3 DEF HubInit, HubType
  <2> QED
    BY <1>1, <1>2, <2>1 DEF HubSlots
<1> QED
  BY <1>3, <1>4 DEF HubInv

\* Registering, subscribing, the pumps, evictions and disconnects keep every slot
\* accounted for.
LEMMA HubSteps == HubInv /\ [HubNext]_hubVars => HubInv'
<1> SUFFICES ASSUME HubInv, [HubNext]_hubVars PROVE HubInv'
  OBVIOUS
<1> USE DEF HubInv
<1>1. /\ Cardinality(clients) \in Nat /\ Cardinality(ConnsAt("counted")) \in Nat
      /\ Cardinality(ConnsAt("registering")) \in Nat
  BY FS_CardinalityType DEF HubType
<1>2. CASE UNCHANGED <<maxConn, count, clients, conn>>
  BY <1>2 DEF HubType, HubSlots, ConnsAt
<1>3. ASSUME NEW c \in Conns, Upgrade(c)
      PROVE  HubInv'
  <2>1. PICK to \in {"refused", "upgraded"} : Move(c, "new", to)
    BY <1>3 DEF Upgrade
  <2>2. UNCHANGED <<maxConn, count, clients>>
    BY <1>3 DEF Upgrade, hubOnly
  <2>3. /\ conn' \in [Conns -> ConnSteps]
        /\ ConnsAt("counted")' = ConnsAt("counted") /\ ConnsAt("registering")' = ConnsAt("registering")
        /\ \A d \in Conns \ {c} : conn'[d] = conn[d]
    BY <2>1, ConnMoves DEF ConnSteps
  <2>4. c \notin clients
    BY <2>1 DEF Move, HubType
  <2> QED
    BY <2>2, <2>3, <2>4 DEF HubType, HubSlots
<1>4. ASSUME NEW c \in Conns, RegisterCounts(c)
      PROVE  HubInv'
  <2>1. Move(c, "upgraded", "counted") /\ count' = count + 1 /\ UNCHANGED <<maxConn, clients>>
    BY <1>4 DEF RegisterCounts
  <2>2. /\ conn' \in [Conns -> ConnSteps]
        /\ ConnsAt("counted")' = ConnsAt("counted") \cup {c} /\ c \notin ConnsAt("counted")
        /\ ConnsAt("registering")' = ConnsAt("registering")
        /\ \A d \in Conns \ {c} : conn'[d] = conn[d]
    BY <2>1, ConnMoves DEF ConnSteps
  <2>3. c \notin clients
    BY <2>1 DEF Move, HubType
  <2>4. /\ IsFiniteSet(ConnsAt("counted")')
        /\ Cardinality(ConnsAt("counted")') = Cardinality(ConnsAt("counted")) + 1
    BY <2>2, OneMore DEF HubType
  <2> QED
    BY <1>1, <2>1, <2>2, <2>3, <2>4 DEF HubType, HubSlots
<1>5. ASSUME NEW c \in Conns, RegisterChecks(c)
      PROVE  HubInv'
  <2>1. UNCHANGED <<maxConn, clients>>
    BY <1>5 DEF RegisterChecks
  <2>2. c \notin clients /\ c \in ConnsAt("counted")
    BY <1>5 DEF RegisterChecks, Move, HubType, ConnsAt
  <2>3. /\ IsFiniteSet(ConnsAt("counted") \ {c}) /\ Cardinality(ConnsAt("counted")) \in Nat \ {0}
        /\ Cardinality(ConnsAt("counted") \ {c}) = Cardinality(ConnsAt("counted")) - 1
    BY <2>2, OneLess DEF HubType
  <2>4. CASE Move(c, "counted", "refused") /\ count' = count - 1
    <3>1. /\ conn' \in [Conns -> ConnSteps]
          /\ ConnsAt("counted")' = ConnsAt("counted") \ {c} /\ ConnsAt("registering")' = ConnsAt("registering")
          /\ \A d \in Conns \ {c} : conn'[d] = conn[d]
      BY <2>4, ConnMoves DEF ConnSteps
    <3>2. HubType'
      <4>1. count' \in Nat
        BY <1>1, <2>3, <2>4 DEF HubSlots
      <4> QED
        BY <2>1, <2>2, <2>3, <3>1, <4>1 DEF HubType
    <3>3. HubSlots'
      <4>1. /\ Cardinality(clients)' = Cardinality(clients)
            /\ Cardinality(ConnsAt("counted"))' = Cardinality(ConnsAt("counted")) - 1
            /\ Cardinality(ConnsAt("registering"))' = Cardinality(ConnsAt("registering"))
        BY <2>1, <2>3, <3>1
      <4>2. count \in Nat /\ maxConn \in Nat /\ count' = count - 1 /\ maxConn' = maxConn
        BY <2>1, <2>4 DEF HubType
      <4> QED
        BY <1>1, <2>3, <4>1, <4>2 DEF HubSlots
    <3> QED
      BY <3>2, <3>3
  <2>5. CASE ~(maxConn > 0 /\ count > maxConn) /\ Move(c, "counted", "registering") /\ count' = count
    <3>1. /\ conn' \in [Conns -> ConnSteps]
          /\ ConnsAt("counted")' = ConnsAt("counted") \ {c}
          /\ ConnsAt("registering")' = ConnsAt("registering") \cup {c} /\ c \notin ConnsAt("registering")
          /\ \A d \in Conns \ {c} : conn'[d] = conn[d]
      BY <2>5, ConnMoves DEF ConnSteps
    <3>2. /\ IsFiniteSet(ConnsAt("registering") \cup {c})
          /\ Cardinality(ConnsAt("registering") \cup {c}) = Cardinality(ConnsAt("registering")) + 1
      BY <3>1, OneMore DEF HubType
    <3>3. HubType'
      BY <2>1, <2>2, <2>3, <2>5, <3>1, <3>2 DEF HubType
    <3>4. HubSlots'
      <4>1. /\ Cardinality(clients)' = Cardinality(clients)
            /\ Cardinality(ConnsAt("counted"))' = Cardinality(ConnsAt("counted")) - 1
            /\ Cardinality(ConnsAt("registering"))' = Cardinality(ConnsAt("registering")) + 1
        BY <2>1, <2>3, <3>1, <3>2
      <4>2. count \in Nat /\ maxConn \in Nat /\ count' = count /\ maxConn' = maxConn
        BY <2>1, <2>5 DEF HubType
      <4> QED
        BY <1>1, <2>3, <2>5, <4>1, <4>2 DEF HubSlots
    <3> QED
      BY <3>3, <3>4
  <2> QED
    BY <1>5, <2>4, <2>5 DEF RegisterChecks
<1>6. ASSUME NEW c \in Conns, StartServing(c) \/ ReadError(c)
      PROVE  HubInv'
  <2>1. PICK from \in {"registered", "serving"}, to \in {"serving", "leaving"} :
          Move(c, from, to) /\ from # to
    BY <1>6 DEF StartServing, ReadError
  <2>2. UNCHANGED <<maxConn, count, clients>>
    BY <1>6 DEF StartServing, ReadError, hubOnly
  <2>3. /\ conn' \in [Conns -> ConnSteps] /\ conn'[c] = to
        /\ ConnsAt("counted")' = ConnsAt("counted") /\ ConnsAt("registering")' = ConnsAt("registering")
        /\ \A d \in Conns \ {c} : conn'[d] = conn[d]
    BY <2>1, ConnMoves DEF ConnSteps
  <2> QED
    BY <2>1, <2>2, <2>3 DEF HubType, HubSlots
<1>7. ASSUME NEW c \in Conns, RunRegister(c)
      PROVE  HubInv'
  <2>1. Move(c, "registering", "registered") /\ clients' = clients \cup {c} /\ UNCHANGED <<maxConn, count>>
    BY <1>7 DEF RunRegister
  <2>2. /\ conn' \in [Conns -> ConnSteps] /\ conn'[c] = "registered"
        /\ ConnsAt("registering")' = ConnsAt("registering") \ {c} /\ c \in ConnsAt("registering")
        /\ ConnsAt("counted")' = ConnsAt("counted")
        /\ \A d \in Conns \ {c} : conn'[d] = conn[d]
    BY <2>1, ConnMoves DEF ConnSteps
  <2>3. c \notin clients
    BY <2>1 DEF Move, HubType
  <2>4. /\ IsFiniteSet(ConnsAt("registering") \ {c}) /\ Cardinality(ConnsAt("registering")) \in Nat \ {0}
        /\ Cardinality(ConnsAt("registering") \ {c}) = Cardinality(ConnsAt("registering")) - 1
    BY <2>2, OneLess DEF HubType
  <2>5. IsFiniteSet(clients \cup {c}) /\ Cardinality(clients \cup {c}) = Cardinality(clients) + 1
    BY <2>3, OneMore DEF HubType
  <2>6. HubType'
    BY <2>1, <2>2, <2>4, <2>5 DEF HubType
  <2>7. HubSlots'
    <3>1. /\ Cardinality(clients)' = Cardinality(clients) + 1
          /\ Cardinality(ConnsAt("counted"))' = Cardinality(ConnsAt("counted"))
          /\ Cardinality(ConnsAt("registering"))' = Cardinality(ConnsAt("registering")) - 1
      BY <2>1, <2>2, <2>4, <2>5
    <3>2. count \in Nat /\ maxConn \in Nat /\ count' = count /\ maxConn' = maxConn
      BY <2>1 DEF HubType
    <3> QED
      BY <1>1, <2>4, <3>1, <3>2 DEF HubSlots
  <2> QED
    BY <2>6, <2>7
<1>8. ASSUME NEW c \in Conns, RunUnregister(c)
      PROVE  HubInv'
  <2>1. /\ conn' \in [Conns -> ConnSteps] /\ maxConn' = maxConn
        /\ ConnsAt("counted")' = ConnsAt("counted") /\ ConnsAt("registering")' = ConnsAt("registering")
        /\ \A d \in Conns \ {c} : conn'[d] = conn[d]
    <3>1. CASE Move(c, "leaving", "over")
      BY <1>8, <3>1, ConnMoves DEF RunUnregister, ConnSteps
    <3>2. CASE UNCHANGED conn
      BY <1>8, <3>2 DEF RunUnregister, HubType, ConnsAt
    <3> QED
      BY <1>8, <3>1, <3>2 DEF RunUnregister
  <2>2. CASE c \in clients
    <3>1. clients' = clients \ {c} /\ count' = count - 1
      BY <1>8, <2>2 DEF RunUnregister, RemoveClient
    <3>2. /\ IsFiniteSet(clients \ {c}) /\ Cardinality(clients) \in Nat \ {0}
          /\ Cardinality(clients \ {c}) = Cardinality(clients) - 1
      BY <2>2, OneLess DEF HubType
    <3>3. HubType'
      BY <1>1, <2>1, <3>1, <3>2 DEF HubType, HubSlots
    <3>4. HubSlots'
      BY <1>1, <2>1, <3>1, <3>2 DEF HubType, HubSlots
    <3> QED
      BY <3>3, <3>4
  <2>3. CASE c \notin clients
    <3>1. clients' = clients /\ count' = count
      BY <1>8, <2>3 DEF RunUnregister, RemoveClient
    <3> QED
      BY <2>1, <2>3, <3>1 DEF HubType, HubSlots
  <2> QED
    BY <2>2, <2>3
<1>9. CASE UNCHANGED hubVars
  BY <1>2, <1>9 DEF hubVars
<1>10. ASSUME NEW c \in Conns, ClientMessage(c) \/ WriterStep(c) \/ SocketDies(c)
       PROVE  HubInv'
  BY <1>2, <1>10 DEF ClientMessage, ReadAuth, ReadSubscribe, ReadUnsubscribe, WriterStep, WriteQueued,
     WritePumpEnds, SocketDies, hubOnly
<1>11. ASSUME NEW b \in Broadcasters, BroadcastToRoom(b) \/ Deliver(b)
       PROVE  HubInv'
  BY <1>2, <1>11 DEF BroadcastToRoom, Deliver, hubOnly
<1> QED
  BY <1>3, <1>4, <1>5, <1>6, <1>7, <1>8, <1>9, <1>10, <1>11 DEF HubNext, ConnStep, RunStep

(***************************************************************************)
(* Hub.count is the number of clients and of connections on their way in,  *)
(* and Hub.Register keeps the cap, although it counts first and looks      *)
(* afterwards, and although a slow client is unregistered both by the      *)
(* broadcaster that cuts it off and by its own reader.                     *)
(***************************************************************************)
THEOREM HubKeepsSlots == HubSpec => []SlotsAccounted
<1>1. HubInv => SlotsAccounted
  <2> SUFFICES ASSUME HubInv PROVE SlotsAccounted
    OBVIOUS
  <2> DEFINE Entering == {c \in Conns : conn[c] \in {"counted", "registering"}}
  <2>1. Entering = ConnsAt("counted") \cup ConnsAt("registering") /\ ConnsAt("counted") \cap ConnsAt("registering") = {}
    BY DEF ConnsAt
  <2>2. Cardinality(Entering) = Cardinality(ConnsAt("counted")) + Cardinality(ConnsAt("registering"))
    <3>1. Cardinality({}) = 0
      BY FS_EmptySet
    <3>2. IsFiniteSet(ConnsAt("counted")) /\ IsFiniteSet(ConnsAt("registering"))
      BY DEF HubInv, HubType
    <3>3. /\ Cardinality(ConnsAt("counted") \cup ConnsAt("registering")) =
               Cardinality(ConnsAt("counted")) + Cardinality(ConnsAt("registering"))
                 - Cardinality(ConnsAt("counted") \cap ConnsAt("registering"))
          /\ Cardinality(ConnsAt("counted")) \in Nat /\ Cardinality(ConnsAt("registering")) \in Nat
      BY <3>2, FS_Union, FS_CardinalityType
    <3>4. Cardinality(ConnsAt("counted") \cap ConnsAt("registering")) = 0
      BY <2>1, <3>1
    <3>5. Cardinality(Entering) = Cardinality(ConnsAt("counted") \cup ConnsAt("registering"))
      BY <2>1
    <3> HIDE DEF Entering
    <3> QED
      BY <3>3, <3>4, <3>5
  <2>3. /\ Cardinality(clients) \in Nat /\ Cardinality(ConnsAt("counted")) \in Nat
        /\ Cardinality(ConnsAt("registering")) \in Nat /\ maxConn \in Nat
    BY FS_CardinalityType DEF HubInv, HubType
  <2>4. /\ count = Cardinality(clients) + Cardinality(Entering)
        /\ maxConn > 0 => Cardinality(clients) <= maxConn
    <3> HIDE DEF Entering
    <3> QED
      BY <2>2, <2>3 DEF HubInv, HubSlots
  <2> QED
    BY <2>4 DEF SlotsAccounted
<1> QED
  BY <1>1, HubStart, HubSteps, PTL DEF HubSpec

-----------------------------------------------------------------------------
(***************************************************************************)
(* The audit trail.  The loop ends only when the channel is closed and     *)
(* drained, and leaves nothing in its buffer.                              *)
(***************************************************************************)
Queued == Range(ch) \cup Range(flusher.buf)

AuditInv ==
  /\ ch \in Seq(Handlers \X Nat) /\ chOpen \in BOOLEAN
  /\ handler \in [Handlers -> [step : {"idle", "send"}, done : Nat]]
  /\ flusher \in [step : {"wait", "flush", "last", "over"}, buf : Seq(Handlers \X Nat)]
  /\ closing \in {"no", "flagged", "waiting", "returned"}
  /\ flusher.step \in {"last", "over"} => ~chOpen /\ ch = << >>
  /\ flusher.step = "over" => flusher.buf = << >>
  /\ closing = "returned" => flusher.step = "over"
  /\ recorded \subseteq auditTable \cup localLog \cup Queued

\* What a channel or a buffer holds after a send and after a receive.
LEMMA RangeOfQueue ==
  ASSUME NEW T, NEW s \in Seq(T)
  PROVE  /\ \A e \in T : Range(Append(s, e)) = Range(s) \cup {e} /\ Append(s, e) \in Seq(T)
         /\ s # << >> => Range(s) = {Head(s)} \cup Range(Tail(s)) /\ Tail(s) \in Seq(T) /\ Head(s) \in T
         /\ Range(<< >>) = {}
<1>1. ASSUME NEW e \in T
      PROVE  Range(Append(s, e)) = Range(s) \cup {e} /\ Append(s, e) \in Seq(T)
  <2>1. /\ Append(s, e) \in Seq(T) /\ DOMAIN Append(s, e) = 1..(Len(s) + 1) /\ DOMAIN s = 1..Len(s)
        /\ Len(s) \in Nat /\ Append(s, e)[Len(s) + 1] = e
        /\ \A i \in 1..Len(s) : Append(s, e)[i] = s[i]
    OBVIOUS
  <2>2. 1..(Len(s) + 1) = (1..Len(s)) \cup {Len(s) + 1}
    BY <2>1
  <2> QED
    BY <2>1, <2>2 DEF Range
<1>2. ASSUME s # << >>
      PROVE  Range(s) = {Head(s)} \cup Range(Tail(s)) /\ Tail(s) \in Seq(T) /\ Head(s) \in T
  <2>1. /\ Tail(s) \in Seq(T) /\ Head(s) \in T /\ Len(Tail(s)) = Len(s) - 1 /\ Len(s) \in Nat \ {0}
        /\ \A i \in 1..Len(Tail(s)) : Tail(s)[i] = s[i + 1]
    BY <1>2, HeadTailProperties
  <2>2. Head(s) = s[1] /\ DOMAIN s = 1..Len(s) /\ DOMAIN Tail(s) = 1..Len(Tail(s))
    BY <1>2, <2>1
  <2>3. \A i \in 1..Len(s) : i = 1 \/ (i - 1 \in 1..Len(Tail(s)) /\ s[i] = Tail(s)[i - 1])
    BY <2>1
  <2>4. 1 \in 1..Len(s) /\ \A i \in 1..Len(Tail(s)) : i + 1 \in 1..Len(s)
    BY <2>1
  <2>5. Range(s) \subseteq {Head(s)} \cup Range(Tail(s))
    BY <2>2, <2>3, ZenonT(40) DEF Range
  <2>6. {Head(s)} \cup Range(Tail(s)) \subseteq Range(s)
    BY <2>1, <2>2, <2>4 DEF Range
  <2> QED
    BY <2>1, <2>5, <2>6
<1>3. Range(<< >>) = {}
  BY DEF Range
<1> QED
  BY <1>1, <1>2, <1>3

\* The log starts empty, on disk and in the table.
LEMMA AuditStart == AuditInit => AuditInv
  BY DEF AuditInit, AuditInv

\* Recording, sending, batching, writing and closing keep every entry somewhere.
LEMMA AuditSteps == AuditInv /\ [AuditNext]_auditVars => AuditInv'
<1> SUFFICES ASSUME AuditInv, [AuditNext]_auditVars PROVE AuditInv'
  OBVIOUS
<1> DEFINE T == Handlers \X Nat
<1>1. ch \in Seq(T) /\ flusher.buf \in Seq(T)
  BY DEF AuditInv
<1>2. ASSUME NEW h \in Handlers
      PROVE  Entry(h) \in T /\ handler[h].done \in Nat /\ handler[h].done + 1 \in Nat
  BY DEF Entry, AuditInv
<1>3. ASSUME NEW h \in Handlers, Record(h)
      PROVE  AuditInv'
  <2>1. handler' \in [Handlers -> [step : {"idle", "send"}, done : Nat]]
    <3>1. handler \in [Handlers -> [step : {"idle", "send"}, done : Nat]]
      BY DEF AuditInv
    <3>2. \/ handler' = [handler EXCEPT ![h].done = handler[h].done + 1]
          \/ handler' = [handler EXCEPT ![h].step = "send"]
      BY <1>3, <3>1 DEF Record
    <3>3. /\ [handler[h] EXCEPT !.done = handler[h].done + 1] \in [step : {"idle", "send"}, done : Nat]
          /\ [handler[h] EXCEPT !.step = "send"] \in [step : {"idle", "send"}, done : Nat]
      BY <1>2, <3>1
    <3>4. \/ handler' = [handler EXCEPT ![h] = [handler[h] EXCEPT !.done = handler[h].done + 1]]
          \/ handler' = [handler EXCEPT ![h] = [handler[h] EXCEPT !.step = "send"]]
      BY <3>1, <3>2
    <3> QED
      BY <3>1, <3>3, <3>4
  <2>2. recorded' \subseteq auditTable' \cup localLog' \cup Queued /\ Queued' = Queued
    BY <1>3 DEF Record, AuditInv, LocalLog, Queued
  <2> QED
    BY <1>3, <2>1, <2>2 DEF Record, AuditInv
<1>4. ASSUME NEW h \in Handlers, Send(h)
      PROVE  AuditInv'
  <2>1. handler' \in [Handlers -> [step : {"idle", "send"}, done : Nat]]
    BY <1>2, <1>4 DEF Send, AuditInv
  <2>2. UNCHANGED <<chOpen, flusher, closing, auditTable>> /\ recorded' = recorded \cup {Entry(h)}
    BY <1>4 DEF Send
  <2>3. CASE chOpen /\ Len(ch) < ChanBuffer
    <3>1. ch' = Append(ch, Entry(h)) /\ localLog' = localLog
      BY <1>4, <2>3 DEF Send
    <3>2. ch' \in Seq(T) /\ Range(ch') = Range(ch) \cup {Entry(h)}
      BY <1>1, <1>2, <3>1, RangeOfQueue
    <3>3. flusher.step \notin {"last", "over"}
      BY <2>3 DEF AuditInv
    <3> QED
      BY <2>1, <2>2, <3>1, <3>2, <3>3 DEF AuditInv, Queued
  <2>4. CASE ~(chOpen /\ Len(ch) < ChanBuffer)
    <3>1. ch' = ch /\ localLog' = localLog \cup {Entry(h)}
      BY <1>4, <2>4 DEF Send, LocalLog
    <3> QED
      BY <2>1, <2>2, <3>1 DEF AuditInv, Queued
  <2> QED
    BY <2>3, <2>4
<1>5. CASE Receive
  <2>1. UNCHANGED <<chOpen, handler, closing, auditTable, localLog, recorded>> /\ flusher.step = "wait"
    BY <1>5 DEF Receive, kept
  <2>2. CASE ch # << >>
    <3> DEFINE buf == Append(flusher.buf, Head(ch))
    <3>1. /\ ch' = Tail(ch)
          /\ flusher' = [step |-> IF Len(buf) >= BatchSize THEN "flush" ELSE "wait", buf |-> buf]
      BY <1>5, <2>2 DEF Receive
    <3>2. ch' \in Seq(T) /\ Range(ch) = {Head(ch)} \cup Range(ch') /\ Head(ch) \in T
      BY <1>1, <2>2, <3>1, RangeOfQueue
    <3>3. buf \in Seq(T) /\ Range(buf) = Range(flusher.buf) \cup {Head(ch)}
      <4>1. PICK b \in Seq(T), e \in T : b = flusher.buf /\ e = Head(ch)
        BY <1>1, <3>2
      <4>2. Append(b, e) \in Seq(T) /\ Range(Append(b, e)) = Range(b) \cup {e}
        BY RangeOfQueue
      <4> QED
        BY <4>1, <4>2
    <3> HIDE DEF buf
    <3>4. /\ flusher' \in [step : {"wait", "flush", "last", "over"}, buf : Seq(T)]
          /\ flusher'.step \in {"wait", "flush"} /\ flusher'.buf = buf
      BY <3>1, <3>3
    <3>5. Queued' = Queued
      BY <3>2, <3>3, <3>4 DEF Queued
    <3> QED
      BY <2>1, <3>2, <3>4, <3>5 DEF AuditInv
  <2>3. CASE ch = << >>
    <3>1. ch' = ch /\ ~chOpen /\ flusher' = [step |-> "last", buf |-> flusher.buf]
      BY <1>5, <2>3 DEF Receive, LastFlush
    <3>2. /\ flusher' \in [step : {"wait", "flush", "last", "over"}, buf : Seq(T)]
          /\ flusher'.step = "last" /\ flusher'.buf = flusher.buf
      BY <1>1, <3>1
    <3> QED
      BY <2>1, <2>3, <3>1, <3>2 DEF AuditInv, Queued
  <2> QED
    BY <2>2, <2>3
<1>6. CASE FlushTick \/ FlushEnds
  <2>1. /\ UNCHANGED <<ch, chOpen, handler, closing, auditTable, localLog, recorded>>
        /\ closing # "returned"
    BY <1>6 DEF FlushTick, FlushEnds, kept, Running
  <2>2. PICK x \in {"wait", "flush", "over"} :
          /\ flusher' = [flusher EXCEPT !.step = x]
          /\ x = "over" => flusher.step = "last" /\ flusher.buf = << >>
    BY <1>6 DEF FlushTick, FlushEnds
  <2>3. /\ flusher' \in [step : {"wait", "flush", "last", "over"}, buf : Seq(T)]
        /\ flusher'.step = x /\ flusher'.buf = flusher.buf
    BY <2>2 DEF AuditInv
  <2> QED
    BY <2>1, <2>2, <2>3 DEF AuditInv, Queued
<1>7. CASE Write
  <2>1. /\ UNCHANGED <<ch, chOpen, handler, closing, recorded>>
        /\ closing # "returned" /\ flusher.buf # << >> /\ flusher.step \in {"flush", "last"}
        /\ flusher' = [flusher EXCEPT !.buf = Tail(flusher.buf)]
    BY <1>7 DEF Write, Running, AuditInv
  <2>2. /\ Range(flusher.buf) = {Head(flusher.buf)} \cup Range(Tail(flusher.buf))
        /\ Tail(flusher.buf) \in Seq(T)
    BY <1>1, <2>1, RangeOfQueue
  <2>3. /\ flusher' \in [step : {"wait", "flush", "last", "over"}, buf : Seq(T)]
        /\ flusher'.step = flusher.step /\ flusher'.buf = Tail(flusher.buf)
    BY <2>1, <2>2 DEF AuditInv
  <2>4. auditTable \cup localLog \cup {Head(flusher.buf)} \subseteq auditTable' \cup localLog'
    BY <1>7 DEF Write, LocalLog
  <2>5. recorded' \subseteq auditTable' \cup localLog' \cup Queued'
    BY <2>1, <2>2, <2>3, <2>4 DEF AuditInv, Queued
  <2> QED
    BY <2>1, <2>3, <2>5 DEF AuditInv
<1>8. CASE CloseFlags \/ CloseChannel \/ CloseReturns
  <2>1. UNCHANGED <<ch, handler, flusher, auditTable, localLog, recorded>>
    BY <1>8 DEF CloseFlags, CloseChannel, CloseReturns, kept
  <2>2. Queued' = Queued
    BY <2>1 DEF Queued
  <2>3. /\ chOpen' \in BOOLEAN /\ (chOpen' => chOpen)
        /\ closing' \in {"no", "flagged", "waiting", "returned"}
        /\ closing' = "returned" => flusher.step = "over"
    <3>1. chOpen \in BOOLEAN /\ closing \in {"no", "flagged", "waiting", "returned"}
      BY DEF AuditInv
    <3>2. CASE CloseFlags
      BY <3>1, <3>2 DEF CloseFlags
    <3>3. CASE CloseChannel
      BY <3>1, <3>3 DEF CloseChannel
    <3>4. CASE CloseReturns
      BY <3>1, <3>4 DEF CloseReturns
    <3> QED
      BY <1>8, <3>2, <3>3, <3>4
  <2> QED
    BY <2>1, <2>2, <2>3 DEF AuditInv
<1>9. CASE UNCHANGED auditVars
  BY <1>9 DEF auditVars, AuditInv, Queued
<1> QED
  BY <1>3, <1>4, <1>5, <1>6, <1>7, <1>8, <1>9 DEF AuditNext

(***************************************************************************)
(* No entry that audit.Logger.Record accepted is lost: it is in the table, *)
(* in the local log or, while the process runs, on its way there, although *)
(* Close may shut the channel between Record's look at closed and its      *)
(* send.                                                                   *)
(***************************************************************************)
THEOREM AuditKeepsEntries == AuditSpec => []NothingDisappears
<1>1. AuditInv => NothingDisappears
  <2> SUFFICES ASSUME AuditInv PROVE NothingDisappears
    OBVIOUS
  <2>1. closing = "returned" => Queued = {}
    <3>1. Range(<< >>) = {}
      BY DEF Range
    <3> QED
      BY <3>1 DEF AuditInv, Queued
  <2> QED
    BY <2>1 DEF AuditInv, NothingDisappears, Running, Queued
<1> QED
  BY <1>1, AuditStart, AuditSteps, PTL DEF AuditSpec

-----------------------------------------------------------------------------
(***************************************************************************)
(* Sessions.  A token a gateway has ended and that has not expired is on   *)
(* its blacklist, with its own expiry: a purge drops only what both checks *)
(* would refuse for its age.                                               *)
(***************************************************************************)
TokenType == [kind : {"access", "refresh"}, exp : Nat]
WithToken == {"refresh", "validated", "logout", "change"}

SessionType ==
  /\ now \in Nat /\ tokens \in Seq(TokenType)
  /\ DOMAIN req = Requests
  /\ \A r \in Requests : req[r].step \in WithToken =>
       req[r].gateway \in Gateways /\ req[r].token \in DOMAIN tokens

Blacklisted ==
  /\ DOMAIN blacklist = Gateways /\ ended \in [Gateways -> SUBSET DOMAIN tokens]
  /\ \A g \in Gateways :
       /\ DOMAIN blacklist[g] \subseteq DOMAIN tokens
       /\ \A t \in DOMAIN blacklist[g] : blacklist[g][t] = tokens[t].exp
       /\ \A t \in ended[g] : now < tokens[t].exp => t \in DOMAIN blacklist[g]

SessionInv == SessionType /\ Blacklisted /\ broken = {}

\* A purge keeps what has not expired, as it is.
LEMMA PurgedKeeps ==
  ASSUME NEW b
  PROVE  /\ DOMAIN Purged(b) \subseteq DOMAIN b
         /\ \A t \in DOMAIN Purged(b) : Purged(b)[t] = b[t]
         /\ \A t \in DOMAIN b : now <= b[t] => t \in DOMAIN Purged(b)
<1>1. CASE Cardinality(DOMAIN b) <= PurgeAbove
  BY <1>1 DEF Purged
<1>2. CASE ~(Cardinality(DOMAIN b) <= PurgeAbove)
  BY <1>2 DEF Purged
<1> QED
  BY <1>1, <1>2

\* Revoke puts a token on the blacklist of its gateway.
LEMMA RevokeKeeps ==
  ASSUME SessionInv, NEW g \in Gateways, NEW t \in DOMAIN tokens, Revoke(g, t), UNCHANGED <<now, tokens>>
  PROVE  Blacklisted'
<1>1. now \in Nat /\ \A u \in DOMAIN tokens : tokens[u].exp \in Nat
  <2>1. now \in Nat /\ tokens \in Seq(TokenType)
    BY DEF SessionInv, SessionType
  <2>2. \A u \in DOMAIN tokens : tokens[u] \in TokenType
    BY <2>1
  <2> QED
    BY <2>1, <2>2 DEF TokenType
<1>2. CASE now >= tokens[t].exp
  BY <1>2 DEF Revoke, SessionInv, Blacklisted
<1>3. CASE ~(now >= tokens[t].exp)
  <2> DEFINE b == [u \in DOMAIN blacklist[g] \cup {t} |-> IF u = t THEN tokens[t].exp ELSE blacklist[g][u]]
  <2>1. /\ blacklist' = [blacklist EXCEPT ![g] = Purged(b)]
        /\ ended' = [ended EXCEPT ![g] = ended[g] \cup {t}]
    BY <1>3 DEF Revoke, SessionInv, Blacklisted
  <2>2. /\ DOMAIN b = DOMAIN blacklist[g] \cup {t}
        /\ \A u \in DOMAIN b : b[u] = tokens[u].exp
    BY DEF SessionInv, Blacklisted
  <2> HIDE DEF b
  <2>3. /\ DOMAIN Purged(b) \subseteq DOMAIN b
        /\ \A u \in DOMAIN Purged(b) : Purged(b)[u] = b[u]
        /\ \A u \in DOMAIN b : now <= b[u] => u \in DOMAIN Purged(b)
    BY PurgedKeeps
  <2>4. /\ DOMAIN blacklist' = Gateways /\ blacklist'[g] = Purged(b)
        /\ \A h \in Gateways \ {g} : blacklist'[h] = blacklist[h]
    BY <2>1 DEF SessionInv, Blacklisted
  <2>5. /\ ended' \in [Gateways -> SUBSET DOMAIN tokens] /\ ended'[g] = ended[g] \cup {t}
        /\ \A h \in Gateways \ {g} : ended'[h] = ended[h]
    BY <2>1 DEF SessionInv, Blacklisted
  <2>6. /\ DOMAIN Purged(b) \subseteq DOMAIN tokens
        /\ \A u \in DOMAIN Purged(b) : Purged(b)[u] = tokens[u].exp
        /\ \A u \in ended[g] \cup {t} : now < tokens[u].exp => u \in DOMAIN Purged(b)
    <3>1. \A u \in ended[g] \cup {t} : now < tokens[u].exp => u \in DOMAIN b
      BY <2>2 DEF SessionInv, Blacklisted
    <3>2. DOMAIN b \subseteq DOMAIN tokens
      BY <2>2 DEF SessionInv, Blacklisted
    <3>3. \A u \in DOMAIN tokens : now < tokens[u].exp => now <= tokens[u].exp
      BY <1>1
    <3> QED
      BY <2>2, <2>3, <3>1, <3>2, <3>3
  <2>7. \A h \in Gateways :
         /\ DOMAIN blacklist'[h] \subseteq DOMAIN tokens
         /\ \A u \in DOMAIN blacklist'[h] : blacklist'[h][u] = tokens[u].exp
         /\ \A u \in ended'[h] : now < tokens[u].exp => u \in DOMAIN blacklist'[h]
    BY <2>4, <2>5, <2>6 DEF SessionInv, Blacklisted
  <2> QED
    BY <2>4, <2>5, <2>7 DEF Blacklisted
<1> QED
  BY <1>2, <1>3

\* Nobody is logged in, and nothing is cached.
LEMMA SessionStart == SessionInit => SessionInv
  BY DEF SessionInit, SessionInv, SessionType, Blacklisted, Free, Empty, WithToken

\* Logins, refreshes, requests, logouts, password changes and restarts keep the order of
\* revocation and cache.
LEMMA SessionSteps == SessionInv /\ [SessionNext]_sessionVars => SessionInv'
<1> SUFFICES ASSUME SessionInv, [SessionNext]_sessionVars PROVE SessionInv'
  OBVIOUS
<1>1. /\ now \in Nat /\ DOMAIN tokens = 1..Len(tokens) /\ Len(tokens) \in Nat
      /\ \A u \in DOMAIN tokens : tokens[u] \in TokenType /\ tokens[u].exp \in Nat
  <2>1. now \in Nat /\ tokens \in Seq(TokenType)
    BY DEF SessionInv, SessionType
  <2>2. \A u \in DOMAIN tokens : tokens[u] \in TokenType
    BY <2>1
  <2> QED
    BY <2>1, <2>2 DEF TokenType
<1>2. UNCHANGED <<now, tokens, blacklist, ended>> => Blacklisted'
  BY DEF SessionInv, Blacklisted
\* A request that keeps its gateway and token, takes valid ones or is over.
<1>3. ASSUME NEW r \in Requests, UNCHANGED <<now, tokens>>, DOMAIN req' = Requests,
             \A q \in Requests \ {r} : req'[q] = req[q],
             req'[r].step \in WithToken =>
               req'[r].gateway \in Gateways /\ req'[r].token \in DOMAIN tokens
      PROVE  SessionType'
  BY <1>3 DEF SessionInv, SessionType
<1>4. ASSUME NEW r \in Requests, Login(r)
      PROVE  SessionInv'
  <2>1. DOMAIN req' = Requests /\ (\A q \in Requests \ {r} : req'[q] = req[q])
    BY <1>4 DEF Login, GoOn, SessionInv, SessionType
  <2>2. req'[r].step \notin WithToken
    BY <1>4 DEF Login, GoOn, In, SessionInv, SessionType, WithToken
  <2> QED
    BY <1>2, <1>3, <1>4, <2>1, <2>2 DEF Login, SessionInv
<1>5. ASSUME NEW r \in Requests, RefreshToken(r) \/ AuthMiddleware(r)
      PROVE  SessionInv'
  <2>1. PICK x \in {"refresh", "validated"}, g \in Gateways, t \in DOMAIN tokens : Arrive(r, x, g, t)
    BY <1>5 DEF RefreshToken, AuthMiddleware
  <2>2. /\ DOMAIN req' = Requests /\ (\A q \in Requests \ {r} : req'[q] = req[q])
        /\ req'[r].gateway = g /\ req'[r].token = t
    BY <2>1 DEF Arrive, SessionInv, SessionType
  <2> QED
    BY <1>2, <1>3, <1>5, <2>2 DEF RefreshToken, AuthMiddleware, SessionInv
<1>6. ASSUME NEW r \in Requests, NEW x, req[r].step \in WithToken, GoOn(r, x) \/ Done(r)
      PROVE  /\ DOMAIN req' = Requests /\ \A q \in Requests \ {r} : req'[q] = req[q]
             /\ req'[r].step \in WithToken =>
                  req'[r].gateway \in Gateways /\ req'[r].token \in DOMAIN tokens
  <2>1. CASE Done(r)
    BY <2>1 DEF Done, Free, WithToken, SessionInv, SessionType
  <2>2. CASE GoOn(r, x)
    <3>1. req'[r] = [req[r] EXCEPT !.step = x] /\ DOMAIN req' = Requests
          /\ \A q \in Requests \ {r} : req'[q] = req[q]
      BY <2>2 DEF GoOn, SessionInv, SessionType
    <3>2. req'[r].gateway = req[r].gateway /\ req'[r].token = req[r].token
      BY <3>1
    <3> QED
      BY <1>6, <3>1, <3>2 DEF SessionInv, SessionType
  <2> QED
    BY <1>6, <2>1, <2>2
\* What is served has not been ended.
<1>7. ASSUME NEW g \in Gateways, NEW t \in DOMAIN tokens, Serve(g, t),
             ~(t \in DOMAIN blacklist[g] /\ now < blacklist[g][t])
      PROVE  broken' = {}
  <2>1. t \in ended[g] => ~(now < tokens[t].exp)
    BY <1>7 DEF SessionInv, Blacklisted
  <2> QED
    BY <1>7, <2>1 DEF Serve, SessionInv
<1>8. ASSUME NEW r \in Requests, RevokeIfAbsent(r)
      PROVE  SessionInv'
  <2>1. PICK g \in Gateways, t \in DOMAIN tokens : g = req[r].gateway /\ t = req[r].token
    BY <1>8 DEF RevokeIfAbsent, In, SessionInv, SessionType, WithToken
  <2>2. UNCHANGED <<now, tokens>> /\ req[r].step \in WithToken /\ (Done(r) \/ GoOn(r, "login"))
    BY <1>8 DEF RevokeIfAbsent, In, WithToken
  <2>3. SessionType'
    BY <1>3, <1>6, <2>2
  <2>4. \/ UNCHANGED <<blacklist, ended, broken>>
        \/ /\ ~(t \in DOMAIN blacklist[g] /\ now < blacklist[g][t])
           /\ Revoke(g, t) /\ Serve(g, t)
    BY <1>8, <2>1 DEF RevokeIfAbsent
  <2> QED
    BY <1>2, <1>7, <2>2, <2>3, <2>4, RevokeKeeps DEF SessionInv
<1>9. ASSUME NEW r \in Requests, CheckRevoked(r)
      PROVE  SessionInv'
  <2>1. PICK g \in Gateways, t \in DOMAIN tokens : g = req[r].gateway /\ t = req[r].token
    BY <1>9 DEF CheckRevoked, In, SessionInv, SessionType, WithToken
  <2>2. /\ UNCHANGED <<now, tokens, blacklist, ended>> /\ req[r].step \in WithToken
        /\ Done(r) \/ GoOn(r, "logout") \/ GoOn(r, "change")
    BY <1>9 DEF CheckRevoked, In, WithToken
  <2>3. SessionType'
    BY <1>3, <1>6, <2>2
  <2>4. broken' = broken \/ (~IsRevoked(g, t) /\ Serve(g, t))
    BY <1>9, <2>1 DEF CheckRevoked
  <2>5. ~IsRevoked(g, t) => ~(t \in DOMAIN blacklist[g] /\ now < blacklist[g][t])
    BY <1>1 DEF IsRevoked, SessionInv, Blacklisted
  <2> QED
    BY <1>2, <1>7, <2>2, <2>3, <2>4, <2>5 DEF SessionInv
<1>10. ASSUME NEW r \in Requests, Logout(r) \/ ChangePassword(r)
       PROVE  SessionInv'
  <2>1. PICK g \in Gateways, t \in DOMAIN tokens : g = req[r].gateway /\ t = req[r].token
    BY <1>10 DEF Logout, ChangePassword, In, SessionInv, SessionType, WithToken
  <2>2. /\ UNCHANGED <<now, tokens, broken>> /\ req[r].step \in WithToken
        /\ Done(r) \/ GoOn(r, "logout")
        /\ Revoke(g, t) \/ UNCHANGED <<blacklist, ended>>
    BY <1>10, <2>1 DEF Logout, ChangePassword, In, WithToken
  <2>3. SessionType'
    BY <1>3, <1>6, <2>2
  <2> QED
    BY <1>2, <2>2, <2>3, RevokeKeeps DEF SessionInv
<1>11. ASSUME NEW r \in Requests, Issue(r)
       PROVE  SessionInv'
  <2>1. tokens' \in Seq(TokenType) /\ Len(tokens') = Len(tokens) + 2
        /\ \A u \in DOMAIN tokens : tokens'[u] = tokens[u]
    <3>1. GenerateToken("access") \in TokenType /\ GenerateToken("refresh") \in TokenType
      BY <1>1, SessionAssumption DEF GenerateToken, TokenType
    <3>2. <<GenerateToken("access"), GenerateToken("refresh")>> \in Seq(TokenType)
      BY <3>1
    <3>3. tokens' = tokens \o <<GenerateToken("access"), GenerateToken("refresh")>>
      BY <1>11 DEF Issue, IssueBoth
    <3> HIDE DEF GenerateToken
    <3> QED
      BY <1>1, <3>2, <3>3, ConcatProperties DEF SessionInv, SessionType
  <2>2. DOMAIN tokens \subseteq DOMAIN tokens'
    BY <1>1, <2>1
  <2>3. UNCHANGED <<now, blacklist, ended, broken>> /\ Done(r)
    BY <1>11 DEF Issue
  <2>4. Blacklisted'
    BY <2>1, <2>2, <2>3 DEF SessionInv, Blacklisted
  <2>5. DOMAIN req' = Requests /\ \A q \in Requests : req'[q] = req[q] \/ req'[q].step = "free"
    BY <2>3 DEF Done, Free, SessionInv, SessionType
  <2>6. SessionType'
    BY <2>1, <2>2, <2>3, <2>5 DEF SessionInv, SessionType, WithToken
  <2> QED
    BY <2>3, <2>4, <2>6 DEF SessionInv
<1>12. CASE SessionTick
  <2>1. now' = now + 1 /\ UNCHANGED <<tokens, blacklist, req, ended, broken>>
    BY <1>12 DEF SessionTick
  <2>2. now' \in Nat /\ \A u \in DOMAIN tokens : now' < tokens[u].exp => now < tokens[u].exp
    BY <1>1, <2>1
  <2> QED
    BY <2>1, <2>2 DEF SessionInv, SessionType, Blacklisted
<1>13. ASSUME NEW g \in Gateways, RestartForgets(g)
       PROVE  SessionInv'
  <2>1. /\ blacklist' = [blacklist EXCEPT ![g] = Empty] /\ ended' = [ended EXCEPT ![g] = {}]
        /\ UNCHANGED <<now, tokens, broken>>
        /\ DOMAIN req' = Requests /\ \A q \in Requests : req'[q] \in {req[q], Free}
    BY <1>13 DEF RestartForgets
  <2>2. Blacklisted'
    BY <2>1 DEF SessionInv, Blacklisted, Empty
  <2>3. SessionType'
    BY <2>1 DEF SessionInv, SessionType, Free, WithToken
  <2> QED
    BY <2>1, <2>2, <2>3 DEF SessionInv
<1>14. CASE UNCHANGED sessionVars
  BY <1>14 DEF sessionVars, SessionInv, SessionType, Blacklisted
<1> QED
  BY <1>4, <1>5, <1>8, <1>9, <1>10, <1>11, <1>12, <1>13, <1>14 DEF SessionNext

(***************************************************************************)
(* A gateway that has ended a token by a logout, a password change or a    *)
(* refresh serves it no more while it runs, however many requests overlap  *)
(* and however often TokenBlacklist.Revoke purges the blacklist.           *)
(***************************************************************************)
THEOREM SessionsEnd == SessionSpec => []RevocationHolds
<1>1. SessionInv => RevocationHolds
  BY DEF SessionInv, RevocationHolds
<1> QED
  BY <1>1, SessionStart, SessionSteps, PTL DEF SessionSpec

-----------------------------------------------------------------------------
(* Counting *)

LEMMA NotMore ==
  ASSUME NEW S, IsFiniteSet(S), NEW T, T \subseteq S
  PROVE  IsFiniteSet(T) /\ Cardinality(T) <= Cardinality(S) /\ Cardinality(T) \in Nat /\ Cardinality(S) \in Nat
  BY FS_Subset, FS_CardinalityType

LEMMA OneMoreAtMost ==
  ASSUME NEW S, IsFiniteSet(S), NEW x
  PROVE  /\ IsFiniteSet(S \cup {x}) /\ Cardinality(S) \in Nat /\ Cardinality(S \cup {x}) \in Nat
         /\ Cardinality(S) <= Cardinality(S \cup {x}) /\ Cardinality(S \cup {x}) <= Cardinality(S) + 1
<1>1. IsFiniteSet(S \cup {x}) /\ Cardinality(S \cup {x}) = IF x \in S THEN Cardinality(S) ELSE Cardinality(S) + 1
  BY FS_AddElement
<1>2. Cardinality(S) \in Nat
  BY FS_CardinalityType
<1>3. PICK n \in Nat : n = Cardinality(S)
  BY <1>2
<1>4. CASE x \in S
  BY <1>1, <1>3, <1>4
<1>5. CASE x \notin S
  BY <1>1, <1>3, <1>5
<1> QED
  BY <1>4, <1>5


-----------------------------------------------------------------------------
(***************************************************************************)
(* Risk checks.  What an order was counted as stays among the counts for a *)
(* day, so that the counts a later order is held against hold all that     *)
(* came before it and were let through, or still may be (Held).  Each of   *)
(* those had room when it was counted (Roomy): of orders counted at one    *)
(* time, the last.  A check that began while the breaker was tripped is    *)
(* still before the breaker, and the breaker is still tripped.             *)
(***************************************************************************)
OrderStamps == [time : Nat, nth : Nat]
UserLimits == [set : BOOLEAN, perMinute : Int, perHour : Int, perDay : Int, maxPosition : Int]
RiskSteps == {"breaker", "values", "band", "rate", "position"}

\* A check that has begun.
Begun(q) ==
  /\ q = [step |-> q.step, order |-> q.order, refs |-> q.refs, shut |-> q.shut, limit |-> q.limit, counted |-> q.counted]
  /\ q.step \in RiskSteps /\ q.shut \in BOOLEAN /\ q.limit \in UserLimits /\ q.counted \in OrderStamps
  /\ q.step # "position" => ~q.limit.set

RiskType ==
  /\ riskSetup \in RiskSetups /\ riskClock \in Nat
  /\ DOMAIN pairConfig = DOMAIN DefaultRisk
  /\ userLimit \in UserLimits
  /\ adminEdit \in Seq(FieldEdits)
  /\ check = [c \in Submitters |-> check[c]]
  /\ \A c \in Submitters : check[c] = NoCheck \/ Begun(check[c])

\* The orders of one time are numbered as they come.
CountsNumbered(counts, moment) ==
  /\ IsFiniteSet(counts) /\ counts \subseteq OrderStamps
  /\ \A t \in counts : t.time <= moment /\ t.nth < Cardinality({s \in counts : s.time = t.time})

\* Orders let through, and those that may be.
InHand(q)     == q # NoCheck /\ q.step = "position" /\ q.limit.set
Admitted      == [counted : OrderStamps, limit : UserLimits]
AsAdmitted(q) == [counted |-> q.counted, limit |-> q.limit]
AllOf(done, checking) == done \cup {AsAdmitted(checking[c]) : c \in {d \in Submitters : InHand(checking[d])}}

Before(a, e, window) ==
  /\ a.counted.time > e.counted.time - window
  /\ a.counted.time < e.counted.time \/ (a.counted.time = e.counted.time /\ a.counted.nth <= e.counted.nth)
FitsIn(all, e, n, window) == n > 0 => Cardinality({a \in all : Before(a, e, window)}) <= n

\* All that counts is counted, each order once.
HeldIn(all, counts, moment) ==
  /\ IsFiniteSet(all) /\ all \subseteq Admitted
  /\ \A a \in all : a.counted.time <= moment /\ (a.counted.time > moment - Day => a.counted \in counts)
  /\ \A a, b \in all : a.counted = b.counted => a = b
RoomyIn(all) ==
  \A e \in all :
    /\ FitsIn(all, e, e.limit.perMinute, Minute) /\ FitsIn(all, e, e.limit.perHour, Hour)
    /\ FitsIn(all, e, e.limit.perDay, Day)

Rated(all, counts, moment) == CountsNumbered(counts, moment) /\ HeldIn(all, counts, moment) /\ RoomyIn(all)

Latched(q, trip, config) == q # NoCheck /\ q.shut => q.step = "breaker" /\ trip /\ config.breaker > 0

RiskInv ==
  /\ RiskType
  /\ ~defied /\ \A c \in Submitters : Latched(check[c], tripped, pairConfig)
  /\ Rated(AllOf(passed, check), orderCounts, riskClock)

\* Fewer orders need less room.
LEMMA FewerRated ==
  ASSUME NEW all, NEW counts, NEW moment, Rated(all, counts, moment), NEW all2, all2 \subseteq all
  PROVE  Rated(all2, counts, moment)
<1>1. IsFiniteSet(all) /\ all \subseteq Admitted
  BY DEF Rated, HeldIn
<1>2. HeldIn(all2, counts, moment)
  <2>1. IsFiniteSet(all2)
    BY <1>1, FS_Subset
  <2> QED
    BY <2>1 DEF Rated, HeldIn
<1>3. ASSUME NEW e \in all2, NEW n \in Int, NEW window, FitsIn(all, e, n, window)
      PROVE  FitsIn(all2, e, n, window)
  <2> DEFINE A == {a \in all : Before(a, e, window)}
             B == {a \in all2 : Before(a, e, window)}
  <2>1. B \subseteq A /\ IsFiniteSet(A)
    BY <1>1, FS_Subset
  <2> HIDE DEF A, B
  <2>2. Cardinality(B) <= Cardinality(A) /\ Cardinality(A) \in Nat /\ Cardinality(B) \in Nat
    BY <2>1, NotMore
  <2>3. n > 0 => Cardinality(A) <= n
    BY <1>3 DEF FitsIn, A
  <2>4. n > 0 => Cardinality(B) <= n
    BY <2>2, <2>3
  <2> QED
    BY <2>4 DEF FitsIn, B
<1>4. RoomyIn(all2)
  <2> SUFFICES ASSUME NEW e \in all2
               PROVE  /\ FitsIn(all2, e, e.limit.perMinute, Minute) /\ FitsIn(all2, e, e.limit.perHour, Hour)
                      /\ FitsIn(all2, e, e.limit.perDay, Day)
    BY DEF RoomyIn
  <2>1. /\ FitsIn(all, e, e.limit.perMinute, Minute) /\ FitsIn(all, e, e.limit.perHour, Hour)
        /\ FitsIn(all, e, e.limit.perDay, Day)
    BY DEF Rated, RoomyIn
  <2>2. e.limit.perMinute \in Int /\ e.limit.perHour \in Int /\ e.limit.perDay \in Int
    BY <1>1 DEF Admitted, UserLimits
  <2> QED
    BY <2>1, <2>2, <1>3
<1> QED
  BY <1>2, <1>4 DEF Rated

LEMMA RatedLater ==
  ASSUME NEW all, NEW counts, NEW moment \in Nat, Rated(all, counts, moment)
  PROVE  Rated(all, counts, moment + 1)
<1>0. Day \in Nat
  BY RiskAssumption
<1>1. CountsNumbered(counts, moment + 1)
  <2>1. \A t \in counts : t.time \in Nat
    BY DEF Rated, CountsNumbered, OrderStamps
  <2> QED
    BY <2>1 DEF Rated, CountsNumbered
<1>2. HeldIn(all, counts, moment + 1)
  <2>1. \A a \in all : a.counted.time \in Nat
    BY DEF Rated, HeldIn, Admitted, OrderStamps
  <2>2. \A a \in all : a.counted.time <= moment + 1 /\ (a.counted.time > (moment + 1) - Day => a.counted \in counts)
    BY <1>0, <2>1 DEF Rated, HeldIn
  <2>3. IsFiniteSet(all) /\ all \subseteq Admitted /\ \A a, b \in all : a.counted = b.counted => a = b
    BY DEF Rated, HeldIn
  <2> QED
    BY <2>2, <2>3 DEF HeldIn
<1> QED
  BY <1>1, <1>2 DEF Rated

\* The counts after another order: numbered still, and the order is a new one.
LEMMA CountsGrow ==
  ASSUME riskClock \in Nat, CountsNumbered(orderCounts, riskClock)
  PROVE  LET times == Pruned(orderCounts) IN
         /\ Counted(times) \in OrderStamps /\ Counted(times) \notin orderCounts
         /\ \A t \in orderCounts : t.time = riskClock => t \in times /\ t.nth < Counted(times).nth
         /\ CountsNumbered(times \cup {Counted(times)}, riskClock)
<1> DEFINE times == Pruned(orderCounts)
           new == Counted(times)
           Of(t) == {s \in orderCounts : s.time = t}
<1>0. Day \in Nat /\ Day > 0
  BY RiskAssumption
<1>1. IsFiniteSet(orderCounts) /\ orderCounts \subseteq OrderStamps
      /\ \A t \in orderCounts : t.time \in Nat /\ t.nth \in Nat /\ t.time <= riskClock /\ t.nth < Cardinality(Of(t.time))
  BY DEF CountsNumbered, OrderStamps
<1>2. times = {t \in orderCounts : t.time > riskClock - Day}
  BY DEF Pruned, Since
<1>3. \A t \in times : {s \in times : s.time = t.time} = Of(t.time)
  BY <1>2
<1>4. {s \in times : s.time = riskClock} = Of(riskClock)
  BY <1>0, <1>1, <1>2
<1>5. \A t : IsFiniteSet(Of(t)) /\ Cardinality(Of(t)) \in Nat
  <2> TAKE t
  <2>1. Of(t) \subseteq orderCounts
    OBVIOUS
  <2> QED
    BY <1>1, <2>1, NotMore
<1>6. new = [time |-> riskClock, nth |-> Cardinality(Of(riskClock))]
  BY <1>4 DEF Counted
<1>7. new \in OrderStamps /\ new.time = riskClock /\ new.nth = Cardinality(Of(riskClock))
  <2>1. Cardinality(Of(riskClock)) \in Nat
    BY <1>5
  <2> HIDE DEF new, Of
  <2> QED
    BY <1>6, <2>1 DEF OrderStamps
<1>8. \A t \in orderCounts : t.time = riskClock => t \in times /\ t.nth < new.nth
  BY <1>0, <1>1, <1>2, <1>7
<1>9. new \notin orderCounts
  BY <1>1, <1>7, <1>8, <1>5
<1>10. CountsNumbered(times \cup {new}, riskClock)
  <2> HIDE DEF new, times
  <2>1. IsFiniteSet(times \cup {new}) /\ times \cup {new} \subseteq OrderStamps
    <3>1. IsFiniteSet(times)
      BY <1>1, <1>2, FS_Subset
    <3> QED
      BY <3>1, <1>1, <1>2, <1>7, FS_AddElement
  <2>2. ASSUME NEW t \in times \cup {new}
        PROVE  t.time <= riskClock /\ t.nth < Cardinality({s \in times \cup {new} : s.time = t.time})
    <3>1. CASE t.time # riskClock
      <4>1. t \in times /\ t.time < riskClock
        <5>1. t \in times /\ t \in orderCounts
          BY <1>2, <1>7, <3>1
        <5>2. t.time \in Nat /\ t.time <= riskClock
          BY <1>1, <5>1
        <5> QED
          BY <3>1, <5>1, <5>2
      <4>2. {s \in times \cup {new} : s.time = t.time} = {s \in times : s.time = t.time}
        BY <1>7, <3>1
      <4> QED
        BY <1>1, <1>2, <1>3, <4>1, <4>2
    <3>2. CASE t.time = riskClock
      <4>1. {s \in times \cup {new} : s.time = t.time} = Of(riskClock) \cup {new}
        BY <1>4, <1>7, <3>2
      <4>2. Cardinality(Of(riskClock) \cup {new}) = Cardinality(Of(riskClock)) + 1
        <5>1. new \notin Of(riskClock)
          BY <1>9
        <5>2. IsFiniteSet(Of(riskClock))
          BY <1>5
        <5> HIDE DEF Of
        <5> QED
          BY <5>1, <5>2, FS_AddElement
      <4>3. t.nth \in Nat /\ t.nth <= Cardinality(Of(riskClock))
        <5>1. CASE t = new
          <6>1. new.nth = Cardinality(Of(riskClock)) /\ Cardinality(Of(riskClock)) \in Nat
            BY <1>5, <1>7
          <6> HIDE DEF new, Of
          <6> QED
            BY <5>1, <6>1
        <5>2. CASE t # new
          <6>1. t \in orderCounts
            BY <1>2, <5>2
          <6>2. t.nth \in Nat /\ t.nth < Cardinality(Of(riskClock))
            BY <1>7, <1>8, <1>1, <3>2, <6>1
          <6> QED
            BY <1>5, <6>2
        <5> QED
          BY <5>1, <5>2
      <4>4. Cardinality(Of(riskClock)) \in Nat
        BY <1>5
      <4>5. t.nth < Cardinality({s \in times \cup {new} : s.time = t.time})
        <5>1. t.nth < Cardinality(Of(riskClock) \cup {new})
          <6> HIDE DEF Of, new
          <6> QED
            BY <4>2, <4>3, <4>4
        <5> HIDE DEF Of, new
        <5> QED
          BY <4>1, <5>1
      <4> QED
        BY <3>2, <4>5
    <3> QED
      BY <3>1, <3>2
  <2> QED
    BY <2>1, <2>2 DEF CountsNumbered
<1> QED
  BY <1>7, <1>8, <1>9, <1>10

\* An order that is counted has room among all that were, and stays the last.
LEMMA OneMoreRated ==
  ASSUME riskClock \in Nat, NEW all, Rated(all, orderCounts, riskClock), NEW lim \in UserLimits,
         WithinRates(Pruned(orderCounts), lim),
         NEW all2, all2 \subseteq all \cup {[counted |-> Counted(Pruned(orderCounts)), limit |-> lim]}
  PROVE  Rated(all2, Pruned(orderCounts) \cup {Counted(Pruned(orderCounts))}, riskClock)
<1> DEFINE times == Pruned(orderCounts)
           stamp == Counted(times)
           new == [counted |-> stamp, limit |-> lim]
           both == all \cup {new}
<1>0. /\ Minute \in Nat /\ Hour \in Nat /\ Day \in Nat /\ Minute > 0 /\ Minute <= Hour /\ Hour <= Day
  BY RiskAssumption
<1>1. /\ stamp \in OrderStamps /\ stamp \notin orderCounts
      /\ \A t \in orderCounts : t.time = riskClock => t \in times /\ t.nth < stamp.nth
      /\ CountsNumbered(times \cup {stamp}, riskClock)
  BY CountsGrow DEF Rated
<1>2. stamp.time = riskClock /\ stamp.nth \in Nat
  BY <1>1 DEF Counted, OrderStamps
<1>3. times = {t \in orderCounts : t.time > riskClock - Day}
  BY DEF Pruned, Since
<1>4. /\ IsFiniteSet(all) /\ all \subseteq Admitted
      /\ \A a \in all : /\ a.counted.time \in Nat /\ a.counted.nth \in Nat /\ a.counted.time <= riskClock
                        /\ a.counted.time > riskClock - Day => a.counted \in orderCounts
      /\ \A a, b \in all : a.counted = b.counted => a = b
  BY DEF Rated, HeldIn, Admitted, OrderStamps
<1> HIDE DEF times, stamp
<1>5. new.counted = stamp /\ new.limit = lim /\ new \in Admitted
  BY <1>1 DEF Admitted
<1>6. \A a \in all : a.counted # stamp
  BY <1>0, <1>1, <1>2, <1>4
<1> HIDE DEF new
<1>7. HeldIn(both, times \cup {stamp}, riskClock)
  <2>1. IsFiniteSet(both)
    BY <1>4, FS_AddElement
  <2>2. both \subseteq Admitted
    BY <1>4, <1>5
  <2>3. ASSUME NEW a \in both
        PROVE  a.counted.time <= riskClock /\ (a.counted.time > riskClock - Day => a.counted \in times \cup {stamp})
    BY <1>2, <1>3, <1>4, <1>5
  <2>4. \A a, b \in both : a.counted = b.counted => a = b
    BY <1>4, <1>5, <1>6
  <2> QED
    BY <2>1, <2>2, <2>3, <2>4 DEF HeldIn
<1>8. ASSUME NEW e \in all, NEW n \in Int, NEW window \in Nat, FitsIn(all, e, n, window)
      PROVE  FitsIn(both, e, n, window)
  <2>1. ~Before(new, e, window)
    <3>1. e.counted.time <= riskClock /\ e.counted.time \in Nat /\ e.counted.nth \in Nat
      BY <1>4
    <3>2. e.counted.time = riskClock => e.counted.nth < stamp.nth
      BY <1>0, <1>1, <1>4
    <3> QED
      BY <1>2, <1>5, <3>1, <3>2 DEF Before
  <2>2. {a \in both : Before(a, e, window)} = {a \in all : Before(a, e, window)}
    BY <2>1
  <2> QED
    BY <1>8, <2>2 DEF FitsIn
<1>9. ASSUME NEW n \in Int, NEW window \in Nat, window <= Day, 0 < window,
             ~(n > 0 /\ Cardinality(Since(times, window)) >= n)
      PROVE  FitsIn(both, new, n, window)
  <2> DEFINE A == {a \in all : a.counted.time > riskClock - window}
             S == Since(times, window)
             B == {a \in both : Before(a, new, window)}
  <2>1. S = {t \in times : t.time > riskClock - window}
    BY DEF Since
  <2>2. \A a \in A : a.counted \in S
    BY <1>0, <1>3, <1>4, <1>9, <2>1
  <2>3. IsFiniteSet(S) /\ IsFiniteSet(A)
    <3>1. IsFiniteSet(times \cup {stamp})
      BY <1>1 DEF CountsNumbered
    <3> QED
      BY <1>4, <2>1, <3>1, FS_Subset
  <2>4. Cardinality(S) \in Nat /\ Cardinality(A) \in Nat
    BY <2>3, FS_CardinalityType
  <2>5. Cardinality(A) <= Cardinality(S)
    <3> SUFFICES ASSUME Cardinality(S) < Cardinality(A) PROVE FALSE
      BY <2>4
    <3> DEFINE f == [a \in A |-> a.counted]
    <3>1. f \in [A -> S]
      BY <2>2
    <3> HIDE DEF S
    <3>2. \A a, b \in A : f[a] = f[b] => a = b
      BY <1>4
    <3> HIDE DEF f, A
    <3> QED
      BY <2>3, <3>1, <3>2, FS_PigeonHole
  <2>6. B \subseteq A \cup {new}
    <3>1. ASSUME NEW a \in all, Before(a, new, window) PROVE a \in A
      BY <1>2, <1>5, <3>1 DEF Before
    <3> QED
      BY <3>1
  <2> HIDE DEF A, B, S
  <2>7. IsFiniteSet(A \cup {new}) /\ Cardinality(A \cup {new}) <= Cardinality(A) + 1
    BY <2>3, OneMoreAtMost
  <2>8. Cardinality(B) <= Cardinality(A \cup {new}) /\ Cardinality(B) \in Nat /\ Cardinality(A \cup {new}) \in Nat
    BY <2>6, <2>7, NotMore
  <2>9. n > 0 => Cardinality(S) < n
    BY <1>9, <2>4 DEF S
  <2>10. n > 0 => Cardinality(B) <= n
    BY <2>4, <2>5, <2>7, <2>8, <2>9
  <2> QED
    BY <2>10 DEF FitsIn, B
<1>10. RoomyIn(both)
  <2> SUFFICES ASSUME NEW e \in both
               PROVE  /\ FitsIn(both, e, e.limit.perMinute, Minute) /\ FitsIn(both, e, e.limit.perHour, Hour)
                      /\ FitsIn(both, e, e.limit.perDay, Day)
    BY DEF RoomyIn
  <2>1. e.limit.perMinute \in Int /\ e.limit.perHour \in Int /\ e.limit.perDay \in Int
    BY <1>4, <1>5 DEF Admitted, UserLimits
  <2>2. CASE e \in all
    <3>1. /\ FitsIn(all, e, e.limit.perMinute, Minute) /\ FitsIn(all, e, e.limit.perHour, Hour)
          /\ FitsIn(all, e, e.limit.perDay, Day)
      BY <2>2 DEF Rated, RoomyIn
    <3> QED
      BY <1>0, <1>8, <2>1, <2>2, <3>1
  <2>3. CASE e = new
    <3>1. e.limit = lim
      BY <2>3, <1>5
    <3>2. Since(times, Day) = times
      BY <1>3 DEF Since
    <3>3. /\ ~(lim.perDay > 0 /\ Cardinality(Since(times, Day)) >= lim.perDay)
          /\ ~(lim.perHour > 0 /\ Cardinality(Since(times, Hour)) >= lim.perHour)
          /\ ~(lim.perMinute > 0 /\ Cardinality(Since(times, Minute)) >= lim.perMinute)
      BY <3>2 DEF WithinRates, times
    <3>4. /\ Minute <= Day /\ Hour > 0 /\ Day > 0
      BY <1>0
    <3>5. FitsIn(both, new, lim.perDay, Day) /\ FitsIn(both, new, lim.perHour, Hour) /\ FitsIn(both, new, lim.perMinute, Minute)
      <4>1. lim.perMinute \in Int /\ lim.perHour \in Int /\ lim.perDay \in Int
        BY <2>1, <3>1
      <4> QED
        BY <1>0, <1>9, <3>3, <3>4, <4>1, SMTT(30)
    <3> QED
      BY <2>3, <3>1, <3>5
  <2> QED
    BY <2>2, <2>3
<1>11. Rated(both, times \cup {stamp}, riskClock)
  BY <1>1, <1>7, <1>10 DEF Rated
<1>12. all2 \subseteq both
  BY DEF times, stamp, new
<1> QED
  BY <1>11, <1>12, FewerRated DEF times, stamp

-----------------------------------------------------------------------------
LEMMA NothingRated == ASSUME NEW moment PROVE Rated({}, {}, moment)
<1>1. IsFiniteSet({})
  BY FS_EmptySet
<1> QED
  BY <1>1 DEF Rated, CountsNumbered, HeldIn, RoomyIn

LEMMA NobodyInHand == AllOf({}, [c \in Submitters |-> NoCheck]) = {}
  BY DEF AllOf, InHand

\* One check moves to q: of the orders in hand, at most this one is new.
LEMMA OneInHand ==
  ASSUME NEW c \in Submitters, NEW q, NEW done, check = [d \in Submitters |-> check[d]]
  PROVE  AllOf(done, [check EXCEPT ![c] = q])
           \subseteq (done \cup AllOf(passed, check)) \cup (IF InHand(q) THEN {AsAdmitted(q)} ELSE {})
<1> DEFINE new == [check EXCEPT ![c] = q]
<1>1. \A d \in Submitters : new[d] = IF d = c THEN q ELSE check[d]
  OBVIOUS
<1> HIDE DEF new
<1> QED
  BY <1>1 DEF AllOf, new

LEMMA CheckMoves ==
  ASSUME RiskInv, NEW c \in Submitters, NEW q, q = NoCheck \/ Begun(q), check' = [check EXCEPT ![c] = q],
         UNCHANGED <<riskSetup, riskClock, pairConfig, userLimit, adminEdit>>,
         tripped => tripped', ~defied', Latched(q, tripped', pairConfig),
         Rated(AllOf(passed', check'), orderCounts', riskClock)
  PROVE  RiskInv'
<1>1. check = [d \in Submitters |-> check[d]] /\ \A d \in Submitters : check[d] = NoCheck \/ Begun(check[d])
  BY DEF RiskInv, RiskType
<1>2. check' = [d \in Submitters |-> check'[d]] /\ \A d \in Submitters : check'[d] = IF d = c THEN q ELSE check[d]
  BY <1>1
<1>3. RiskType'
  BY <1>1, <1>2 DEF RiskInv, RiskType
<1>4. \A d \in Submitters : Latched(check[d], tripped, pairConfig)
  BY DEF RiskInv
<1>5. \A d \in Submitters : Latched(check'[d], tripped', pairConfig')
  BY <1>2, <1>4 DEF Latched
<1> QED
  BY <1>3, <1>5 DEF RiskInv

\* A check that ends, or goes on without being counted.
LEMMA CheckGoesOn ==
  ASSUME RiskInv, NEW c \in Submitters, NEW q, q = NoCheck \/ Begun(q), ~InHand(q), check' = [check EXCEPT ![c] = q],
         UNCHANGED <<riskSetup, riskClock, pairConfig, userLimit, adminEdit, orderCounts>>,
         passed' \subseteq AllOf(passed, check),
         tripped => tripped', ~defied', Latched(q, tripped', pairConfig)
  PROVE  RiskInv'
<1>1. check = [d \in Submitters |-> check[d]]
  BY DEF RiskInv, RiskType
<1>2. AllOf(passed', check') \subseteq (passed' \cup AllOf(passed, check)) \cup (IF InHand(q) THEN {AsAdmitted(q)} ELSE {})
  BY <1>1, OneInHand
<1>3. AllOf(passed', check') \subseteq AllOf(passed, check)
  BY <1>2
<1>4. Rated(AllOf(passed', check'), orderCounts, riskClock)
  BY <1>3, FewerRated DEF RiskInv
<1> QED
  BY <1>4, CheckMoves

\* The next step of a check.
LEMMA NextOf ==
  ASSUME RiskInv, NEW c \in Submitters, check[c] # NoCheck, NEW step \in RiskSteps, NextCheck(c, step)
  PROVE  \E q : /\ check' = [check EXCEPT ![c] = q] /\ q # NoCheck
                /\ q.step = step /\ q.shut = check[c].shut /\ q.limit = check[c].limit /\ q.counted = check[c].counted
                /\ (step # "position" => ~q.limit.set) => Begun(q)
<1>1. PICK o : o = check[c]
  OBVIOUS
<1>2. Begun(o) /\ check = [d \in Submitters |-> check[d]]
  BY <1>1 DEF RiskInv, RiskType
<1>3. PICK q : q = [step |-> step, order |-> o.order, refs |-> <<pairConfig.ref>>, shut |-> o.shut, limit |-> o.limit, counted |-> o.counted]
  OBVIOUS
<1>4. o = [step |-> o.step, order |-> o.order, refs |-> o.refs, shut |-> o.shut, limit |-> o.limit, counted |-> o.counted]
  BY <1>2 DEF Begun
<1>5. PICK m : m = [o EXCEPT !.step = step]
  OBVIOUS
<1>6. m = [step |-> step, order |-> o.order, refs |-> o.refs, shut |-> o.shut, limit |-> o.limit, counted |-> o.counted]
  BY <1>4, <1>5
<1>7. [m EXCEPT !.refs = <<pairConfig.ref>>] = q
  BY <1>3, <1>6
<1>8. check' = [check EXCEPT ![c] = q]
  <2>1. PICK half : half = [check EXCEPT ![c].step = step]
    OBVIOUS
  <2>2. half = [check EXCEPT ![c] = m] /\ half[c] = m
    BY <1>1, <1>2, <1>5, <2>1
  <2>3. check' = [half EXCEPT ![c].refs = <<pairConfig.ref>>]
    BY <2>1 DEF NextCheck
  <2>4. check' = [half EXCEPT ![c] = [m EXCEPT !.refs = <<pairConfig.ref>>]]
    BY <2>2, <2>3
  <2>5. [half EXCEPT ![c] = q] = [check EXCEPT ![c] = q]
    BY <1>2, <2>2
  <2> QED
    BY <1>7, <2>4, <2>5
<1>9. q.step = step /\ q.shut = o.shut /\ q.limit = o.limit /\ q.counted = o.counted /\ q.order = o.order
  BY <1>3
<1>10. q # NoCheck
  BY <1>9 DEF NoCheck, RiskSteps
<1>11. (step # "position" => ~q.limit.set) => Begun(q)
  <2>1. q = [step |-> q.step, order |-> q.order, refs |-> q.refs, shut |-> q.shut, limit |-> q.limit, counted |-> q.counted]
    BY <1>3
  <2>2. o.shut \in BOOLEAN /\ o.limit \in UserLimits /\ o.counted \in OrderStamps
    BY <1>2 DEF Begun
  <2> QED
    BY <1>9, <2>1, <2>2 DEF Begun
<1> QED
  BY <1>1, <1>8, <1>9, <1>10, <1>11

\* A check that is refused.
LEMMA RefusedKeeps ==
  ASSUME RiskInv, NEW c \in Submitters, Refused(c), UNCHANGED <<riskSetup, riskClock, pairConfig, userLimit, adminEdit, orderCounts>>,
         passed' \subseteq AllOf(passed, check), tripped => tripped', ~defied'
  PROVE  RiskInv'
<1>1. ~InHand(NoCheck) /\ Latched(NoCheck, tripped', pairConfig)
  BY DEF InHand, Latched
<1>2. check' = [check EXCEPT ![c] = NoCheck]
  BY DEF Refused
<1> QED
  BY <1>1, <1>2, CheckGoesOn

LEMMA PassedAmongAll == passed \subseteq AllOf(passed, check)
  BY DEF AllOf

\* The steps before counting, and the one after for a user without limits.
LEMMA StepKeeps ==
  ASSUME RiskInv, NEW c \in Submitters, check[c] # NoCheck, NEW step \in RiskSteps, NextCheck(c, step),
         UNCHANGED <<riskSetup, riskClock, pairConfig, userLimit, adminEdit, orderCounts, passed, defied>>,
         tripped => tripped', ~check[c].shut, ~check[c].limit.set
  PROVE  RiskInv'
<1>1. PICK q : /\ check' = [check EXCEPT ![c] = q] /\ q # NoCheck
               /\ q.step = step /\ q.shut = check[c].shut /\ q.limit = check[c].limit
               /\ (step # "position" => ~q.limit.set) => Begun(q)
  BY NextOf
<1>2. Begun(q) /\ ~InHand(q) /\ Latched(q, tripped', pairConfig)
  BY <1>1 DEF InHand, Latched
<1>3. ~defied'
  BY DEF RiskInv
<1> QED
  BY <1>1, <1>2, <1>3, PassedAmongAll, CheckGoesOn

LEMMA NewCheckKeeps == ASSUME RiskInv, NEW c \in Submitters, Check(c) PROVE RiskInv'
<1>0. /\ UNCHANGED <<riskSetup, riskClock, pairConfig, userLimit, adminEdit, orderCounts, passed, defied, tripped>>
      /\ ~defied
  BY DEF Check, riskConfig, RiskInv
<1>1. CASE check' = check
  <2>1. UNCHANGED <<check>>
    BY <1>1
  <2> QED
    BY <1>0, <2>1 DEF RiskInv, RiskType
<1>2. CASE check' # check
  <2>1. PICK o \in riskSetup.orders :
          check' = [check EXCEPT ![c] = [step |-> "breaker", order |-> o, refs |-> <<pairConfig.ref>>,
              shut |-> tripped /\ pairConfig.breaker > 0, limit |-> NoLimit, counted |-> NotCounted]]
    BY <1>2 DEF Check
  <2>2. PICK q : q = [step |-> "breaker", order |-> o, refs |-> <<pairConfig.ref>>,
              shut |-> tripped /\ pairConfig.breaker > 0, limit |-> NoLimit, counted |-> NotCounted]
    OBVIOUS
  <2>3. q.step = "breaker" /\ q.shut = (tripped /\ pairConfig.breaker > 0) /\ q.limit = NoLimit /\ q.counted = NotCounted
    BY <2>2
  <2>4. Begun(q)
    <3>1. q = [step |-> q.step, order |-> q.order, refs |-> q.refs, shut |-> q.shut, limit |-> q.limit, counted |-> q.counted]
      BY <2>2
    <3>2. q.limit \in UserLimits /\ ~q.limit.set /\ q.counted \in OrderStamps
      BY <2>3 DEF NoLimit, NotCounted, UserLimits, OrderStamps
    <3> QED
      BY <2>3, <3>1, <3>2 DEF Begun, RiskSteps
  <2>5. ~InHand(q) /\ Latched(q, tripped', pairConfig)
    BY <1>0, <2>3 DEF InHand, Latched
  <2>6. check' = [check EXCEPT ![c] = q]
    BY <2>1, <2>2
  <2> QED
    BY <1>0, <2>4, <2>5, <2>6, PassedAmongAll, CheckGoesOn
<1> QED
  BY <1>1, <1>2

LEMMA StepsKeep ==
  ASSUME RiskInv, NEW c \in Submitters, CheckCircuitBreaker(c) \/ CheckValues(c) \/ CheckPriceBand(c)
  PROVE  RiskInv'
<1>1. /\ UNCHANGED <<riskSetup, riskClock, pairConfig, userLimit, adminEdit, orderCounts, passed, defied>>
      /\ ~defied
  BY DEF CheckCircuitBreaker, CheckValues, CheckPriceBand, riskConfig, RiskInv
<1>2. check[c] # NoCheck /\ Begun(check[c]) /\ ~check[c].limit.set
  <2>1. check[c].step \in {"breaker", "values", "band"}
    BY DEF CheckCircuitBreaker, CheckValues, CheckPriceBand, At
  <2>2. check[c] # NoCheck
    BY <2>1 DEF NoCheck
  <2> QED
    BY <2>1, <2>2 DEF RiskInv, RiskType, Begun
<1>3. Latched(check[c], tripped, pairConfig)
  BY DEF RiskInv
<1>4. CASE CheckCircuitBreaker(c)
  <2>1. (tripped => tripped') /\ (Refused(c) \/ (NextCheck(c, "values") /\ ~(pairConfig.breaker > 0 /\ tripped)))
    BY <1>4 DEF CheckCircuitBreaker, Breaker
  <2>2. CASE Refused(c)
    BY <1>1, <2>1, <2>2, PassedAmongAll, RefusedKeeps
  <2>3. CASE NextCheck(c, "values") /\ ~(pairConfig.breaker > 0 /\ tripped)
    <3>1. ~check[c].shut
      BY <1>2, <1>3, <2>3 DEF Latched
    <3>2. "values" \in RiskSteps
      BY DEF RiskSteps
    <3> QED
      BY <1>1, <1>2, <2>1, <2>3, <3>1, <3>2, StepKeeps
  <2> QED
    BY <2>1, <2>2, <2>3
<1>5. CASE CheckValues(c) \/ CheckPriceBand(c)
  <2>1. tripped' = tripped /\ \/ Refused(c)
                              \/ \E step \in {"band", "rate"} : NextCheck(c, step)
    BY <1>5 DEF CheckValues, CheckPriceBand
  <2>2. CASE Refused(c)
    BY <1>1, <2>1, <2>2, PassedAmongAll, RefusedKeeps
  <2>3. ASSUME NEW step \in {"band", "rate"}, NextCheck(c, step) PROVE RiskInv'
    <3>1. ~check[c].shut
      BY <1>2, <1>3, <1>5 DEF Latched, CheckValues, CheckPriceBand, At
    <3>2. step \in RiskSteps
      BY DEF RiskSteps
    <3> QED
      BY <1>1, <1>2, <2>1, <2>3, <3>1, <3>2, StepKeeps
  <2> QED
    BY <2>1, <2>2, <2>3
<1> QED
  BY <1>4, <1>5

LEMMA CountKeeps == ASSUME RiskInv, NEW c \in Submitters, CheckUserRateLimits(c) PROVE RiskInv'
<1>1. /\ UNCHANGED <<riskSetup, riskClock, pairConfig, userLimit, adminEdit, passed, defied, tripped>>
      /\ ~defied
  BY DEF CheckUserRateLimits, riskConfig, RiskInv
<1>2. check[c] # NoCheck /\ check[c].step = "rate"
  BY DEF CheckUserRateLimits, At, NoCheck
<1>3. Begun(check[c]) /\ ~check[c].limit.set
  BY <1>2 DEF RiskInv, RiskType, Begun
<1>4. ~check[c].shut
  BY <1>2 DEF RiskInv, Latched
<1>5. CASE ~userLimit.set
  <2>1. NextCheck(c, "position") /\ UNCHANGED orderCounts
    BY <1>5 DEF CheckUserRateLimits
  <2>2. "position" \in RiskSteps
    BY DEF RiskSteps
  <2> QED
    BY <1>1, <1>2, <1>3, <1>4, <2>1, <2>2, StepKeeps
<1>6. CASE userLimit.set /\ ~WithinRates(Pruned(orderCounts), userLimit)
  <2>1. Refused(c) /\ UNCHANGED orderCounts
    BY <1>6 DEF CheckUserRateLimits
  <2> QED
    BY <1>1, <2>1, PassedAmongAll, RefusedKeeps
<1>7. CASE userLimit.set /\ WithinRates(Pruned(orderCounts), userLimit)
  <2> DEFINE times == Pruned(orderCounts)
             stamp == Counted(times)
  <2>1. /\ orderCounts' = times \cup {stamp}
        /\ check' = [check EXCEPT ![c].step = "position", ![c].limit = userLimit, ![c].counted = stamp]
    BY <1>7 DEF CheckUserRateLimits
  <2>2. stamp \in OrderStamps
    BY CountsGrow DEF RiskInv, RiskType, Rated
  <2> HIDE DEF times, stamp
  <2>3. PICK o : o = check[c]
    OBVIOUS
  <2>4. PICK q : q = [step |-> "position", order |-> o.order, refs |-> o.refs, shut |-> o.shut, limit |-> userLimit, counted |-> stamp]
    OBVIOUS
  <2>5. check' = [check EXCEPT ![c] = q]
    <3>0. check = [d \in Submitters |-> check[d]]
      BY DEF RiskInv, RiskType
    <3>1. o = [step |-> o.step, order |-> o.order, refs |-> o.refs, shut |-> o.shut, limit |-> o.limit, counted |-> o.counted]
      BY <1>3, <2>3 DEF Begun
    <3>2. PICK m1 : m1 = [check EXCEPT ![c].step = "position"]
      OBVIOUS
    <3>3. PICK m2 : m2 = [m1 EXCEPT ![c].limit = userLimit]
      OBVIOUS
    <3>4. check' = [m2 EXCEPT ![c].counted = stamp]
      BY <2>1, <3>2, <3>3
    <3>5. /\ m1[c] = [step |-> "position", order |-> o.order, refs |-> o.refs, shut |-> o.shut, limit |-> o.limit, counted |-> o.counted]
          /\ m1 = [d \in Submitters |-> m1[d]] /\ \A d \in Submitters \ {c} : m1[d] = check[d]
      <4>1. m1[c] = [o EXCEPT !.step = "position"]
        BY <2>3, <3>0, <3>2
      <4>2. [o EXCEPT !.step = "position"]
            = [step |-> "position", order |-> o.order, refs |-> o.refs, shut |-> o.shut, limit |-> o.limit, counted |-> o.counted]
        BY <3>1
      <4> QED
        BY <3>0, <3>2, <4>1, <4>2
    <3>6. /\ m2[c] = [step |-> "position", order |-> o.order, refs |-> o.refs, shut |-> o.shut, limit |-> userLimit, counted |-> o.counted]
          /\ m2 = [d \in Submitters |-> m2[d]] /\ \A d \in Submitters \ {c} : m2[d] = check[d]
      <4>1. m2[c] = [m1[c] EXCEPT !.limit = userLimit]
        BY <3>3, <3>5
      <4>2. m2[c] = [step |-> "position", order |-> o.order, refs |-> o.refs, shut |-> o.shut, limit |-> userLimit, counted |-> o.counted]
        BY <3>5, <4>1
      <4> QED
        BY <3>3, <3>5, <4>2
    <3>7. check'[c] = q /\ check' = [d \in Submitters |-> check'[d]] /\ \A d \in Submitters \ {c} : check'[d] = check[d]
      <4>1. check'[c] = [m2[c] EXCEPT !.counted = stamp]
        BY <3>4, <3>6
      <4>2. check'[c] = q
        BY <2>4, <3>6, <4>1
      <4> QED
        BY <3>4, <3>6, <4>2
    <3> QED
      BY <3>0, <3>7
  <2>6. q.step = "position" /\ q.shut = o.shut /\ q.limit = userLimit /\ q.counted = stamp
    BY <2>4
  <2>7. Begun(q) /\ Latched(q, tripped', pairConfig)
    <3>1. q = [step |-> q.step, order |-> q.order, refs |-> q.refs, shut |-> q.shut, limit |-> q.limit, counted |-> q.counted]
      BY <2>4
    <3>2. q.shut \in BOOLEAN /\ ~q.shut /\ q.limit \in UserLimits /\ q.counted \in OrderStamps
      BY <1>3, <1>4, <2>2, <2>3, <2>6 DEF Begun, RiskInv, RiskType
    <3> QED
      BY <2>6, <3>1, <3>2 DEF Begun, RiskSteps, Latched
  <2>8. AllOf(passed, check') \subseteq AllOf(passed, check) \cup {[counted |-> stamp, limit |-> userLimit]}
    <3>1. check = [d \in Submitters |-> check[d]]
      BY DEF RiskInv, RiskType
    <3>2. AllOf(passed, check') \subseteq (passed \cup AllOf(passed, check)) \cup (IF InHand(q) THEN {AsAdmitted(q)} ELSE {})
      BY <2>5, <3>1, OneInHand
    <3>3. AsAdmitted(q) = [counted |-> stamp, limit |-> userLimit]
      BY <2>6 DEF AsAdmitted
    <3> QED
      BY <3>2, <3>3, PassedAmongAll
  <2>9. Rated(AllOf(passed, check'), times \cup {stamp}, riskClock)
    <3>1. riskClock \in Nat /\ Rated(AllOf(passed, check), orderCounts, riskClock) /\ userLimit \in UserLimits
      BY DEF RiskInv, RiskType
    <3>2. WithinRates(times, userLimit)
      BY <1>7 DEF times
    <3> QED
      BY <2>8, <3>1, <3>2, OneMoreRated DEF times, stamp
  <2> QED
    BY <1>1, <2>1, <2>5, <2>7, <2>9, CheckMoves
<1> QED
  BY <1>5, <1>6, <1>7

LEMMA PositionKeeps == ASSUME RiskInv, NEW c \in Submitters, CheckPositionLimit(c) PROVE RiskInv'
<1>1. UNCHANGED <<riskSetup, riskClock, pairConfig, userLimit, adminEdit, orderCounts, tripped>> /\ Refused(c)
  BY DEF CheckPositionLimit, riskConfig
<1>2. check[c] # NoCheck /\ check[c].step = "position"
  BY DEF CheckPositionLimit, At, NoCheck
<1>3. ~check[c].shut /\ ~defied
  BY <1>2 DEF RiskInv, Latched
<1>4. ~defied'
  BY <1>3 DEF CheckPositionLimit
<1>5. passed' \subseteq AllOf(passed, check)
  <2>1. passed' = passed \/ (check[c].limit.set /\ passed' = passed \cup {AsAdmitted(check[c])})
    BY DEF CheckPositionLimit, AsAdmitted
  <2>2. check[c].limit.set => AsAdmitted(check[c]) \in AllOf(passed, check)
    BY <1>2 DEF AllOf, InHand
  <2> QED
    BY <2>1, <2>2, PassedAmongAll
<1> QED
  BY <1>1, <1>4, <1>5, RefusedKeeps

\* What others write meanwhile changes no place of a check.
LEMMA ChecksStay ==
  ASSUME RiskInv, RiskType', UNCHANGED <<passed, orderCounts, riskClock, defied>>,
         \A c \in Submitters :
           \/ check[c] = NoCheck /\ check'[c] = NoCheck
           \/ /\ check[c] # NoCheck /\ check'[c] # NoCheck
              /\ check'[c].step = check[c].step /\ check'[c].limit = check[c].limit /\ check'[c].counted = check[c].counted
              /\ Latched(check'[c], tripped', pairConfig')
  PROVE  RiskInv'
<1>1. \A c \in Submitters : (InHand(check'[c]) <=> InHand(check[c])) /\ (InHand(check[c]) => AsAdmitted(check'[c]) = AsAdmitted(check[c]))
  BY DEF InHand, AsAdmitted
<1>2. AllOf(passed', check') \subseteq AllOf(passed, check)
  BY <1>1 DEF AllOf
<1>3. Rated(AllOf(passed', check'), orderCounts', riskClock')
  BY <1>2, FewerRated DEF RiskInv
<1>4. \A c \in Submitters : Latched(check'[c], tripped', pairConfig')
  BY DEF Latched
<1> QED
  BY <1>3, <1>4 DEF RiskInv

\* A check whose references change.
LEMMA RefNotedBegun ==
  ASSUME NEW q, Begun(q), NEW refs, NEW n, n = [q EXCEPT !.refs = refs]
  PROVE  /\ Begun(n) /\ n # NoCheck
         /\ n.step = q.step /\ n.limit = q.limit /\ n.counted = q.counted /\ n.shut = q.shut
<1>1. q = [step |-> q.step, order |-> q.order, refs |-> q.refs, shut |-> q.shut, limit |-> q.limit, counted |-> q.counted]
  BY DEF Begun
<1>3. n = [step |-> q.step, order |-> q.order, refs |-> refs, shut |-> q.shut, limit |-> q.limit, counted |-> q.counted]
  BY <1>1
<1>4. n.step = q.step /\ n.limit = q.limit /\ n.counted = q.counted /\ n.shut = q.shut /\ n.refs = refs /\ n.order = q.order
  BY <1>3
<1>5. Begun(n)
  <2>1. n = [step |-> n.step, order |-> n.order, refs |-> n.refs, shut |-> n.shut, limit |-> n.limit, counted |-> n.counted]
    BY <1>3, <1>4
  <2> QED
    BY <1>4, <2>1 DEF Begun
<1>6. n # NoCheck
  BY <1>4, <1>5 DEF Begun, NoCheck, RiskSteps
<1> QED
  BY <1>4, <1>5, <1>6

LEMMA TradeKeeps == ASSUME RiskInv, UpdateReferencePrice PROVE RiskInv'
<1>1. PICK p \in riskSetup.trades :
        /\ pairConfig' = [pairConfig EXCEPT !.ref = p]
        /\ check' = [c \in Submitters |->
             IF check[c] = NoCheck THEN NoCheck ELSE [check[c] EXCEPT !.refs = Append(@, p)]]
  BY DEF UpdateReferencePrice
<1>2. UNCHANGED <<riskSetup, userLimit, adminEdit, riskClock, tripped, orderCounts, passed, defied>>
  BY DEF UpdateReferencePrice
<1>3. DOMAIN pairConfig' = DOMAIN pairConfig /\ pairConfig'.breaker = pairConfig.breaker
  <2>1. "breaker" \in DOMAIN pairConfig
    BY RiskAssumption DEF RiskInv, RiskType, PairNumbers
  <2> QED
    BY <1>1, <2>1
<1>4. \A c \in Submitters : check[c] = NoCheck \/ Begun(check[c])
  BY DEF RiskInv, RiskType
<1>5. ASSUME NEW c \in Submitters
      PROVE  \/ check[c] = NoCheck /\ check'[c] = NoCheck
             \/ /\ check[c] # NoCheck /\ check'[c] # NoCheck /\ Begun(check'[c])
                /\ check'[c].step = check[c].step /\ check'[c].limit = check[c].limit /\ check'[c].counted = check[c].counted
                /\ check'[c].shut = check[c].shut
  <2>1. CASE check[c] = NoCheck
    BY <1>1, <2>1
  <2>2. CASE check[c] # NoCheck
    <3>1. check'[c] = [check[c] EXCEPT !.refs = Append(check[c].refs, p)]
      BY <1>1, <2>2
    <3>2. Begun(check[c])
      BY <1>4, <2>2
    <3>3. PICK q : q = check[c]
      OBVIOUS
    <3>4. PICK n : n = check'[c]
      OBVIOUS
    <3>5. PICK refs : refs = Append(check[c].refs, p)
      OBVIOUS
    <3>6. Begun(q) /\ n = [q EXCEPT !.refs = refs]
      BY <3>1, <3>2, <3>3, <3>4, <3>5
    <3>7. /\ Begun(n) /\ n # NoCheck
          /\ n.step = q.step /\ n.limit = q.limit /\ n.counted = q.counted /\ n.shut = q.shut
      BY <3>6, RefNotedBegun
    <3> QED
      BY <2>2, <3>3, <3>4, <3>7
  <2> QED
    BY <2>1, <2>2
<1>6. check' = [c \in Submitters |-> check'[c]]
  BY <1>1
<1>7. RiskType'
  <2>1. \A c \in Submitters : check'[c] = NoCheck \/ Begun(check'[c])
    BY <1>5
  <2> QED
    BY <1>2, <1>3, <1>6, <2>1 DEF RiskInv, RiskType
<1>8. \A c \in Submitters : Latched(check[c], tripped, pairConfig)
  BY DEF RiskInv
<1>9. \A c \in Submitters : Latched(check'[c], tripped', pairConfig')
  BY <1>2, <1>3, <1>5, <1>8 DEF Latched
<1> QED
  BY <1>2, <1>5, <1>7, <1>9, ChecksStay

LEMMA EditKeeps == ASSUME RiskInv, WriteField PROVE RiskInv'
<1>0. adminEdit \in Seq(FieldEdits) /\ adminEdit # <<>>
  BY DEF RiskInv, RiskType, WriteField
<1>1. PICK e : e = Head(adminEdit)
  OBVIOUS
<1>2. e \in FieldEdits /\ adminEdit' \in Seq(FieldEdits)
  <2>1. Head(adminEdit) \in FieldEdits /\ Tail(adminEdit) \in Seq(FieldEdits)
    BY <1>0, HeadTailProperties
  <2> QED
    BY <1>1, <2>1 DEF WriteField
<1>3. UNCHANGED <<riskSetup, riskClock, tripped, orderCounts, passed, defied>>
  BY DEF WriteField
<1>4. \A c \in Submitters : check[c] = NoCheck \/ Begun(check[c])
  BY DEF RiskInv, RiskType
<1>5. \A c \in Submitters : Latched(check[c], tripped, pairConfig)
  BY DEF RiskInv
<1>6. CASE e.of = "pair"
  <2>1. /\ pairConfig' = [pairConfig EXCEPT ![e.field] = e.to] /\ UNCHANGED userLimit
        /\ check' = [c \in Submitters |->
             IF check[c] = NoCheck THEN NoCheck
             ELSE [check[c] EXCEPT !.shut = @ /\ (e.field = "breaker" => e.to > 0),
                                   !.refs = IF e.field = "ref" THEN Append(@, e.to) ELSE @]]
    BY <1>1, <1>6 DEF WriteField
  <2>2. "breaker" \in DOMAIN pairConfig
    BY RiskAssumption DEF RiskInv, RiskType, PairNumbers
  <2>3. /\ DOMAIN pairConfig' = DOMAIN pairConfig
        /\ pairConfig'.breaker = IF e.field = "breaker" THEN e.to ELSE pairConfig.breaker
    BY <2>1, <2>2
  <2>4. ASSUME NEW c \in Submitters
        PROVE  \/ check[c] = NoCheck /\ check'[c] = NoCheck
               \/ /\ check[c] # NoCheck /\ check'[c] # NoCheck /\ Begun(check'[c])
                  /\ check'[c].step = check[c].step /\ check'[c].limit = check[c].limit /\ check'[c].counted = check[c].counted
                  /\ check'[c].shut = (check[c].shut /\ (e.field = "breaker" => e.to > 0))
    <3>1. CASE check[c] = NoCheck
      BY <2>1, <3>1
    <3>2. CASE check[c] # NoCheck
      <4>1. PICK shut : shut = (check[c].shut /\ (e.field = "breaker" => e.to > 0))
        OBVIOUS
      <4>2. PICK refs : refs = IF e.field = "ref" THEN Append(check[c].refs, e.to) ELSE check[c].refs
        OBVIOUS
      <4>3. Begun(check[c])
        BY <1>4, <3>2
      <4>4. PICK m : m = [check[c] EXCEPT !.shut = shut]
        OBVIOUS
      <4>5. shut \in BOOLEAN /\ (shut => check[c].shut)
        BY <4>1
      <4>6. PICK q : q = check[c]
        OBVIOUS
      <4>7. Begun(m) /\ m.step = q.step /\ m.limit = q.limit /\ m.counted = q.counted /\ m.shut = shut
        <5>1. q = [step |-> q.step, order |-> q.order, refs |-> q.refs, shut |-> q.shut, limit |-> q.limit, counted |-> q.counted]
          BY <4>3, <4>6 DEF Begun
        <5>2. m = [q EXCEPT !.shut = shut]
          BY <4>4, <4>6
        <5>3. m = [step |-> q.step, order |-> q.order, refs |-> q.refs, shut |-> shut, limit |-> q.limit, counted |-> q.counted]
          BY <5>1, <5>2
        <5>4. m.step = q.step /\ m.limit = q.limit /\ m.counted = q.counted /\ m.shut = shut /\ m.refs = q.refs /\ m.order = q.order
          BY <5>3
        <5>5. m = [step |-> m.step, order |-> m.order, refs |-> m.refs, shut |-> m.shut, limit |-> m.limit, counted |-> m.counted]
          BY <5>3, <5>4
        <5>6. Begun(q)
          BY <4>3, <4>6
        <5> QED
          BY <4>5, <5>4, <5>5, <5>6 DEF Begun
      <4>8. check'[c] = [m EXCEPT !.refs = refs]
        <5>1. check'[c] = [check[c] EXCEPT !.shut = @ /\ (e.field = "breaker" => e.to > 0),
                                           !.refs = IF e.field = "ref" THEN Append(@, e.to) ELSE @]
          BY <2>1, <3>2
        <5>2. m.refs = check[c].refs
          BY <4>3, <4>4 DEF Begun
        <5>3. check'[c] = [m EXCEPT !.refs = IF e.field = "ref" THEN Append(@, e.to) ELSE @]
          BY <4>1, <5>1, <4>4
        <5> QED
          BY <4>2, <5>2, <5>3
      <4>9. PICK n : n = check'[c]
        OBVIOUS
      <4>10. Begun(n) /\ n # NoCheck /\ n.step = m.step /\ n.limit = m.limit /\ n.counted = m.counted /\ n.shut = m.shut
        BY <4>8, <4>9, <4>7, RefNotedBegun
      <4> QED
        BY <3>2, <4>1, <4>9, <4>10, <4>6, <4>7
    <3> QED
      BY <3>1, <3>2
  <2>5. check' = [c \in Submitters |-> check'[c]]
    BY <2>1
  <2>6. RiskType'
    <3>1. \A c \in Submitters : check'[c] = NoCheck \/ Begun(check'[c])
      BY <2>4
    <3> QED
      BY <1>2, <1>3, <2>1, <2>3, <2>5, <3>1 DEF RiskInv, RiskType
  <2>7. \A c \in Submitters : Latched(check'[c], tripped', pairConfig')
    BY <1>3, <1>5, <2>3, <2>4 DEF Latched
  <2> QED
    BY <1>3, <2>4, <2>6, <2>7, ChecksStay
<1>7. CASE e.of # "pair"
  <2>1. userLimit' = [userLimit EXCEPT !.set = TRUE, ![e.field] = e.to] /\ UNCHANGED <<pairConfig, check>>
    BY <1>1, <1>7 DEF WriteField
  <2>2. e.field \in UserNumbers /\ e.to \in Int
    BY <1>2, <1>7 DEF FieldEdits
  <2>3. userLimit' \in UserLimits
    <3>1. userLimit \in UserLimits
      BY DEF RiskInv, RiskType
    <3>2. PICK m : m = [userLimit EXCEPT !.set = TRUE]
      OBVIOUS
    <3>3. m \in UserLimits
      BY <3>1, <3>2 DEF UserLimits
    <3>4. userLimit' = [m EXCEPT ![e.field] = e.to]
      BY <2>1, <3>2
    <3> QED
      BY <2>2, <3>3, <3>4 DEF UserLimits, UserNumbers
  <2>4. RiskType'
    BY <1>2, <1>3, <2>1, <2>3 DEF RiskInv, RiskType
  <2> QED
    BY <1>3, <2>1, <2>4 DEF RiskInv
<1> QED
  BY <1>6, <1>7

LEMMA RiskRestKeeps ==
  ASSUME RiskInv, BeginUpdate \/ RiskTick \/ RiskRestart \/ UNCHANGED riskVars PROVE RiskInv'
<1>1. CASE UNCHANGED riskVars
  BY <1>1 DEF riskVars, RiskInv, RiskType
<1>2. CASE BeginUpdate
  <2>1. UNCHANGED <<riskSetup, pairConfig, userLimit, riskClock, tripped, orderCounts, check, passed, defied>>
    BY <1>2 DEF BeginUpdate
  <2>2. adminEdit' \in Seq(FieldEdits)
    BY <1>2, RiskAssumption DEF BeginUpdate, RiskInv, RiskType
  <2>3. RiskType'
    BY <2>1, <2>2 DEF RiskInv, RiskType
  <2> QED
    BY <2>1, <2>3 DEF RiskInv
<1>3. CASE RiskTick
  <2>1. UNCHANGED <<riskSetup, pairConfig, userLimit, adminEdit, tripped, orderCounts, check, passed, defied>> /\ riskClock' = riskClock + 1
    BY <1>3 DEF RiskTick, riskConfig
  <2>2. RiskType'
    BY <2>1 DEF RiskInv, RiskType
  <2>3. Rated(AllOf(passed, check), orderCounts, riskClock')
    BY <2>1, RatedLater DEF RiskInv, RiskType
  <2> QED
    BY <2>1, <2>2, <2>3 DEF RiskInv
<1>4. CASE RiskRestart
  <2>1. /\ pairConfig' = DefaultRisk /\ userLimit' = NoLimit /\ tripped' = FALSE
        /\ orderCounts' = {} /\ check' = [c \in Submitters |-> NoCheck] /\ adminEdit' = <<>>
        /\ passed' = {} /\ UNCHANGED <<riskSetup, riskClock, defied>>
    BY <1>4 DEF RiskRestart
  <2>2. <<>> \in Seq(FieldEdits) /\ NoLimit \in UserLimits
    BY DEF NoLimit, UserLimits
  <2>3. RiskType'
    BY <2>1, <2>2 DEF RiskInv, RiskType
  <2>4. Rated(AllOf(passed', check'), orderCounts', riskClock')
    BY <2>1, NobodyInHand, NothingRated
  <2> QED
    BY <2>1, <2>3, <2>4 DEF RiskInv, Latched
<1> QED
  BY <1>1, <1>2, <1>3, <1>4

LEMMA RiskStart == RiskInit => RiskInv
<1> SUFFICES ASSUME RiskInit PROVE RiskInv
  OBVIOUS
<1>1. <<>> \in Seq(FieldEdits) /\ NoLimit \in UserLimits
  BY DEF NoLimit, UserLimits
<1>2. RiskType
  BY <1>1 DEF RiskInit, RiskType
<1>3. Rated(AllOf(passed, check), orderCounts, riskClock)
  BY NobodyInHand, NothingRated DEF RiskInit
<1> QED
  BY <1>2, <1>3 DEF RiskInit, RiskInv, Latched

\* What was let through fitted when the last of it was counted.
LEMMA RatesHold == RiskInv => OrderRateHolds
<1> SUFFICES ASSUME RiskInv, NEW e0 \in passed, \A d \in passed : d.counted.time = e0.counted.time => d.limit = e0.limit
             PROVE  /\ e0.limit.perMinute > 0 => Cardinality(Within(e0, Minute)) <= e0.limit.perMinute
                    /\ e0.limit.perHour > 0 => Cardinality(Within(e0, Hour)) <= e0.limit.perHour
                    /\ e0.limit.perDay > 0 => Cardinality(Within(e0, Day)) <= e0.limit.perDay
  BY DEF OrderRateHolds
<1> DEFINE all == AllOf(passed, check)
           same == {d \in passed : d.counted.time = e0.counted.time}
<1>1. /\ IsFiniteSet(all) /\ all \subseteq Admitted /\ passed \subseteq all /\ RoomyIn(all)
      /\ \A a \in all : a.counted.time \in Nat /\ a.counted.nth \in Nat
  BY PassedAmongAll DEF RiskInv, Rated, HeldIn, Admitted, OrderStamps
<1> HIDE DEF all
<1>2. PICK e \in same : \A d \in same : d.counted.nth <= e.counted.nth
  <2> DEFINE R == {p \in same \X same : p[2].counted.nth <= p[1].counted.nth}
  <2>1. IsFiniteSet(same) /\ e0 \in same
    BY <1>1, FS_Subset
  <2>2. \A x \in same : x.counted.nth \in Nat
    BY <1>1
  <2>3. \A x, y \in same : <<x, y>> \in R <=> y.counted.nth <= x.counted.nth
    OBVIOUS
  <2> HIDE DEF R, same
  <2>4. \A x, y \in same : x # y => <<x, y>> \in R \/ <<y, x>> \in R
    BY <2>2, <2>3
  <2>5. \A x, y, z \in same : <<x, y>> \in R /\ <<y, z>> \in R => <<x, z>> \in R
    BY <2>2, <2>3
  <2>6. PICK m \in same : \A n \in same \ {m} : <<m, n>> \in R
    BY <2>1, <2>4, <2>5, LeastExists
  <2>7. ASSUME NEW d \in same PROVE d.counted.nth <= m.counted.nth
    <3>1. CASE d = m
      BY <2>2, <3>1
    <3>2. CASE d # m
      BY <2>3, <2>6, <3>2
    <3> QED
      BY <3>1, <3>2
  <2> QED
    BY <2>7
<1>3. e \in all /\ e.limit = e0.limit /\ e.counted.time = e0.counted.time
  BY <1>1, <1>2
<1>4. \A d \in passed : d.counted.time = e0.counted.time => d.counted.nth <= e.counted.nth
  BY <1>2
<1>5. /\ FitsIn(all, e, e0.limit.perMinute, Minute) /\ FitsIn(all, e, e0.limit.perHour, Hour)
      /\ FitsIn(all, e, e0.limit.perDay, Day)
  BY <1>1, <1>3 DEF RoomyIn
<1>6. e0.limit.perMinute \in Int /\ e0.limit.perHour \in Int /\ e0.limit.perDay \in Int
  BY <1>1 DEF Admitted, UserLimits
<1>7. ASSUME NEW n \in Int, NEW window \in Nat, FitsIn(all, e, n, window), n > 0
      PROVE  Cardinality(Within(e0, window)) <= n
  <2> DEFINE A == {a \in all : Before(a, e, window)}
             B == Within(e0, window)
  <2>1. IsFiniteSet(A)
    BY <1>1, FS_Subset
  <2>2. B \subseteq A
    <3> SUFFICES ASSUME NEW d \in B PROVE d \in A
      OBVIOUS
    <3>1. d \in passed /\ d \in all /\ d.counted.time > e0.counted.time - window /\ d.counted.time <= e0.counted.time
      BY <1>1 DEF Within
    <3>2. d.counted.time \in Nat /\ e0.counted.time \in Nat
      BY <1>1, <3>1
    <3>3. d.counted.time < e.counted.time \/ (d.counted.time = e.counted.time /\ d.counted.nth <= e.counted.nth)
      BY <1>3, <1>4, <3>1, <3>2
    <3> QED
      BY <1>3, <3>1, <3>3 DEF Before
  <2>3. Cardinality(A) <= n
    BY <1>7 DEF FitsIn
  <2> HIDE DEF A, B
  <2>4. Cardinality(B) <= Cardinality(A) /\ Cardinality(A) \in Nat /\ Cardinality(B) \in Nat
    BY <2>1, <2>2, NotMore
  <2>5. Cardinality(B) <= n
    BY <2>3, <2>4
  <2> QED
    BY <2>5 DEF B
<1> HIDE DEF same
<1>8. Minute \in Nat /\ Hour \in Nat /\ Day \in Nat
  BY RiskAssumption
<1> QED
  BY <1>5, <1>6, <1>7, <1>8

\* What the engine remembers of earlier orders binds the later ones: no order
\* whose check begins after the breaker has tripped is let through while the
\* breaker stays switched on, and the orders let through never exceed the limits
\* the last of them was counted against, for any number of parallel checks, with
\* every window and limit, trades and administrators writing in between.
THEOREM RiskRulesRemember == RiskSpec => []RulesRemember
<1>1. RiskInv /\ [RiskNext]_riskVars => RiskInv'
  <2> SUFFICES ASSUME RiskInv, [RiskNext]_riskVars PROVE RiskInv'
    OBVIOUS
  <2>1. ASSUME NEW c \in Submitters,
               Check(c) \/ CheckCircuitBreaker(c) \/ CheckValues(c) \/ CheckPriceBand(c)
                 \/ CheckUserRateLimits(c) \/ CheckPositionLimit(c)
        PROVE  RiskInv'
    BY <2>1, NewCheckKeeps, StepsKeep, CountKeeps, PositionKeeps
  <2>2. CASE UpdateReferencePrice
    BY <2>2, TradeKeeps
  <2>3. CASE WriteField
    BY <2>3, EditKeeps
  <2>4. CASE BeginUpdate \/ RiskTick \/ RiskRestart \/ UNCHANGED riskVars
    BY <2>4, RiskRestKeeps
  <2> QED
    BY <2>1, <2>2, <2>3, <2>4 DEF RiskNext
<1>2. RiskInv => RulesRemember
  BY RatesHold DEF RulesRemember, RiskInv, BreakerHolds
<1> QED
  BY <1>1, <1>2, RiskStart, PTL DEF RiskSpec

-----------------------------------------------------------------------------
(***************************************************************************)
(* Limiters.  Each counter is followed by itself: the calls it let through *)
(* (CallsOf) against what it remembers.  A fixed window counts those since *)
(* it began, and at most the limit came in the window before; a lockout    *)
(* either counts all its failures or is shut until the last is over.       *)
(* A sliding window in memory holds the calls of every window of time that *)
(* ends at a time T, and they are within the limit (Held), until a caller  *)
(* of a later time cuts; then only those can still come through who read   *)
(* a time up to T before and wait for the lock (Stalled).                  *)
(* For Redis, the calls of a window ending at a time T that are through or *)
(* about to be added stay within the limit and a call for every other      *)
(* caller, as long as what is through and not lost is in the set; once     *)
(* members of that window are removed, by a caller or with the key, which  *)
(* is after T, only those who were counting then can still come through    *)
(* (Adrift).                                                               *)
(***************************************************************************)
CallsOf(all, by, at, k) == {e \in all : e.by = by /\ e.at = at /\ e.key = k}
InWindow(all, T)   == {e \in all : e.time > T - LimitWindow /\ e.time <= T}
Bounded(all, n)    == \A T \in Int : Cardinality(InWindow(all, T)) <= n
Timed(all, moment)    == IsFiniteSet(all) /\ \A e \in all : e.time \in Nat /\ e.time <= moment

SameCalls(all, e)  == {d \in all : <<d.by, d.at, d.key, d.time>> = <<e.by, e.at, e.key, e.time>>}
CallsNumbered(all) == \A e \in all : e.nth \in Nat /\ e.nth < Cardinality(SameCalls(all, e))

Members(stamps) == {stamps[i] : i \in 1..Len(stamps)}
\* Callers that wait for the lock, of a window that ends at T.
AtLock(who, g, k, T) ==
  {c \in DOMAIN who : /\ who[c].step = "lock" /\ who[c].gateway = g /\ who[c].key = k
                      /\ who[c].now > T - LimitWindow /\ who[c].now <= T}
Waiting(who, g, k, T) == Cardinality(AtLock(who, g, k, T))
Held(all, stamps, T) == InWindow(all, T) \subseteq Members(stamps) /\ Cardinality(InWindow(all, T)) <= LimitMax
Stalled(all, who, g, k, T, moment) ==
  /\ moment > T
  /\ Cardinality(InWindow(all, T)) + Waiting(who, g, k, T) <= LimitMax + (Cardinality(DOMAIN who) - 1)
ListOk(all, stamps, who, g, k, moment) ==
  stamps \in Seq(all) /\ \A T \in Int : Held(all, stamps, T) \/ Stalled(all, who, g, k, T, moment)
MemoryOk(all, w, who, g, k, moment) ==
  IF k \in DOMAIN w THEN ListOk(all, w[k].stamps, who, g, k, moment) ELSE all = {}

Current(all, reset)   == {e \in all : e.time >= reset - LimitWindow}
Preceding(all, reset) == {e \in all : e.time > (reset - LimitWindow) - LimitWindow /\ e.time < reset - LimitWindow}
FixedOk(all, f, moment) ==
  /\ f.count \in Nat /\ f.resetAt \in Int
  /\ f.resetAt = -1 => all = {}
  /\ f.resetAt # -1 => f.resetAt - LimitWindow >= 0 /\ f.resetAt - LimitWindow <= moment
  /\ \A e \in all : e.time <= f.resetAt
  /\ Cardinality(Current(all, f.resetAt)) <= f.count /\ Cardinality(Current(all, f.resetAt)) <= LimitMax
  /\ Cardinality(Preceding(all, f.resetAt)) <= LimitMax
  /\ Bounded(all, 2 * LimitMax)

LockOk(all, l) ==
  /\ l.failures \in Nat /\ l.lockedUntil \in Nat
  /\ IF l.failures < LimitMax THEN Cardinality(all) <= l.failures /\ l.lockedUntil = 0
     ELSE \A e \in all : e.time + LimitWindow <= l.lockedUntil
  /\ Bounded(all, LimitMax)

\* Calls to Redis between two of its commands, of a window that ends at T.
Between(who, k, step, T) ==
  {c \in DOMAIN who : who[c].step = step /\ who[c].key = k /\ who[c].now > T - LimitWindow /\ who[c].now <= T}
Adding(who, k, T)   == Cardinality(Between(who, k, "add", T))
Counting(who, k, T) == Cardinality(Between(who, k, "card", T))
InSet(all, z, who, k, T, missing) ==
  /\ Cardinality(InWindow(all, T) \ z) <= missing
  /\ Cardinality(InWindow(all, T)) + Adding(who, k, T) <= (LimitMax + missing) + (Cardinality(DOMAIN who) - 1)
Adrift(all, who, k, T, moment, missing) ==
  /\ moment > T
  /\ Cardinality(InWindow(all, T)) + Adding(who, k, T) + Counting(who, k, T)
       <= (LimitMax + missing) + (2 * Cardinality(DOMAIN who) - 1)
RedisOk(all, z, who, k, moment, missing) ==
  IsFiniteSet(z) /\ \A T \in Int : InSet(all, z, who, k, T, missing) \/ Adrift(all, who, k, T, moment, missing)

Calling(q, gateways, keys, moment) ==
  /\ q = [step |-> q.step, gateway |-> q.gateway, key |-> q.key, now |-> q.now]
  /\ q.step \in {"lock", "card", "add", "expire"} /\ q.gateway \in gateways /\ q.key \in keys /\ q.now \in Nat /\ q.now <= moment
\* The counters there are: one of each kind at a gateway, and the sets of Redis.
Answers(by, at, s) == (at \in s.gateways \/ (at = "redis" /\ by = "cache")) /\ (by = "cache" => s.callers # {})
CallsKnown(all, s, moment) ==
  /\ Timed(all, moment) /\ CallsNumbered(all)
  /\ \A e \in all : /\ e.key \in s.keys
                    /\ Answers(e.by, e.at, s)
                    /\ e.by \in {"cache", "window", "lockout"}
CountersOk(all, f, l, g, k, moment) ==
  /\ f = [count |-> f.count, resetAt |-> f.resetAt] /\ FixedOk(CallsOf(all, "window", g, k), f, moment)
  /\ LockOk(CallsOf(all, "lockout", g, k), l)

LocalInv ==
  /\ CallsKnown(granted, limSetup, limClock)
  /\ fixed = [g \in limSetup.gateways |-> fixed[g]] /\ lockout = [g \in limSetup.gateways |-> lockout[g]]
  /\ \A g \in limSetup.gateways : fixed[g] = [k \in Keys |-> fixed[g][k]] /\ lockout[g] = [k \in Keys |-> lockout[g][k]]
  /\ \A g \in limSetup.gateways, k \in Keys :
       CountersOk(granted, fixed[g][k], lockout[g][k], g, k, limClock)
CallersOk ==
  /\ caller = [c \in limSetup.callers |-> caller[c]]
  /\ \A c \in limSetup.callers : caller[c] = Ready \/ Calling(caller[c], limSetup.gateways, Keys, limClock)
MemInv ==
  /\ windows = [g \in limSetup.gateways |-> windows[g]]
  /\ \A g \in limSetup.gateways, k \in Keys :
       MemoryOk(CallsOf(granted, "cache", g, k), windows[g], caller, g, k, limClock)
RedisInv ==
  /\ zset = [k \in Keys |-> zset[k]]
  /\ \A k \in Keys : RedisOk(CallsOf(granted, "cache", "redis", k), zset[k], caller, k, limClock, lost)
LimInv == /\ limSetup \in LimitSetups /\ limClock \in Nat /\ lost \in Nat
          /\ CallersOk /\ LocalInv /\ MemInv /\ RedisInv

\* One call more fits when the calls of the window that ends now leave room.
LEMMA BoundedGrows ==
  ASSUME NEW all, NEW moment \in Nat, Timed(all, moment), NEW e, e.time = moment, NEW n \in Nat, Bounded(all, n),
         Cardinality(Trimmed(all, moment)) < n
  PROVE  Bounded(all \cup {e}, n)
<1>0. LimitWindow \in Nat /\ LimitWindow > 0
  BY LimitAssumption
<1>1. SUFFICES ASSUME NEW T \in Int PROVE Cardinality(InWindow(all \cup {e}, T)) <= n
  BY DEF Bounded
<1>2. CASE T < moment
  <2>1. InWindow(all \cup {e}, T) = InWindow(all, T)
    BY <1>2 DEF InWindow
  <2> QED
    BY <2>1 DEF Bounded
<1>3. CASE T >= moment
  <2> DEFINE R == Trimmed(all, moment)
  <2>1. IsFiniteSet(R)
    BY FS_Subset DEF Trimmed, Timed
  <2>2. InWindow(all \cup {e}, T) \subseteq R \cup {e}
    BY <1>0, <1>3 DEF InWindow, Trimmed, Timed
  <2> HIDE DEF R
  <2>3. IsFiniteSet(R \cup {e}) /\ Cardinality(R) \in Nat /\ Cardinality(R \cup {e}) <= Cardinality(R) + 1
    BY <2>1, OneMoreAtMost
  <2>4. Cardinality(InWindow(all \cup {e}, T)) <= Cardinality(R \cup {e})
        /\ Cardinality(R \cup {e}) \in Nat /\ Cardinality(InWindow(all \cup {e}, T)) \in Nat
    BY <2>2, <2>3, NotMore
  <2>5. Cardinality(R) < n
    BY DEF R
  <2> QED
    BY <2>3, <2>4, <2>5
<1> QED
  BY <1>2, <1>3

LEMMA NothingBounded == \A n \in Nat : Bounded({}, n)
<1> TAKE n \in Nat
<1>1. \A T \in Int : InWindow({}, T) = {}
  BY DEF InWindow
<1>2. Cardinality({}) = 0
  BY FS_EmptySet
<1> QED
  BY <1>1, <1>2 DEF Bounded

\* A call that is let through is a new one, and the calls stay numbered.
LEMMA GrantedNew ==
  ASSUME IsFiniteSet(granted), CallsNumbered(granted), NEW by, NEW at, NEW k, NEW time
  PROVE  LET new == Granted(by, at, k, time) IN
         /\ new = [by |-> by, at |-> at, key |-> k, time |-> time, nth |-> new.nth] /\ new.nth \in Nat
         /\ new.by = by /\ new.at = at /\ new.key = k /\ new.time = time
         /\ new \notin granted
         /\ CallsNumbered(granted \cup {new})
<1> DEFINE S == Grants(by, at, k, time)
           new == Granted(by, at, k, time)
<1>1. S = {e \in granted : <<e.by, e.at, e.key, e.time>> = <<by, at, k, time>>}
  BY DEF Grants
<1>2. IsFiniteSet(S)
  BY <1>1, FS_Subset
<1>3. Cardinality(S) \in Nat
  BY <1>2, FS_CardinalityType
<1>4. new = [by |-> by, at |-> at, key |-> k, time |-> time, nth |-> Cardinality(S)]
  BY DEF Granted
<1> HIDE DEF S, new
<1>5. new.by = by /\ new.at = at /\ new.key = k /\ new.time = time /\ new.nth = Cardinality(S)
  BY <1>4
<1>6. \A e \in S : SameCalls(granted, e) = S
  BY <1>1 DEF SameCalls
<1>7. \A e \in S : e.nth < Cardinality(S) /\ e.nth \in Nat
  BY <1>1, <1>6 DEF CallsNumbered
<1>8. new \notin S
  BY <1>3, <1>5, <1>7
<1>9. new \notin granted
  BY <1>1, <1>5, <1>8
<1>10. CallsNumbered(granted \cup {new})
  <2> SUFFICES ASSUME NEW e \in granted \cup {new}
               PROVE  e.nth \in Nat /\ e.nth < Cardinality(SameCalls(granted \cup {new}, e))
    BY DEF CallsNumbered
  <2>1. CASE e \in S \cup {new}
    <3>1. SameCalls(granted \cup {new}, e) = S \cup {new}
      BY <1>1, <1>5, <2>1 DEF SameCalls
    <3>2. Cardinality(S \cup {new}) = Cardinality(S) + 1
      BY <1>2, <1>8, FS_AddElement
    <3>3. e.nth \in Nat /\ e.nth <= Cardinality(S)
      BY <1>3, <1>5, <1>7, <2>1
    <3>4. e.nth < Cardinality(S \cup {new})
      BY <1>3, <3>2, <3>3
    <3> QED
      BY <3>1, <3>3, <3>4
  <2>2. CASE e \notin S \cup {new}
    <3>1. e \in granted
      BY <2>2
    <3>2. SameCalls(granted \cup {new}, e) = SameCalls(granted, e)
      BY <1>1, <1>5, <2>2, <3>1 DEF SameCalls
    <3> QED
      BY <3>1, <3>2 DEF CallsNumbered
  <2> QED
    BY <2>1, <2>2
<1> QED
  BY <1>3, <1>4, <1>5, <1>9, <1>10 DEF new

\* Counters that are dropped, dropped with all they let through.
LEMMA DroppedNumbered ==
  ASSUME NEW all, IsFiniteSet(all), CallsNumbered(all), NEW some, some \subseteq all,
         \A d, e \in all : d \in some /\ <<d.by, d.at, d.key>> = <<e.by, e.at, e.key>> => e \in some
  PROVE  IsFiniteSet(some) /\ CallsNumbered(some)
<1>1. \A e \in some : SameCalls(some, e) = SameCalls(all, e)
  BY DEF SameCalls
<1>2. IsFiniteSet(some)
  BY FS_Subset
<1> QED
  BY <1>1, <1>2 DEF CallsNumbered

\* A window that is over is replaced by one that begins with the call.
LEMMA WindowBegins ==
  ASSUME NEW all, NEW moment \in Nat, Timed(all, moment), NEW f, FixedOk(all, f, moment), moment > f.resetAt, NEW e, e.time = moment,
         NEW f2, f2.count = 1, f2.resetAt = moment + LimitWindow
  PROVE  FixedOk(all \cup {e}, f2, moment)
<1>0. LimitWindow \in Nat /\ LimitWindow > 0 /\ LimitMax \in Nat /\ LimitMax > 0
  BY LimitAssumption
<1>1. f.resetAt \in Int /\ \A d \in all : d.time \in Nat /\ d.time <= moment /\ d.time <= f.resetAt
  BY DEF FixedOk, Timed
<1>2. IsFiniteSet(all)
  BY DEF Timed
<1>3. Trimmed(all, moment) \subseteq Current(all, f.resetAt) /\ Preceding(all, moment + LimitWindow) \subseteq Current(all, f.resetAt)
  BY <1>0, <1>1 DEF Trimmed, Current, Preceding
<1>4. IsFiniteSet(Current(all, f.resetAt))
  BY <1>2, FS_Subset DEF Current
<1>5. /\ Cardinality(Trimmed(all, moment)) <= Cardinality(Current(all, f.resetAt)) /\ Cardinality(Trimmed(all, moment)) \in Nat
      /\ Cardinality(Preceding(all, moment + LimitWindow)) <= Cardinality(Current(all, f.resetAt))
      /\ Cardinality(Preceding(all, moment + LimitWindow)) \in Nat /\ Cardinality(Current(all, f.resetAt)) \in Nat
  BY <1>3, <1>4, NotMore
<1>6. Cardinality(Current(all, f.resetAt)) <= LimitMax /\ Bounded(all, 2 * LimitMax)
  BY DEF FixedOk
<1>7. Bounded(all \cup {e}, 2 * LimitMax)
  <2>1. Cardinality(Trimmed(all, moment)) < 2 * LimitMax /\ 2 * LimitMax \in Nat
    BY <1>0, <1>5, <1>6
  <2> QED
    BY <2>1, <1>6, BoundedGrows
<1>8. Current(all \cup {e}, moment + LimitWindow) = {e} /\ Preceding(all \cup {e}, moment + LimitWindow) = Preceding(all, moment + LimitWindow)
  BY <1>0, <1>1 DEF Current, Preceding
<1>9. Cardinality({e}) = 1
  BY FS_Singleton
<1>10. Cardinality(Preceding(all, moment + LimitWindow)) <= LimitMax
  BY <1>0, <1>5, <1>6
<1>11. /\ f2.count = 1 /\ f2.count \in Nat /\ f2.resetAt \in Int /\ f2.resetAt # -1
       /\ f2.resetAt - LimitWindow >= 0 /\ f2.resetAt - LimitWindow <= moment
       /\ \A d \in all \cup {e} : d.time <= f2.resetAt
  BY <1>0, <1>1
<1>12. /\ Cardinality(Current(all \cup {e}, f2.resetAt)) <= f2.count /\ Cardinality(Current(all \cup {e}, f2.resetAt)) <= LimitMax
       /\ Cardinality(Preceding(all \cup {e}, f2.resetAt)) <= LimitMax
  BY <1>0, <1>8, <1>9, <1>10
<1> QED
  BY <1>7, <1>11, <1>12 DEF FixedOk

\* A window that still runs counts the call, let through or not.
LEMMA WindowCounts ==
  ASSUME NEW all, NEW moment \in Nat, Timed(all, moment), NEW f, FixedOk(all, f, moment), moment <= f.resetAt, NEW e, e.time = moment,
         NEW f2, f2.count = f.count + 1, f2.resetAt = f.resetAt
  PROVE  FixedOk(all, f2, moment) /\ (f.count + 1 <= LimitMax => FixedOk(all \cup {e}, f2, moment))
<1>0. LimitWindow \in Nat /\ LimitWindow > 0 /\ LimitMax \in Nat /\ LimitMax > 0
  BY LimitAssumption
<1>1. f.resetAt \in Int /\ f.count \in Nat /\ f.resetAt # -1 /\ f.resetAt - LimitWindow <= moment /\ f.resetAt - LimitWindow >= 0
      /\ \A d \in all : d.time \in Nat /\ d.time <= moment /\ d.time <= f.resetAt
  BY DEF FixedOk, Timed
<1>2. IsFiniteSet(all)
  BY DEF Timed
<1> DEFINE C == Current(all, f.resetAt)
           P == Preceding(all, f.resetAt)
<1>3. IsFiniteSet(C) /\ IsFiniteSet(P)
  BY <1>2, FS_Subset DEF Current, Preceding
<1>4. Cardinality(C) \in Nat /\ Cardinality(P) \in Nat
  BY <1>3, FS_CardinalityType
<1>5. Cardinality(C) <= f.count /\ Cardinality(C) <= LimitMax /\ Cardinality(P) <= LimitMax /\ Bounded(all, 2 * LimitMax)
  BY DEF FixedOk
<1>6. FixedOk(all, f2, moment)
  <2>1. Cardinality(C) <= f.count + 1
    <3> HIDE DEF C
    <3> QED
      BY <1>1, <1>4, <1>5
  <2> QED
    BY <1>1, <1>5, <2>1 DEF FixedOk
<1>7. ASSUME f.count + 1 <= LimitMax PROVE FixedOk(all \cup {e}, f2, moment)
  <2>1. Current(all \cup {e}, f.resetAt) = C \cup {e} /\ Preceding(all \cup {e}, f.resetAt) = P
    BY <1>0, <1>1 DEF Current, Preceding
  <2>2. Trimmed(all, moment) \subseteq C \cup P
    BY <1>0, <1>1 DEF Current, Preceding, Trimmed
  <2> HIDE DEF C, P
  <2>3. Cardinality(C \cup {e}) <= f.count + 1 /\ Cardinality(C \cup {e}) <= LimitMax
    <3>1. Cardinality(C \cup {e}) <= Cardinality(C) + 1 /\ Cardinality(C \cup {e}) \in Nat
      BY <1>3, OneMoreAtMost
    <3> QED
      BY <1>0, <1>1, <1>4, <1>5, <1>7, <3>1
  <2>4. Cardinality(Trimmed(all, moment)) < 2 * LimitMax
    <3>1. IsFiniteSet(C \cup P) /\ Cardinality(C \cup P) = Cardinality(C) + Cardinality(P) - Cardinality(C \cap P)
      BY <1>3, FS_Union
    <3>2. Cardinality(C \cap P) \in Nat
      BY <1>3, FS_Intersection, FS_CardinalityType
    <3>3. Cardinality(Trimmed(all, moment)) <= Cardinality(C \cup P) /\ Cardinality(Trimmed(all, moment)) \in Nat /\ Cardinality(C \cup P) \in Nat
      BY <2>2, <3>1, NotMore
    <3>4. Cardinality(C \cup P) <= Cardinality(C) + Cardinality(P)
      BY <1>4, <3>1, <3>2
    <3>5. Cardinality(C) < LimitMax
      BY <1>0, <1>1, <1>4, <1>5, <1>7
    <3> QED
      BY <1>0, <1>4, <1>5, <3>3, <3>4, <3>5
  <2>5. Bounded(all \cup {e}, 2 * LimitMax)
    <3>1. 2 * LimitMax \in Nat
      BY <1>0
    <3> QED
      BY <1>5, <2>4, <3>1, BoundedGrows
  <2>6. \A d \in all \cup {e} : d.time <= f.resetAt
    BY <1>1
  <2>7. /\ f2.count \in Nat /\ f2.resetAt \in Int /\ f2.resetAt # -1
        /\ f2.resetAt - LimitWindow >= 0 /\ f2.resetAt - LimitWindow <= moment
        /\ \A d \in all \cup {e} : d.time <= f2.resetAt
    BY <1>1, <2>6
  <2>8. /\ Cardinality(Current(all \cup {e}, f2.resetAt)) <= f2.count /\ Cardinality(Current(all \cup {e}, f2.resetAt)) <= LimitMax
        /\ Cardinality(Preceding(all \cup {e}, f2.resetAt)) <= LimitMax
    BY <1>5, <2>1, <2>3
  <2> QED
    BY <2>5, <2>7, <2>8 DEF FixedOk
<1> QED
  BY <1>6, <1>7

LEMMA LockCounts ==
  ASSUME NEW all, NEW moment \in Nat, Timed(all, moment), NEW l, LockOk(all, l), NEW e, e.time = moment,
         NEW l2, l2.failures = l.failures + 1,
         l2.lockedUntil = IF l.failures + 1 >= LimitMax THEN moment + LimitWindow ELSE l.lockedUntil
  PROVE  IF moment < l.lockedUntil THEN LockOk(all, l2) ELSE LockOk(all \cup {e}, l2)
<1>0. LimitWindow \in Nat /\ LimitWindow > 0 /\ LimitMax \in Nat /\ LimitMax > 0
  BY LimitAssumption
<1>1. IsFiniteSet(all) /\ (\A d \in all : d.time \in Nat /\ d.time <= moment) /\ Cardinality(all) \in Nat
  BY FS_CardinalityType DEF Timed
<1>2. l.failures \in Nat /\ l.lockedUntil \in Nat /\ Bounded(all, LimitMax)
  BY DEF LockOk
<1>3. CASE moment < l.lockedUntil
  <2>1. l.failures >= LimitMax /\ l2.failures >= LimitMax /\ l2.lockedUntil = moment + LimitWindow
    BY <1>0, <1>2, <1>3 DEF LockOk
  <2>2. \A d \in all : d.time + LimitWindow <= l2.lockedUntil
    BY <1>0, <1>1, <2>1
  <2>3. l2.failures \in Nat /\ l2.lockedUntil \in Nat /\ ~(l2.failures < LimitMax)
    BY <1>0, <1>2, <2>1
  <2> QED
    BY <1>2, <1>3, <2>2, <2>3 DEF LockOk
<1>4. CASE ~(moment < l.lockedUntil)
  <2>1. Cardinality(Trimmed(all, moment)) < LimitMax
    <3>1. CASE l.failures < LimitMax
      <4>1. Cardinality(Trimmed(all, moment)) <= Cardinality(all) /\ Cardinality(Trimmed(all, moment)) \in Nat
        <5>1. Trimmed(all, moment) \subseteq all
          BY DEF Trimmed
        <5> QED
          BY <1>1, <5>1, NotMore
      <4>2. Cardinality(all) <= l.failures
        BY <3>1 DEF LockOk
      <4> QED
        BY <1>0, <1>1, <1>2, <3>1, <4>1, <4>2
    <3>2. CASE ~(l.failures < LimitMax)
      <4>1. \A d \in all : d.time + LimitWindow <= l.lockedUntil
        BY <3>2 DEF LockOk
      <4>2. Trimmed(all, moment) = {}
        BY <1>0, <1>1, <1>2, <1>4, <4>1 DEF Trimmed
      <4> QED
        BY <1>0, <4>2, FS_EmptySet
    <3> QED
      BY <3>1, <3>2
  <2>2. Bounded(all \cup {e}, LimitMax)
    BY <1>0, <1>2, <2>1, BoundedGrows
  <2>3. l2.failures \in Nat /\ l2.lockedUntil \in Nat
    BY <1>0, <1>2
  <2>4. CASE l2.failures < LimitMax
    <3>1. Cardinality(all) <= l.failures /\ l2.lockedUntil = 0
      BY <1>0, <1>2, <2>4 DEF LockOk
    <3>2. Cardinality(all \cup {e}) <= Cardinality(all) + 1 /\ Cardinality(all \cup {e}) \in Nat
      BY <1>1, OneMoreAtMost
    <3>3. Cardinality(all \cup {e}) <= l2.failures
      BY <1>1, <1>2, <3>1, <3>2
    <3> QED
      BY <1>4, <2>2, <2>3, <2>4, <3>1, <3>3 DEF LockOk
  <2>5. CASE ~(l2.failures < LimitMax)
    <3>1. l2.lockedUntil = moment + LimitWindow
      BY <1>0, <1>2, <2>5
    <3>2. \A d \in all \cup {e} : d.time + LimitWindow <= l2.lockedUntil
      BY <1>0, <1>1, <3>1
    <3> QED
      BY <1>4, <2>2, <2>3, <2>5, <3>2 DEF LockOk
  <2> QED
    BY <2>4, <2>5
<1> QED
  BY <1>3, <1>4

LEMMA NothingCounted ==
  ASSUME NEW moment \in Nat
  PROVE  FixedOk({}, Fixed0, moment) /\ LockOk({}, Lockout0)
<1>0. LimitMax \in Nat /\ LimitMax > 0 /\ 2 * LimitMax \in Nat
  BY LimitAssumption
<1>1. Bounded({}, LimitMax) /\ Bounded({}, 2 * LimitMax)
  BY <1>0, NothingBounded
<1>2. Current({}, -1) = {} /\ Preceding({}, -1) = {} /\ Cardinality({}) = 0
  BY FS_EmptySet DEF Current, Preceding
<1>3. FixedOk({}, Fixed0, moment)
  BY <1>0, <1>1, <1>2 DEF FixedOk, Fixed0
<1>4. LockOk({}, Lockout0)
  BY <1>0, <1>1, <1>2 DEF LockOk, Lockout0
<1> QED
  BY <1>3, <1>4

LEMMA LaterOk ==
  ASSUME NEW all, NEW moment \in Nat, NEW f, FixedOk(all, f, moment) PROVE FixedOk(all, f, moment + 1)
<1>0. LimitWindow \in Nat
  BY LimitAssumption
<1>1. f.resetAt \in Int
  BY DEF FixedOk
<1>2. f.resetAt # -1 => f.resetAt - LimitWindow <= moment + 1
  BY <1>0, <1>1 DEF FixedOk
<1> QED
  BY <1>2 DEF FixedOk

LEMMA BetweenFinite ==
  ASSUME NEW who, IsFiniteSet(DOMAIN who), NEW k, NEW step, NEW T
  PROVE  /\ IsFiniteSet(Between(who, k, step, T)) /\ Cardinality(Between(who, k, step, T)) \in Nat
         /\ Cardinality(DOMAIN who) \in Nat /\ Cardinality(Between(who, k, step, T)) <= Cardinality(DOMAIN who)
<1>1. Between(who, k, step, T) \subseteq DOMAIN who
  BY DEF Between
<1> QED
  BY <1>1, NotMore

LEMMA WindowFinite ==
  ASSUME NEW all, IsFiniteSet(all), NEW T, NEW z
  PROVE  /\ IsFiniteSet(InWindow(all, T)) /\ Cardinality(InWindow(all, T)) \in Nat
         /\ IsFiniteSet(InWindow(all, T) \ z) /\ Cardinality(InWindow(all, T) \ z) \in Nat
<1>1. InWindow(all, T) \subseteq all /\ InWindow(all, T) \ z \subseteq all
  BY DEF InWindow
<1> QED
  BY <1>1, NotMore

\* Calls that leave Redis, or that are about another key.
LEMMA FewerBetween ==
  ASSUME NEW all, IsFiniteSet(all), NEW z, NEW who, IsFiniteSet(DOMAIN who), NEW k, NEW moment \in Int, NEW missing \in Nat,
         RedisOk(all, z, who, k, moment, missing),
         NEW who2, DOMAIN who2 = DOMAIN who, NEW later \in Int, later >= moment, NEW missing2 \in Nat, missing2 >= missing,
         \A c \in DOMAIN who : who2[c] = who[c] \/ who2[c].step \notin {"card", "add"} \/ who2[c].key # k
  PROVE  RedisOk(all, z, who2, k, later, missing2)
<1>0. LimitMax \in Nat
  BY LimitAssumption
<1>1. IsFiniteSet(z)
  BY DEF RedisOk
<1> SUFFICES ASSUME NEW T \in Int
             PROVE  InSet(all, z, who2, k, T, missing2) \/ Adrift(all, who2, k, T, later, missing2)
  BY <1>1 DEF RedisOk
<1>2. Between(who2, k, "add", T) \subseteq Between(who, k, "add", T) /\ Between(who2, k, "card", T) \subseteq Between(who, k, "card", T)
  BY DEF Between
<1>3. /\ Adding(who2, k, T) <= Adding(who, k, T) /\ Adding(who2, k, T) \in Nat /\ Adding(who, k, T) \in Nat
      /\ Counting(who2, k, T) <= Counting(who, k, T) /\ Counting(who2, k, T) \in Nat /\ Counting(who, k, T) \in Nat
  BY <1>2, BetweenFinite, NotMore DEF Adding, Counting
<1>4. PICK n \in Nat : n = Cardinality(DOMAIN who)
  BY FS_CardinalityType
<1>5. PICK w \in Nat : w = Cardinality(InWindow(all, T))
  BY WindowFinite
<1>6. PICK m \in Nat : m = Cardinality(InWindow(all, T) \ z)
  BY WindowFinite
<1>7. CASE InSet(all, z, who, k, T, missing)
  <2>1. m <= missing /\ w + Adding(who, k, T) <= (LimitMax + missing) + (n - 1)
    BY <1>4, <1>5, <1>6, <1>7 DEF InSet
  <2>2. m <= missing2 /\ w + Adding(who2, k, T) <= (LimitMax + missing2) + (n - 1)
    BY <1>0, <1>3, <2>1
  <2> QED
    BY <1>4, <1>5, <1>6, <2>2 DEF InSet
<1>8. CASE Adrift(all, who, k, T, moment, missing)
  <2>1. moment > T /\ w + Adding(who, k, T) + Counting(who, k, T) <= (LimitMax + missing) + (2 * n - 1)
    BY <1>4, <1>5, <1>8 DEF Adrift
  <2>2. later > T /\ w + Adding(who2, k, T) + Counting(who2, k, T) <= (LimitMax + missing2) + (2 * n - 1)
    BY <1>0, <1>3, <2>1
  <2> QED
    BY <1>4, <1>5, <2>2 DEF Adrift
<1> QED
  BY <1>7, <1>8 DEF RedisOk

\* What is older is removed, or is not: in the windows that end before, the
\* members of the set are no longer a measure.
LEMMA RemovedOk ==
  ASSUME NEW all, IsFiniteSet(all), NEW z, NEW who, IsFiniteSet(DOMAIN who), NEW k, NEW moment \in Int, NEW missing \in Nat,
         RedisOk(all, z, who, k, moment, missing),
         NEW c \in DOMAIN who, who[c].step \notin {"card", "add"},
         NEW who2, DOMAIN who2 = DOMAIN who, \A d \in DOMAIN who \ {c} : who2[d] = who[d],
         who2[c].step = "card", who2[c].now = moment,
         \A e \in all : e.time \in Int, NEW z2 \in {z, Trimmed(z, moment)}
  PROVE  RedisOk(all, z2, who2, k, moment, missing)
<1>0. LimitMax \in Nat /\ LimitWindow \in Nat
  BY LimitAssumption
<1>1. IsFiniteSet(z)
  BY DEF RedisOk
<1>2. IsFiniteSet(z2)
  BY <1>1, FS_Subset DEF Trimmed
<1> SUFFICES ASSUME NEW T \in Int
             PROVE  InSet(all, z2, who2, k, T, missing) \/ Adrift(all, who2, k, T, moment, missing)
  BY <1>2 DEF RedisOk
<1>3. Between(who2, k, "add", T) = Between(who, k, "add", T)
  BY DEF Between
<1>4. PICK n \in Nat : n = Cardinality(DOMAIN who)
  BY FS_CardinalityType
<1>5. PICK w \in Nat : w = Cardinality(InWindow(all, T))
  BY WindowFinite
<1>6. PICK a \in Nat : a = Adding(who, k, T) /\ a = Adding(who2, k, T)
  BY <1>3, BetweenFinite DEF Adding
<1>7. CASE T >= moment
  <2>1. InSet(all, z, who, k, T, missing)
    BY <1>7 DEF RedisOk, Adrift
  <2>2. InWindow(all, T) \ z2 = InWindow(all, T) \ z
    BY <1>0, <1>7 DEF InWindow, Trimmed
  <2> QED
    BY <1>6, <2>1, <2>2 DEF InSet
<1>8. CASE T < moment
  <2>1. PICK b \in Nat : b = Counting(who2, k, T)
    BY BetweenFinite DEF Counting
  <2>2. Between(who2, k, "card", T) \subseteq Between(who, k, "card", T) /\ Between(who2, k, "card", T) \subseteq DOMAIN who \ {c}
    BY <1>8 DEF Between
  <2>3. CASE InSet(all, z, who, k, T, missing)
    <3>1. b <= n - 1
      <4>1. IsFiniteSet(DOMAIN who \ {c}) /\ Cardinality(DOMAIN who \ {c}) = Cardinality(DOMAIN who) - 1
        BY FS_RemoveElement
      <4>2. Cardinality(Between(who2, k, "card", T)) <= Cardinality(DOMAIN who \ {c})
        BY <2>2, <4>1, NotMore
      <4> QED
        BY <1>4, <2>1, <4>1, <4>2 DEF Counting
    <3>2. w + a <= (LimitMax + missing) + (n - 1)
      BY <1>4, <1>5, <1>6, <2>3 DEF InSet
    <3>3. w + a + b <= (LimitMax + missing) + (2 * n - 1)
      BY <1>0, <3>1, <3>2
    <3> QED
      BY <1>4, <1>5, <1>6, <1>8, <2>1, <3>3 DEF Adrift
  <2>4. CASE Adrift(all, who, k, T, moment, missing)
    <3>1. PICK b0 \in Nat : b0 = Counting(who, k, T)
      BY BetweenFinite DEF Counting
    <3>2. b <= b0
      BY <2>1, <2>2, <3>1, BetweenFinite, NotMore DEF Counting
    <3>3. w + a + b0 <= (LimitMax + missing) + (2 * n - 1)
      BY <1>4, <1>5, <1>6, <2>4, <3>1 DEF Adrift
    <3>4. w + a + b <= (LimitMax + missing) + (2 * n - 1)
      BY <1>0, <3>2, <3>3
    <3> QED
      BY <1>4, <1>5, <1>6, <1>8, <2>1, <3>4 DEF Adrift
  <2> QED
    BY <2>3, <2>4 DEF RedisOk
<1> QED
  BY <1>7, <1>8

\* A caller that found room goes on to add: what is through and not lost was
\* counted, and there are not more to add than callers.
LEMMA CountedOk ==
  ASSUME NEW all, IsFiniteSet(all), NEW z, NEW who, IsFiniteSet(DOMAIN who), NEW k, NEW moment \in Int, NEW missing \in Nat,
         RedisOk(all, z, who, k, moment, missing), Cardinality(z) < LimitMax,
         NEW c \in DOMAIN who, who[c].step = "card", who[c].key = k,
         NEW who2, DOMAIN who2 = DOMAIN who, \A d \in DOMAIN who \ {c} : who2[d] = who[d],
         who2[c].step = "add", who2[c].key = k, who2[c].now = who[c].now
  PROVE  RedisOk(all, z, who2, k, moment, missing)
<1>0. LimitMax \in Nat /\ LimitWindow \in Nat
  BY LimitAssumption
<1>1. IsFiniteSet(z)
  BY DEF RedisOk
<1> SUFFICES ASSUME NEW T \in Int
             PROVE  InSet(all, z, who2, k, T, missing) \/ Adrift(all, who2, k, T, moment, missing)
  BY <1>1 DEF RedisOk
<1>2. PICK n \in Nat : n = Cardinality(DOMAIN who)
  BY FS_CardinalityType
<1>3. PICK w \in Nat : w = Cardinality(InWindow(all, T))
  BY WindowFinite
<1>4. PICK a \in Nat : a = Adding(who, k, T)
  BY BetweenFinite DEF Adding
<1>5. PICK a2 \in Nat : a2 = Adding(who2, k, T)
  BY BetweenFinite DEF Adding
<1>6. PICK b \in Nat : b = Counting(who, k, T)
  BY BetweenFinite DEF Counting
<1>7. PICK b2 \in Nat : b2 = Counting(who2, k, T)
  BY BetweenFinite DEF Counting
<1>8. CASE ~(who[c].now > T - LimitWindow /\ who[c].now <= T)
  <2>1. Between(who2, k, "add", T) = Between(who, k, "add", T) /\ Between(who2, k, "card", T) = Between(who, k, "card", T)
    BY <1>8 DEF Between
  <2> QED
    BY <2>1 DEF RedisOk, InSet, Adrift, Adding, Counting
<1>9. CASE who[c].now > T - LimitWindow /\ who[c].now <= T
  <2>1. Between(who2, k, "add", T) = Between(who, k, "add", T) \cup {c}
        /\ Between(who2, k, "card", T) = Between(who, k, "card", T) \ {c}
        /\ c \notin Between(who, k, "add", T) /\ c \in Between(who, k, "card", T)
    BY <1>9 DEF Between
  <2>2. a2 = a + 1
    BY <1>4, <1>5, <2>1, BetweenFinite, FS_AddElement DEF Adding
  <2>3. b2 = b - 1
    BY <1>6, <1>7, <2>1, BetweenFinite, FS_RemoveElement DEF Counting
  <2>4. CASE InSet(all, z, who, k, T, missing)
    <3> DEFINE I == InWindow(all, T)
    <3>1. IsFiniteSet(I)
      BY WindowFinite
    <3> HIDE DEF I
    <3>2. I = (I \ z) \cup (I \cap z) /\ (I \ z) \cap (I \cap z) = {}
      OBVIOUS
    <3>3. IsFiniteSet(I \ z) /\ IsFiniteSet(I \cap z) /\ Cardinality(I \cap z) <= Cardinality(z)
          /\ Cardinality(I \cap z) \in Nat /\ Cardinality(z) \in Nat /\ Cardinality(I \ z) \in Nat
      <4>1. I \ z \subseteq I /\ I \cap z \subseteq z
        OBVIOUS
      <4> QED
        BY <1>1, <3>1, <4>1, NotMore
    <3>4. Cardinality((I \ z) \cup (I \cap z)) = Cardinality(I \ z) + Cardinality(I \cap z) - Cardinality((I \ z) \cap (I \cap z))
      BY <3>3, FS_Union
    <3>5. Cardinality((I \ z) \cap (I \cap z)) = 0
      BY <3>2, FS_EmptySet
    <3>6. w = Cardinality(I \ z) + Cardinality(I \cap z)
      <4>1. Cardinality(I) = Cardinality(I \ z) + Cardinality(I \cap z) - 0
        BY <3>2, <3>4, <3>5
      <4>2. w = Cardinality(I)
        BY <1>3 DEF I
      <4> QED
        BY <3>3, <4>1, <4>2
    <3>7. Cardinality(I \ z) <= missing
      BY <2>4 DEF InSet, I
    <3>8. w <= (LimitMax + missing) - 1
      BY <1>0, <3>3, <3>6, <3>7
    <3>9. a2 <= n
      BY <1>2, <1>5, BetweenFinite DEF Adding
    <3>10. w + a2 <= (LimitMax + missing) + (n - 1)
      BY <1>0, <3>8, <3>9
    <3> QED
      BY <1>2, <1>3, <1>5, <3>7, <3>10 DEF InSet, I
  <2>5. CASE Adrift(all, who, k, T, moment, missing)
    <3>1. w + a + b <= (LimitMax + missing) + (2 * n - 1)
      BY <1>2, <1>3, <1>4, <1>6, <2>5 DEF Adrift
    <3>2. w + a2 + b2 <= (LimitMax + missing) + (2 * n - 1)
      BY <1>0, <2>2, <2>3, <3>1
    <3> QED
      BY <1>2, <1>3, <1>5, <1>7, <2>5, <3>2 DEF Adrift
  <2> QED
    BY <2>4, <2>5 DEF RedisOk
<1> QED
  BY <1>8, <1>9

\* The call is through, and added or lost.
LEMMA AddedOk ==
  ASSUME NEW all, IsFiniteSet(all), NEW z, NEW who, IsFiniteSet(DOMAIN who), NEW k, NEW moment \in Int, NEW missing \in Nat,
         RedisOk(all, z, who, k, moment, missing),
         NEW c \in DOMAIN who, who[c].step = "add", who[c].key = k,
         NEW who2, DOMAIN who2 = DOMAIN who, \A d \in DOMAIN who \ {c} : who2[d] = who[d],
         who2[c].step \notin {"card", "add"},
         NEW e, e \notin all, e.time = who[c].now,
         NEW z2, NEW missing2, (z2 = z \cup {e} /\ missing2 = missing) \/ (z2 = z /\ missing2 = missing + 1)
  PROVE  RedisOk(all \cup {e}, z2, who2, k, moment, missing2)
<1>0. LimitMax \in Nat /\ LimitWindow \in Nat /\ missing2 \in Nat /\ missing2 >= missing
  BY LimitAssumption
<1>1. IsFiniteSet(z) /\ IsFiniteSet(z2)
  <2>1. IsFiniteSet(z)
    BY DEF RedisOk
  <2>2. IsFiniteSet(z \cup {e})
    BY <2>1, OneMoreAtMost
  <2> QED
    BY <2>1, <2>2
<1> SUFFICES ASSUME NEW T \in Int
             PROVE  InSet(all \cup {e}, z2, who2, k, T, missing2) \/ Adrift(all \cup {e}, who2, k, T, moment, missing2)
  BY <1>1 DEF RedisOk
<1> DEFINE I == InWindow(all, T)
           I2 == InWindow(all \cup {e}, T)
<1>2. PICK n \in Nat : n = Cardinality(DOMAIN who)
  BY FS_CardinalityType
<1>3. IsFiniteSet(I) /\ IsFiniteSet(I2) /\ IsFiniteSet(I2 \ z2) /\ IsFiniteSet(I \ z)
  BY OneMoreAtMost, WindowFinite
<1>4. PICK w \in Nat : w = Cardinality(I)
  BY WindowFinite
<1>5. PICK w2 \in Nat : w2 = Cardinality(I2)
  BY OneMoreAtMost, WindowFinite
<1>6. PICK a \in Nat : a = Adding(who, k, T)
  BY BetweenFinite DEF Adding
<1>7. PICK a2 \in Nat : a2 = Adding(who2, k, T)
  BY BetweenFinite DEF Adding
<1>8. Between(who2, k, "card", T) = Between(who, k, "card", T)
  BY DEF Between
<1>9. PICK b \in Nat : b = Counting(who, k, T) /\ b = Counting(who2, k, T)
  BY <1>8, BetweenFinite DEF Counting
<1>10. w2 + a2 = w + a
  <2>1. CASE who[c].now > T - LimitWindow /\ who[c].now <= T
    <3>1. Between(who2, k, "add", T) = Between(who, k, "add", T) \ {c} /\ c \in Between(who, k, "add", T)
      BY <2>1 DEF Between
    <3>2. a2 = a - 1
      BY <1>6, <1>7, <3>1, BetweenFinite, FS_RemoveElement DEF Adding
    <3>3. I2 = I \cup {e} /\ e \notin I
      BY <2>1 DEF InWindow
    <3> HIDE DEF I, I2
    <3>4. w2 = w + 1
      BY <1>3, <1>4, <1>5, <3>3, FS_AddElement
    <3> QED
      BY <3>2, <3>4
  <2>2. CASE ~(who[c].now > T - LimitWindow /\ who[c].now <= T)
    <3>1. Between(who2, k, "add", T) = Between(who, k, "add", T)
      BY <2>2 DEF Between
    <3>2. I2 = I
      BY <2>2 DEF InWindow
    <3> QED
      BY <1>4, <1>5, <1>6, <1>7, <3>1, <3>2 DEF Adding
  <2> QED
    BY <2>1, <2>2
<1>11. CASE InSet(all, z, who, k, T, missing)
  <2>1. Cardinality(I \ z) <= missing /\ w + a <= (LimitMax + missing) + (n - 1)
    BY <1>2, <1>4, <1>6, <1>11 DEF InSet
  <2>2. Cardinality(I \ z) \in Nat /\ Cardinality(I2 \ z2) \in Nat
    BY <1>3, FS_CardinalityType
  <2>3. Cardinality(I2 \ z2) <= missing2
    <3>1. CASE z2 = z \cup {e} /\ missing2 = missing
      <4>1. I2 \ z2 \subseteq I \ z
        BY <3>1 DEF InWindow
      <4> HIDE DEF I, I2
      <4>2. Cardinality(I2 \ z2) <= Cardinality(I \ z)
        BY <1>3, <4>1, NotMore
      <4> QED
        BY <2>1, <2>2, <3>1, <4>2
    <3>2. CASE z2 = z /\ missing2 = missing + 1
      <4>1. I2 \ z2 \subseteq (I \ z) \cup {e}
        BY <3>2 DEF InWindow
      <4> HIDE DEF I, I2
      <4>2. IsFiniteSet((I \ z) \cup {e}) /\ Cardinality((I \ z) \cup {e}) <= Cardinality(I \ z) + 1
            /\ Cardinality((I \ z) \cup {e}) \in Nat
        BY <1>3, OneMoreAtMost
      <4>3. Cardinality(I2 \ z2) <= Cardinality((I \ z) \cup {e})
        BY <4>1, <4>2, NotMore
      <4> QED
        BY <2>1, <2>2, <3>2, <4>2, <4>3
    <3> QED
      BY <3>1, <3>2
  <2>4. w2 + a2 <= (LimitMax + missing2) + (n - 1)
    BY <1>0, <1>10, <2>1
  <2> QED
    BY <1>2, <1>5, <1>7, <2>3, <2>4 DEF InSet
<1>12. CASE Adrift(all, who, k, T, moment, missing)
  <2>1. w + a + b <= (LimitMax + missing) + (2 * n - 1)
    BY <1>2, <1>4, <1>6, <1>9, <1>12 DEF Adrift
  <2>2. w2 + a2 + b <= (LimitMax + missing2) + (2 * n - 1)
    BY <1>0, <1>10, <2>1
  <2> QED
    BY <1>2, <1>5, <1>7, <1>9, <1>12, <2>2 DEF Adrift
<1> QED
  BY <1>11, <1>12 DEF RedisOk

\* The key dies with its members; those in their windows are counted as lost.
LEMMA DiedOk ==
  ASSUME NEW all, IsFiniteSet(all), NEW z, NEW who, IsFiniteSet(DOMAIN who), NEW k, NEW moment \in Int, NEW missing \in Nat,
         RedisOk(all, z, who, k, moment, missing), \A e \in all : e.time \in Int
  PROVE  /\ Cardinality(Trimmed(z, moment)) \in Nat
         /\ RedisOk(all, {}, who, k, moment, missing + Cardinality(Trimmed(z, moment)))
<1>0. LimitMax \in Nat /\ LimitWindow \in Nat
  BY LimitAssumption
<1>1. IsFiniteSet(z) /\ Trimmed(z, moment) \subseteq z
  BY DEF RedisOk, Trimmed
<1>2. PICK m \in Nat : m = Cardinality(Trimmed(z, moment)) /\ IsFiniteSet(Trimmed(z, moment))
  BY <1>1, NotMore
<1>3. IsFiniteSet({}) /\ missing + m \in Nat
  BY FS_EmptySet
<1>4. SUFFICES ASSUME NEW T \in Int
               PROVE  InSet(all, {}, who, k, T, missing + m) \/ Adrift(all, who, k, T, moment, missing + m)
  BY <1>2, <1>3 DEF RedisOk
<1>5. PICK n \in Nat : n = Cardinality(DOMAIN who)
  BY FS_CardinalityType
<1>6. PICK w \in Nat : w = Cardinality(InWindow(all, T))
  BY WindowFinite
<1>7. PICK a \in Nat : a = Adding(who, k, T)
  BY BetweenFinite DEF Adding
<1>8. PICK b \in Nat : b = Counting(who, k, T) /\ b <= n
  BY <1>5, BetweenFinite DEF Counting
<1>9. CASE InSet(all, z, who, k, T, missing)
  <2>1. w + a <= (LimitMax + missing) + (n - 1) /\ Cardinality(InWindow(all, T) \ z) <= missing
    BY <1>5, <1>6, <1>7, <1>9 DEF InSet
  <2>2. CASE T >= moment
    <3> DEFINE I == InWindow(all, T)
    <3>1. I \subseteq (I \ z) \cup Trimmed(z, moment)
      BY <1>0, <2>2 DEF InWindow, Trimmed
    <3>2. IsFiniteSet(I \ z) /\ Cardinality(I \ z) \in Nat
      BY WindowFinite
    <3> HIDE DEF I
    <3>3. /\ IsFiniteSet((I \ z) \cup Trimmed(z, moment))
          /\ Cardinality((I \ z) \cup Trimmed(z, moment))
               = Cardinality(I \ z) + m - Cardinality((I \ z) \cap Trimmed(z, moment))
      BY <1>2, <3>2, FS_Union
    <3>4. Cardinality((I \ z) \cap Trimmed(z, moment)) \in Nat
      BY <3>2, FS_Intersection, FS_CardinalityType
    <3>5. Cardinality(I) <= Cardinality((I \ z) \cup Trimmed(z, moment)) /\ Cardinality(I) \in Nat
      BY <3>1, <3>3, NotMore
    <3>6. Cardinality(I \ {}) <= missing + m
      <4>1. Cardinality(I) <= Cardinality(I \ z) + m /\ Cardinality(I \ z) <= missing
        BY <2>1, <3>2, <3>3, <3>4, <3>5 DEF I
      <4>2. I \ {} = I
        OBVIOUS
      <4> QED
        BY <3>2, <3>5, <4>1, <4>2
    <3>7. w + a <= (LimitMax + (missing + m)) + (n - 1)
      BY <1>0, <2>1
    <3> QED
      BY <1>5, <1>6, <1>7, <3>6, <3>7 DEF InSet, I
  <2>3. CASE T < moment
    <3>1. w + a + b <= (LimitMax + (missing + m)) + (2 * n - 1)
      BY <1>0, <1>8, <2>1
    <3> QED
      BY <1>5, <1>6, <1>7, <1>8, <2>3, <3>1 DEF Adrift
  <2> QED
    BY <2>2, <2>3
<1>10. CASE Adrift(all, who, k, T, moment, missing)
  <2>1. w + a + b <= (LimitMax + missing) + (2 * n - 1)
    BY <1>5, <1>6, <1>7, <1>8, <1>10 DEF Adrift
  <2>2. w + a + b <= (LimitMax + (missing + m)) + (2 * n - 1)
    BY <1>0, <2>1
  <2> QED
    BY <1>5, <1>6, <1>7, <1>8, <1>10, <2>2 DEF Adrift
<1> QED
  BY <1>9, <1>10 DEF RedisOk

LEMMA SameCounters ==
  ASSUME NEW all, NEW f, NEW l, NEW g, NEW k, NEW moment, CountersOk(all, f, l, g, k, moment),
         NEW all2, \A by : CallsOf(all2, by, g, k) = CallsOf(all, by, g, k)
  PROVE  CountersOk(all2, f, l, g, k, moment)
  BY DEF CountersOk

LEMMA CallsTimed ==
  ASSUME NEW all, NEW moment, Timed(all, moment), NEW by, NEW at, NEW k
  PROVE  Timed(CallsOf(all, by, at, k), moment)
<1>1. CallsOf(all, by, at, k) \subseteq all
  BY DEF CallsOf
<1> QED
  BY <1>1, FS_Subset DEF Timed

LEMMA OneGranted ==
  ASSUME LimInv, NEW by \in {"cache", "window", "lockout"}, NEW k \in Keys, NEW time \in Nat, time <= limClock,
         NEW at, Answers(by, at, limSetup),
         NEW new, new = Granted(by, at, k, time)
  PROVE  /\ CallsKnown(granted \cup {new}, limSetup, limClock) /\ new \notin granted
         /\ new.time = time /\ new.by = by /\ new.at = at /\ new.key = k
         /\ CallsOf(granted \cup {new}, by, at, k) = CallsOf(granted, by, at, k) \cup {new}
         /\ \A b, a, j : b # by \/ a # at \/ j # k => CallsOf(granted \cup {new}, b, a, j) = CallsOf(granted, b, a, j)
<1>1. Timed(granted, limClock) /\ CallsNumbered(granted)
  BY DEF LimInv, LocalInv, CallsKnown
<1>2. IsFiniteSet(granted)
  BY <1>1 DEF Timed
<1>3. /\ new.by = by /\ new.at = at /\ new.key = k /\ new.time = time
      /\ new \notin granted /\ CallsNumbered(granted \cup {new})
  BY <1>1, <1>2, GrantedNew
<1>4. Timed(granted \cup {new}, limClock)
  <2>1. IsFiniteSet(granted \cup {new})
    BY <1>2, OneMoreAtMost
  <2> QED
    BY <1>1, <1>3, <2>1 DEF Timed
<1>5. CallsKnown(granted \cup {new}, limSetup, limClock)
  <2>1. CallsKnown(granted, limSetup, limClock)
    BY DEF LimInv, LocalInv
  <2>2. k \in limSetup.keys
    BY DEF Keys
  <2> QED
    BY <1>3, <1>4, <2>1, <2>2 DEF CallsKnown
<1>6. CallsOf(granted \cup {new}, by, at, k) = CallsOf(granted, by, at, k) \cup {new}
  BY <1>3 DEF CallsOf
<1>7. \A b, a, j : b # by \/ a # at \/ j # k => CallsOf(granted \cup {new}, b, a, j) = CallsOf(granted, b, a, j)
  BY <1>3 DEF CallsOf
<1> QED
  BY <1>3, <1>5, <1>6, <1>7

LEMMA OneAdded ==
  ASSUME LimInv, NEW k \in Keys, NEW time \in Nat, time <= limClock, limSetup.callers # {}
  PROVE  LET next == Granted("cache", "redis", k, time) IN
         /\ CallsKnown(granted \cup {next}, limSetup, limClock) /\ next \notin granted
         /\ next.time = time
         /\ CallsOf(granted \cup {next}, "cache", "redis", k) = CallsOf(granted, "cache", "redis", k) \cup {next}
         /\ \A b, a, j : b # "cache" \/ a # "redis" \/ j # k => CallsOf(granted \cup {next}, b, a, j) = CallsOf(granted, b, a, j)
  BY OneGranted DEF Answers

\* Redis is not concerned, but for calls that leave it.
LEMMA RedisStays ==
  ASSUME LimInv, UNCHANGED <<limSetup, zset, lost>>, limClock' \in Nat, limClock' >= limClock,
         \A k \in Keys : CallsOf(granted', "cache", "redis", k) = CallsOf(granted, "cache", "redis", k),
         DOMAIN caller' = limSetup.callers,
         \A c \in limSetup.callers : caller'[c] = caller[c] \/ caller'[c].step \notin {"card", "add"}
  PROVE  RedisInv'
<1>1. limSetup \in LimitSetups /\ limClock \in Nat /\ lost \in Nat /\ Timed(granted, limClock)
  BY DEF LimInv, LocalInv, CallsKnown
<1>2. IsFiniteSet(limSetup.callers)
  BY <1>1, LimitAssumption
<1>3. Keys' = Keys
  BY DEF Keys
<1>4. ASSUME NEW k \in Keys
      PROVE  RedisOk(CallsOf(granted, "cache", "redis", k), zset[k], caller', k, limClock', lost)
  <2>1. RedisOk(CallsOf(granted, "cache", "redis", k), zset[k], caller, k, limClock, lost)
    BY DEF LimInv, RedisInv
  <2>2. DOMAIN caller = limSetup.callers
    BY DEF LimInv, CallersOk
  <2>3. \A c \in DOMAIN caller : caller'[c] = caller[c] \/ caller'[c].step \notin {"card", "add"} \/ caller'[c].key # k
    BY <2>2
  <2>4. IsFiniteSet(CallsOf(granted, "cache", "redis", k))
    BY <1>1, CallsTimed DEF Timed
  <2>5. limClock \in Int /\ limClock' \in Int /\ lost >= lost
    BY <1>1
  <2> QED
    BY <1>1, <1>2, <2>1, <2>2, <2>3, <2>4, <2>5, FewerBetween
<1>5. zset' = [k \in Keys |-> zset'[k]]
  BY DEF LimInv, RedisInv
<1> QED
  BY <1>3, <1>4, <1>5 DEF RedisInv

LEMMA WaitingFinite ==
  ASSUME NEW who, IsFiniteSet(DOMAIN who), NEW g, NEW k, NEW T
  PROVE  /\ IsFiniteSet(AtLock(who, g, k, T)) /\ Waiting(who, g, k, T) \in Nat
         /\ Cardinality(DOMAIN who) \in Nat /\ Waiting(who, g, k, T) <= Cardinality(DOMAIN who)
<1>1. AtLock(who, g, k, T) \subseteq DOMAIN who
  BY DEF AtLock
<1> QED
  BY <1>1, NotMore DEF Waiting

\* A list in memory while others come and go, but nobody joins the queue late.
LEMMA ListStays ==
  ASSUME NEW all, IsFiniteSet(all), NEW stamps, NEW who, IsFiniteSet(DOMAIN who), NEW g, NEW k, NEW moment \in Int,
         ListOk(all, stamps, who, g, k, moment),
         NEW who2, DOMAIN who2 = DOMAIN who, NEW later \in Int, later >= moment,
         \A c \in DOMAIN who : who2[c] = who[c] \/ who2[c].step # "lock" \/ (who2[c].now \in Int /\ who2[c].now >= moment)
  PROVE  ListOk(all, stamps, who2, g, k, later)
<1>0. LimitMax \in Nat
  BY LimitAssumption
<1> SUFFICES ASSUME NEW T \in Int PROVE Held(all, stamps, T) \/ Stalled(all, who2, g, k, T, later)
  BY DEF ListOk
<1>1. CASE Held(all, stamps, T)
  BY <1>1
<1>2. CASE Stalled(all, who, g, k, T, moment)
  <2>1. AtLock(who2, g, k, T) \subseteq AtLock(who, g, k, T)
    <3>1. moment > T
      BY <1>2 DEF Stalled
    <3>2. \A c \in AtLock(who2, g, k, T) : c \in DOMAIN who /\ who2[c].step = "lock" /\ who2[c].now <= T
      BY DEF AtLock
    <3>3. \A c \in AtLock(who2, g, k, T) : who2[c] = who[c]
      BY <3>1, <3>2
    <3> QED
      BY <3>2, <3>3 DEF AtLock
  <2>2. Waiting(who2, g, k, T) <= Waiting(who, g, k, T)
    BY <2>1, WaitingFinite, NotMore DEF Waiting
  <2>3. PICK n \in Nat : n = Cardinality(DOMAIN who)
    BY FS_CardinalityType
  <2>4. PICK w \in Nat : w = Cardinality(InWindow(all, T))
    BY WindowFinite
  <2>5. PICK q \in Nat : q = Waiting(who, g, k, T)
    BY WaitingFinite
  <2>6. PICK q2 \in Nat : q2 = Waiting(who2, g, k, T)
    BY WaitingFinite
  <2>7. moment > T /\ w + q <= LimitMax + (n - 1)
    BY <1>2, <2>3, <2>4, <2>5 DEF Stalled
  <2>8. later > T /\ w + q2 <= LimitMax + (n - 1)
    BY <1>0, <2>2, <2>5, <2>6, <2>7
  <2> QED
    BY <2>3, <2>4, <2>6, <2>8 DEF Stalled
<1> QED
  BY <1>1, <1>2 DEF ListOk

\* The windows in memory are not concerned.
LEMMA MemStays ==
  ASSUME LimInv, UNCHANGED <<limSetup, windows>>, limClock' \in Nat, limClock' >= limClock,
         \A g \in limSetup.gateways, k \in Keys : CallsOf(granted', "cache", g, k) = CallsOf(granted, "cache", g, k),
         DOMAIN caller' = limSetup.callers,
         \A c \in limSetup.callers : caller'[c] = caller[c] \/ caller'[c].step # "lock" \/ (caller'[c].now \in Int /\ caller'[c].now >= limClock)
  PROVE  MemInv'
<1>1. limSetup \in LimitSetups /\ limClock \in Nat /\ Timed(granted, limClock)
  BY DEF LimInv, LocalInv, CallsKnown
<1>2. IsFiniteSet(limSetup.callers) /\ DOMAIN caller = limSetup.callers
  BY <1>1, LimitAssumption DEF LimInv, CallersOk
<1>3. Keys' = Keys
  BY DEF Keys
<1>4. ASSUME NEW g \in limSetup.gateways, NEW k \in Keys
      PROVE  MemoryOk(CallsOf(granted, "cache", g, k), windows[g], caller', g, k, limClock')
  <2>1. MemoryOk(CallsOf(granted, "cache", g, k), windows[g], caller, g, k, limClock)
    BY DEF LimInv, MemInv
  <2>2. IsFiniteSet(CallsOf(granted, "cache", g, k))
    BY <1>1, CallsTimed DEF Timed
  <2>3. CASE k \in DOMAIN windows[g]
    <3>1. ListOk(CallsOf(granted, "cache", g, k), windows[g][k].stamps, caller, g, k, limClock)
      BY <2>1, <2>3 DEF MemoryOk
    <3>2. limClock \in Int /\ limClock' \in Int
      BY <1>1
    <3>3. ListOk(CallsOf(granted, "cache", g, k), windows[g][k].stamps, caller', g, k, limClock')
      BY <1>2, <2>2, <3>1, <3>2, ListStays
    <3> QED
      BY <2>3, <3>3 DEF MemoryOk
  <2>4. CASE k \notin DOMAIN windows[g]
    BY <2>1, <2>4 DEF MemoryOk
  <2> QED
    BY <2>3, <2>4
<1>5. windows' = [g \in limSetup.gateways |-> windows'[g]]
  BY DEF LimInv, MemInv
<1> QED
  BY <1>3, <1>4, <1>5 DEF MemInv

LEMMA CallersStay ==
  ASSUME LimInv, UNCHANGED <<limSetup, caller>>, limClock' \in Nat, limClock' >= limClock
  PROVE  CallersOk' /\ DOMAIN caller' = limSetup.callers /\ \A c \in limSetup.callers : caller'[c] = caller[c]
<1>1. limClock \in Nat /\ caller = [c \in limSetup.callers |-> caller[c]] /\ Keys' = Keys
  BY DEF LimInv, CallersOk, Keys
<1>2. ASSUME NEW c \in limSetup.callers, caller[c] # Ready PROVE Calling(caller[c], limSetup.gateways, Keys, limClock')
  <2>1. Calling(caller[c], limSetup.gateways, Keys, limClock)
    BY <1>2 DEF LimInv, CallersOk
  <2>2. caller[c].now \in Nat /\ caller[c].now <= limClock'
    BY <1>1, <2>1 DEF Calling
  <2> QED
    BY <2>1, <2>2 DEF Calling
<1> QED
  BY <1>1, <1>2 DEF CallersOk

\* Neither Redis nor the windows in memory are concerned.
LEMMA CachesStay ==
  ASSUME LimInv, UNCHANGED <<limSetup, windows, zset, lost, caller>>, limClock' \in Nat, limClock' >= limClock,
         \A a, k : CallsOf(granted', "cache", a, k) = CallsOf(granted, "cache", a, k)
  PROVE  CallersOk' /\ MemInv' /\ RedisInv'
<1>1. CallersOk' /\ DOMAIN caller' = limSetup.callers /\ \A c \in limSetup.callers : caller'[c] = caller[c]
  BY CallersStay
<1>2. MemInv'
  BY <1>1, MemStays
<1>3. RedisInv'
  BY <1>1, RedisStays
<1> QED
  BY <1>1, <1>2, <1>3

\* One counter of a gateway moves.
LEMMA LocalMoves ==
  ASSUME LimInv, UNCHANGED <<limSetup, limClock>>, CallsKnown(granted', limSetup, limClock),
         NEW g \in limSetup.gateways, NEW k \in Keys,
         \A h \in limSetup.gateways, j \in Keys : h # g \/ j # k =>
           \A by : CallsOf(granted', by, h, j) = CallsOf(granted, by, h, j),
         NEW f, fixed' = [fixed EXCEPT ![g] = [fixed[g] EXCEPT ![k] = f]],
         NEW l, lockout' = [lockout EXCEPT ![g] = [lockout[g] EXCEPT ![k] = l]],
         CountersOk(granted', f, l, g, k, limClock)
  PROVE  LocalInv'
<1>1. Keys' = Keys
  BY DEF Keys
<1>2. /\ fixed = [h \in limSetup.gateways |-> fixed[h]] /\ lockout = [h \in limSetup.gateways |-> lockout[h]]
      /\ \A h \in limSetup.gateways : fixed[h] = [j \in Keys |-> fixed[h][j]] /\ lockout[h] = [j \in Keys |-> lockout[h][j]]
  BY DEF LimInv, LocalInv
<1>3. fixed'[g] = [fixed[g] EXCEPT ![k] = f] /\ lockout'[g] = [lockout[g] EXCEPT ![k] = l]
  BY <1>2
<1>4. \A h \in limSetup.gateways : h # g => fixed'[h] = fixed[h] /\ lockout'[h] = lockout[h]
  BY <1>2
<1>5. fixed'[g] = [j \in Keys |-> fixed'[g][j]] /\ lockout'[g] = [j \in Keys |-> lockout'[g][j]]
  BY <1>2, <1>3
<1>6. fixed'[g][k] = f /\ lockout'[g][k] = l /\ \A j \in Keys : j # k => fixed'[g][j] = fixed[g][j] /\ lockout'[g][j] = lockout[g][j]
  BY <1>2, <1>3
<1>7. ASSUME NEW h \in limSetup.gateways, NEW j \in Keys
      PROVE  CountersOk(granted', fixed'[h][j], lockout'[h][j], h, j, limClock)
  <2>1. CASE h = g /\ j = k
    BY <1>6, <2>1
  <2>2. CASE h # g \/ j # k
    <3>1. fixed'[h][j] = fixed[h][j] /\ lockout'[h][j] = lockout[h][j]
      BY <1>4, <1>6, <2>2
    <3>2. CountersOk(granted, fixed[h][j], lockout[h][j], h, j, limClock)
      BY DEF LimInv, LocalInv
    <3>3. \A by : CallsOf(granted', by, h, j) = CallsOf(granted, by, h, j)
      BY <2>2
    <3> QED
      BY <3>1, <3>2, <3>3, SameCounters
  <2> QED
    BY <2>1, <2>2
<1>8. fixed' = [h \in limSetup.gateways |-> fixed'[h]] /\ lockout' = [h \in limSetup.gateways |-> lockout'[h]]
  BY <1>2
<1>9. \A h \in limSetup.gateways : fixed'[h] = [j \in Keys |-> fixed'[h][j]] /\ lockout'[h] = [j \in Keys |-> lockout'[h][j]]
  BY <1>2, <1>4, <1>5
<1> QED
  BY <1>1, <1>2, <1>7, <1>8, <1>9 DEF LocalInv

LEMMA LocalUnchanged ==
  ASSUME LimInv, UNCHANGED <<limSetup, limClock, granted, fixed, lockout>> PROVE LocalInv'
<1>1. Keys' = Keys
  BY DEF Keys
<1> QED
  BY <1>1 DEF LimInv, LocalInv

LEMMA FixedWindowKeeps ==
  ASSUME LimInv, NEW g \in limSetup.gateways, NEW k \in Keys, FixedWindow(g, k),
         UNCHANGED <<limSetup, limClock, lockout>>
  PROVE  LocalInv' /\ \A a, j : CallsOf(granted', "cache", a, j) = CallsOf(granted, "cache", a, j)
<1> DEFINE new == Granted("window", g, k, limClock)
           all == CallsOf(granted, "window", g, k)
           f   == fixed[g][k]
<1>1. limClock \in Nat /\ CallsKnown(granted, limSetup, limClock) /\ Timed(all, limClock)
  BY CallsTimed DEF LimInv, LocalInv, CallsKnown
<1>2. CountersOk(granted, f, lockout[g][k], g, k, limClock)
  BY DEF LimInv, LocalInv
<1>3. FixedOk(all, f, limClock) /\ f = [count |-> f.count, resetAt |-> f.resetAt]
  BY <1>2 DEF CountersOk
<1>4. f.resetAt \in Int /\ f.count \in Nat
  BY <1>3 DEF FixedOk
<1>5. /\ CallsKnown(granted \cup {new}, limSetup, limClock) /\ new.time = limClock
      /\ CallsOf(granted \cup {new}, "window", g, k) = all \cup {new}
      /\ \A b, a, j : b # "window" \/ a # g \/ j # k => CallsOf(granted \cup {new}, b, a, j) = CallsOf(granted, b, a, j)
  BY <1>1, OneGranted DEF Answers
<1>6. granted' = granted \/ granted' = granted \cup {new}
  BY DEF FixedWindow, Grant
<1>7. /\ CallsKnown(granted', limSetup, limClock)
      /\ \A b, a, j : b # "window" \/ a # g \/ j # k => CallsOf(granted', b, a, j) = CallsOf(granted, b, a, j)
  BY <1>1, <1>5, <1>6
<1>8. \E f2 : /\ fixed' = [fixed EXCEPT ![g] = [fixed[g] EXCEPT ![k] = f2]]
              /\ f2 = [count |-> f2.count, resetAt |-> f2.resetAt]
              /\ FixedOk(CallsOf(granted', "window", g, k), f2, limClock)
  <2>1. CASE limClock > f.resetAt
    <3>1. PICK f2 : f2 = [count |-> 1, resetAt |-> limClock + LimitWindow]
      OBVIOUS
    <3>2. f2.count = 1 /\ f2.resetAt = limClock + LimitWindow
      BY <3>1
    <3>3. fixed' = [fixed EXCEPT ![g][k] = f2] /\ granted' = granted \cup {new}
      BY <2>1, <3>1 DEF FixedWindow, Grant
    <3>4. FixedOk(all \cup {new}, f2, limClock)
      BY <1>1, <1>3, <1>5, <2>1, <3>2, WindowBegins
    <3>5. FixedOk(CallsOf(granted', "window", g, k), f2, limClock)
      BY <1>5, <3>3, <3>4
    <3> QED
      BY <3>1, <3>2, <3>3, <3>5
  <2>2. CASE ~(limClock > f.resetAt)
    <3>1. PICK f2 : f2 = [f EXCEPT !.count = f.count + 1]
      OBVIOUS
    <3>2. f2.count = f.count + 1 /\ f2.resetAt = f.resetAt /\ f2 = [count |-> f2.count, resetAt |-> f2.resetAt]
      BY <1>3, <3>1
    <3>3. fixed' = [fixed EXCEPT ![g] = [fixed[g] EXCEPT ![k] = f2]]
      <4>1. fixed' = [fixed EXCEPT ![g][k].count = @ + 1]
        BY <2>2 DEF FixedWindow
      <4> QED
        BY <3>1, <4>1
    <3>4. IF f.count + 1 > LimitMax THEN granted' = granted ELSE granted' = granted \cup {new}
      BY <2>2 DEF FixedWindow, Grant
    <3>5. limClock <= f.resetAt
      BY <1>1, <1>4, <2>2
    <3>6. FixedOk(all, f2, limClock) /\ (f.count + 1 <= LimitMax => FixedOk(all \cup {new}, f2, limClock))
      BY <1>1, <1>3, <1>5, <3>2, <3>5, WindowCounts
    <3>7. f.count + 1 > LimitMax \/ f.count + 1 <= LimitMax
      BY <1>4, LimitAssumption
    <3>8. FixedOk(CallsOf(granted', "window", g, k), f2, limClock)
      BY <1>5, <3>4, <3>6, <3>7
    <3> QED
      BY <3>2, <3>3, <3>8
  <2> QED
    BY <2>1, <2>2
<1>9. PICK f2 : /\ fixed' = [fixed EXCEPT ![g] = [fixed[g] EXCEPT ![k] = f2]]
                /\ f2 = [count |-> f2.count, resetAt |-> f2.resetAt]
                /\ FixedOk(CallsOf(granted', "window", g, k), f2, limClock)
  BY <1>8
<1> HIDE DEF new, f, all
<1>10. CountersOk(granted', f2, lockout[g][k], g, k, limClock)
  BY <1>2, <1>7, <1>9 DEF CountersOk
<1>11. PICK l : l = lockout[g][k]
  OBVIOUS
<1>12. lockout' = [lockout EXCEPT ![g] = [lockout[g] EXCEPT ![k] = l]]
  BY <1>11 DEF LimInv, LocalInv
<1>13. LocalInv'
  BY <1>7, <1>9, <1>10, <1>11, <1>12, LocalMoves
<1> QED
  BY <1>7, <1>13

LEMMA LockoutKeeps ==
  ASSUME LimInv, NEW g \in limSetup.gateways, NEW k \in Keys, LockoutInMemory(g, k),
         UNCHANGED <<limSetup, limClock, fixed>>
  PROVE  LocalInv' /\ \A a, j : CallsOf(granted', "cache", a, j) = CallsOf(granted, "cache", a, j)
<1> DEFINE new == Granted("lockout", g, k, limClock)
           all == CallsOf(granted, "lockout", g, k)
           l   == lockout[g][k]
<1>1. limClock \in Nat /\ CallsKnown(granted, limSetup, limClock) /\ Timed(all, limClock)
  BY CallsTimed DEF LimInv, LocalInv, CallsKnown
<1>2. CountersOk(granted, fixed[g][k], l, g, k, limClock)
  BY DEF LimInv, LocalInv
<1>3. LockOk(all, l)
  BY <1>2 DEF CountersOk
<1>4. /\ CallsKnown(granted \cup {new}, limSetup, limClock) /\ new.time = limClock
      /\ CallsOf(granted \cup {new}, "lockout", g, k) = all \cup {new}
      /\ \A b, a, j : b # "lockout" \/ a # g \/ j # k => CallsOf(granted \cup {new}, b, a, j) = CallsOf(granted, b, a, j)
  BY <1>1, OneGranted DEF Answers
<1>5. IF limClock < l.lockedUntil THEN granted' = granted ELSE granted' = granted \cup {new}
  BY DEF LockoutInMemory, Grant
<1>6. /\ CallsKnown(granted', limSetup, limClock)
      /\ \A b, a, j : b # "lockout" \/ a # g \/ j # k => CallsOf(granted', b, a, j) = CallsOf(granted, b, a, j)
  BY <1>1, <1>4, <1>5
<1>7. PICK until : until = IF l.failures + 1 >= LimitMax THEN limClock + LimitWindow ELSE l.lockedUntil
  OBVIOUS
<1>8. PICK l2 : l2 = [failures |-> l.failures + 1, lockedUntil |-> until]
  OBVIOUS
<1>9. l2.failures = l.failures + 1 /\ l2.lockedUntil = until
  BY <1>8
<1>10. lockout' = [lockout EXCEPT ![g] = [lockout[g] EXCEPT ![k] = l2]]
  <2>1. lockout' = [lockout EXCEPT ![g][k] = [failures |-> l.failures + 1,
          lockedUntil |-> IF l.failures + 1 >= LimitMax THEN limClock + LimitWindow ELSE @.lockedUntil]]
    BY DEF LockoutInMemory
  <2> QED
    BY <1>7, <1>8, <2>1
<1>11. LockOk(CallsOf(granted', "lockout", g, k), l2)
  <2>1. IF limClock < l.lockedUntil THEN LockOk(all, l2) ELSE LockOk(all \cup {new}, l2)
    BY <1>1, <1>3, <1>4, <1>7, <1>9, LockCounts
  <2> QED
    BY <1>4, <1>5, <2>1
<1> HIDE DEF new, l, all
<1>12. PICK f : f = fixed[g][k]
  OBVIOUS
<1>13. CountersOk(granted', f, l2, g, k, limClock)
  BY <1>2, <1>6, <1>11, <1>12 DEF CountersOk
<1>14. fixed' = [fixed EXCEPT ![g] = [fixed[g] EXCEPT ![k] = f]]
  BY <1>12 DEF LimInv, LocalInv
<1>15. LocalInv'
  BY <1>6, <1>10, <1>13, <1>14, LocalMoves
<1> QED
  BY <1>6, <1>15

LEMMA KeptSome == ASSUME NEW w, NEW moved, NEW staying \in Kept(w, moved) PROVE staying \subseteq DOMAIN w
  BY DEF Kept

LEMMA ListMembers ==
  ASSUME NEW S, NEW s \in Seq(S)
  PROVE  /\ IsFiniteSet(Members(s)) /\ Cardinality(Members(s)) \in Nat /\ Len(s) \in Nat
         /\ Cardinality(Members(s)) <= Len(s)
<1>1. Len(s) \in Nat /\ s \in [1..Len(s) -> Members(s)]
  BY DEF Members
<1>2. s \in Surjection(1..Len(s), Members(s))
  BY <1>1 DEF Surjection, Members
<1>3. IsFiniteSet(1..Len(s)) /\ Cardinality(1..Len(s)) = Len(s)
  BY <1>1, FS_Interval
<1> QED
  BY <1>1, <1>2, <1>3, FS_Surjection, FS_CardinalityType

\* What is in a caller's window is not cut.
LEMMA CutKeeps ==
  ASSUME NEW S, NEW s \in Seq(S), NEW moved \in Int, \A e \in S : e.time \in Int
  PROVE  /\ Cut(s, moved) \in Seq(S)
         /\ \A e \in Members(s) : e.time > moved - LimitWindow => e \in Members(Cut(s, moved))
<1> DEFINE live == {i \in 1..Len(s) : s[i].time > moved - LimitWindow}
<1>0. Len(s) \in Nat
  OBVIOUS
<1>1. CASE live = {}
  <2>1. Cut(s, moved) = <<>>
    BY <1>1 DEF Cut
  <2> QED
    BY <1>1, <2>1, EmptySeq DEF Members
<1>2. CASE live # {}
  <2> DEFINE R == {x \in live \X live : x[1] <= x[2]}
  <2>0. live \subseteq 1..Len(s) /\ IsFiniteSet(1..Len(s))
    <3>1. live \subseteq 1..Len(s)
      OBVIOUS
    <3>2. Len(s) \in Int /\ 1 \in Int
      BY <1>0
    <3>3. IsFiniteSet(1..Len(s))
      BY <3>2, FS_Interval
    <3> QED
      BY <3>1, <3>3
  <2>1. IsFiniteSet(live)
    BY <2>0, FS_Subset
  <2>2. \A x, y \in live : x # y => <<x, y>> \in R \/ <<y, x>> \in R
    BY <1>0
  <2>3. \A x, y, z \in live : <<x, y>> \in R /\ <<y, z>> \in R => <<x, z>> \in R
    BY <1>0
  <2> HIDE DEF R
  <2>4. \E m \in live : \A n \in live \ {m} : <<m, n>> \in R
    <3> HIDE DEF live
    <3> QED
      BY <1>2, <2>1, <2>2, <2>3, LeastExists
  <2>5. \E i \in live : \A j \in live : i <= j
    <3>1. PICK i \in live : \A j \in live \ {i} : <<i, j>> \in R
      BY <2>4
    <3>2. \A j \in live : j \in Nat
      BY <2>0
    <3> HIDE DEF live
    <3>3. ASSUME NEW j \in live PROVE i <= j
      <4>1. i \in Nat
        BY <3>2
      <4>2. CASE i = j
        BY <4>1, <4>2
      <4>3. CASE i # j
        <5>1. <<i, j>> \in R
          BY <3>1, <4>3
        <5>2. <<i, j>>[1] <= <<i, j>>[2]
          BY <5>1 DEF R
        <5> QED
          BY <5>2
      <4> QED
        BY <4>2, <4>3
    <3> QED
      BY <3>3
  <2> DEFINE m == CHOOSE i \in live : \A j \in live : i <= j
  <2>6. m \in live /\ \A j \in live : m <= j
    <3> HIDE DEF live
    <3> QED
      BY <2>5
  <2>7. Cut(s, moved) = SubSeq(s, m, Len(s))
    BY <1>2 DEF Cut
  <2> HIDE DEF m
  <2>8. m \in 1..Len(s) /\ \A i \in m..Len(s) : s[i] \in S
    BY <2>6
  <2>9. /\ SubSeq(s, m, Len(s)) \in Seq(S) /\ Len(SubSeq(s, m, Len(s))) = Len(s) - m + 1
        /\ \A i \in 1..(Len(s) - m + 1) : SubSeq(s, m, Len(s))[i] = s[m + i - 1]
    BY <1>0, <2>8, SubSeqProperties
  <2>10. ASSUME NEW e \in Members(s), e.time > moved - LimitWindow PROVE e \in Members(SubSeq(s, m, Len(s)))
    <3>1. PICK i \in 1..Len(s) : e = s[i]
      BY DEF Members
    <3>2. i \in live /\ m <= i
      BY <2>6, <2>10, <3>1
    <3>3. i - m + 1 \in 1..(Len(s) - m + 1) /\ m + (i - m + 1) - 1 = i
      BY <1>0, <2>8, <3>2
    <3>4. SubSeq(s, m, Len(s))[i - m + 1] = e
      BY <2>9, <3>1, <3>3
    <3> QED
      BY <2>9, <3>3, <3>4 DEF Members
  <2> QED
    BY <2>7, <2>9, <2>10
<1> QED
  BY <1>1, <1>2

LEMMA MemberAdded ==
  ASSUME NEW S, NEW s \in Seq(S), NEW e
  PROVE  Append(s, e) \in Seq(S \cup {e}) /\ Members(s) \cup {e} \subseteq Members(Append(s, e))
<1>1. s \in Seq(S \cup {e}) /\ Len(s) \in Nat
  OBVIOUS
<1>2. /\ Append(s, e) \in Seq(S \cup {e}) /\ Len(Append(s, e)) = Len(s) + 1
      /\ \A i \in 1..Len(s) : Append(s, e)[i] = s[i]
      /\ Append(s, e)[Len(s) + 1] = e
  BY <1>1, AppendProperties
<1> QED
  BY <1>1, <1>2 DEF Members

\* The caller that has the lock cuts at its own time, and comes through or not.
LEMMA CountedInMemory ==
  ASSUME NEW all, IsFiniteSet(all), \A d \in all : d.time \in Int,
         NEW stamps, NEW who, IsFiniteSet(DOMAIN who), NEW g, NEW k, NEW moment \in Int,
         ListOk(all, stamps, who, g, k, moment),
         NEW c \in DOMAIN who, who[c].step = "lock", who[c].gateway = g, who[c].key = k,
         NEW moved \in Int, who[c].now = moved, moved <= moment,
         NEW who2, DOMAIN who2 = DOMAIN who, \A d \in DOMAIN who \ {c} : who2[d] = who[d], who2[c].step # "lock",
         NEW known, known = Cut(stamps, moved), NEW e, e \notin all, e.time = moved
  PROVE  /\ ListOk(all, known, who2, g, k, moment)
         /\ ~Full(Len(known)) => ListOk(all \cup {e}, Append(known, e), who2, g, k, moment)
<1>0. LimitMax \in Nat /\ LimitWindow \in Nat
  BY LimitAssumption
<1>1. /\ stamps \in Seq(all) /\ known \in Seq(all)
      /\ \A d \in Members(stamps) : d.time > moved - LimitWindow => d \in Members(known)
  BY CutKeeps DEF ListOk
<1>2. Append(known, e) \in Seq(all \cup {e}) /\ Members(known) \cup {e} \subseteq Members(Append(known, e))
  BY <1>1, MemberAdded
<1>3. /\ IsFiniteSet(Members(known)) /\ Cardinality(Members(known)) \in Nat /\ Len(known) \in Nat
      /\ Cardinality(Members(known)) <= Len(known)
  BY <1>1, ListMembers
<1>4. ASSUME NEW T \in Int
      PROVE  /\ Held(all, known, T) \/ Stalled(all, who2, g, k, T, moment)
             /\ ~Full(Len(known)) => Held(all \cup {e}, Append(known, e), T) \/ Stalled(all \cup {e}, who2, g, k, T, moment)
  <2> DEFINE I  == InWindow(all, T)
             I2 == InWindow(all \cup {e}, T)
  <2>1. PICK n \in Nat : n = Cardinality(DOMAIN who)
    BY FS_CardinalityType
  <2>2. PICK w \in Nat : w = Cardinality(I) /\ IsFiniteSet(I)
    BY WindowFinite
  <2>3. PICK w2 \in Nat : w2 = Cardinality(I2) /\ IsFiniteSet(I2)
    BY OneMoreAtMost, WindowFinite
  <2>4. PICK q \in Nat : q = Waiting(who, g, k, T)
    BY WaitingFinite
  <2>5. PICK q2 \in Nat : q2 = Waiting(who2, g, k, T)
    BY WaitingFinite
  <2>6. AtLock(who2, g, k, T) = AtLock(who, g, k, T) \ {c}
    BY DEF AtLock
  <2>7. q2 <= q
    BY <2>4, <2>5, <2>6, WaitingFinite, NotMore DEF Waiting
  <2>8. q2 <= n - 1
    <3>1. IsFiniteSet(DOMAIN who \ {c}) /\ Cardinality(DOMAIN who \ {c}) = Cardinality(DOMAIN who) - 1
      BY FS_RemoveElement
    <3>2. AtLock(who2, g, k, T) \subseteq DOMAIN who \ {c}
      BY <2>6 DEF AtLock
    <3>3. Cardinality(AtLock(who2, g, k, T)) <= Cardinality(DOMAIN who \ {c})
      BY <3>1, <3>2, NotMore
    <3> QED
      BY <2>1, <2>5, <3>1, <3>3 DEF Waiting
  <2>9. CASE Held(all, stamps, T) /\ T >= moved
    <3>1. I \subseteq Members(known) /\ w <= LimitMax
      <4>1. I \subseteq Members(stamps) /\ w <= LimitMax
        BY <2>2, <2>9 DEF Held
      <4>2. \A d \in I : d.time > moved - LimitWindow
        BY <1>0, <2>9 DEF InWindow
      <4> QED
        BY <1>1, <4>1, <4>2
    <3>2. Held(all, known, T)
      BY <2>2, <3>1 DEF Held
    <3>3. ASSUME ~Full(Len(known)) PROVE Held(all \cup {e}, Append(known, e), T)
      <4>1. I2 \subseteq I \cup {e}
        BY DEF InWindow
      <4> HIDE DEF I, I2
      <4>2. w < LimitMax
        <5>1. w <= Cardinality(Members(known))
          BY <1>3, <2>2, <3>1, NotMore
        <5> QED
          BY <1>0, <1>3, <3>3, <5>1 DEF Full
      <4>3. w2 <= LimitMax
        <5>1. IsFiniteSet(I \cup {e}) /\ Cardinality(I \cup {e}) <= w + 1 /\ Cardinality(I \cup {e}) \in Nat
          BY <2>2, OneMoreAtMost
        <5>2. w2 <= Cardinality(I \cup {e})
          BY <2>3, <4>1, <5>1, NotMore
        <5> QED
          BY <1>0, <4>2, <5>1, <5>2
      <4>4. I2 \subseteq Members(Append(known, e))
        BY <1>2, <3>1, <4>1
      <4> QED
        BY <2>3, <4>3, <4>4 DEF Held, I2
    <3> QED
      BY <3>2, <3>3
  <2>10. CASE Held(all, stamps, T) /\ T < moved
    <3>1. I2 = I
      BY <2>10 DEF InWindow
    <3>2. w <= LimitMax
      BY <2>2, <2>10 DEF Held
    <3>3. moment > T /\ w + q2 <= LimitMax + (n - 1)
      BY <1>0, <2>8, <2>10, <3>2
    <3> QED
      BY <2>1, <2>2, <2>5, <3>1, <3>3 DEF Stalled
  <2>11. CASE Stalled(all, who, g, k, T, moment)
    <3>1. moment > T /\ w + q <= LimitMax + (n - 1)
      BY <2>1, <2>2, <2>4, <2>11 DEF Stalled
    <3>2. w + q2 <= LimitMax + (n - 1)
      BY <1>0, <2>7, <3>1
    <3>3. Stalled(all, who2, g, k, T, moment)
      BY <2>1, <2>2, <2>5, <3>1, <3>2 DEF Stalled
    <3>4. w2 + q2 <= w + q
      <4>1. CASE moved > T - LimitWindow /\ moved <= T
        <5>1. c \in AtLock(who, g, k, T)
          BY <4>1 DEF AtLock
        <5>2. q2 = q - 1
          <6>1. IsFiniteSet(AtLock(who, g, k, T))
            BY WaitingFinite
          <6>2. Cardinality(AtLock(who, g, k, T) \ {c}) = Cardinality(AtLock(who, g, k, T)) - 1
            BY <5>1, <6>1, FS_RemoveElement
          <6> QED
            BY <2>4, <2>5, <2>6, <6>2 DEF Waiting
        <5>3. I2 = I \cup {e}
          BY <4>1 DEF InWindow
        <5> HIDE DEF I, I2
        <5>4. w2 <= w + 1
          BY <2>2, <2>3, <5>3, OneMoreAtMost
        <5> QED
          BY <5>2, <5>4
      <4>2. CASE ~(moved > T - LimitWindow /\ moved <= T)
        <5>1. I2 = I
          BY <4>2 DEF InWindow
        <5> QED
          BY <2>2, <2>3, <2>7, <5>1
      <4> QED
        BY <4>1, <4>2
    <3>5. w2 + q2 <= LimitMax + (n - 1)
      BY <1>0, <3>1, <3>4
    <3>6. Stalled(all \cup {e}, who2, g, k, T, moment)
      BY <2>1, <2>3, <2>5, <3>1, <3>5 DEF Stalled
    <3> QED
      BY <3>3, <3>6
  <2>12. Held(all, stamps, T) \/ Stalled(all, who, g, k, T, moment)
    BY DEF ListOk
  <2>13. T >= moved \/ T < moved
    OBVIOUS
  <2> QED
    BY <2>9, <2>10, <2>11, <2>12, <2>13
<1> QED
  BY <1>1, <1>2, <1>4 DEF ListOk

\* A list that has just begun.
LEMMA ListBegins == ASSUME NEW who, NEW g, NEW k, NEW moment PROVE ListOk({}, <<>>, who, g, k, moment)
<1>1. \A T \in Int : InWindow({}, T) = {}
  BY DEF InWindow
<1>2. Cardinality({}) = 0 /\ LimitMax \in Nat
  BY FS_EmptySet, LimitAssumption
<1>3. <<>> \in Seq({})
  BY EmptySeq
<1>4. ASSUME NEW T \in Int PROVE Held({}, <<>>, T)
  <2>1. InWindow({}, T) = {}
    BY <1>1
  <2>2. InWindow({}, T) \subseteq Members(<<>>)
    BY <2>1
  <2>3. Cardinality(InWindow({}, T)) <= LimitMax
    BY <1>2, <2>1
  <2> QED
    BY <2>2, <2>3 DEF Held
<1> QED
  BY <1>3, <1>4 DEF ListOk

LEMMA SetupKnown == LimInv => IsFiniteSet(limSetup.callers) /\ "redis" \notin limSetup.gateways
  BY LimitAssumption DEF LimInv

\* A caller that goes on or is answered, with what holds of the others.
LEMMA CallerMoves ==
  ASSUME LimInv, NEW c \in limSetup.callers, NEW q, caller' = [caller EXCEPT ![c] = q], UNCHANGED <<limSetup, limClock>>,
         q = Ready \/ Calling(q, limSetup.gateways, Keys, limClock)
  PROVE  /\ DOMAIN caller = limSetup.callers /\ DOMAIN caller' = limSetup.callers /\ IsFiniteSet(DOMAIN caller)
         /\ caller'[c] = q /\ \A d \in limSetup.callers \ {c} : caller'[d] = caller[d]
         /\ CallersOk' /\ limClock \in Nat /\ limClock' \in Nat /\ limClock' >= limClock
<1>1. caller = [d \in limSetup.callers |-> caller[d]] /\ IsFiniteSet(limSetup.callers)
  BY SetupKnown DEF LimInv, CallersOk
<1>2. \A d \in limSetup.callers : caller[d] = Ready \/ Calling(caller[d], limSetup.gateways, Keys, limClock)
  BY DEF LimInv, CallersOk
<1>3. caller'[c] = q /\ (\A d \in limSetup.callers \ {c} : caller'[d] = caller[d]) /\ DOMAIN caller' = limSetup.callers
  BY <1>1
<1>4. \A d \in limSetup.callers : caller'[d] = Ready \/ Calling(caller'[d], limSetup.gateways, Keys, limClock)
  BY <1>2, <1>3
<1>5. Keys' = Keys /\ limClock \in Nat
  BY DEF Keys, LimInv
<1>6. CallersOk'
  BY <1>1, <1>3, <1>4, <1>5 DEF CallersOk
<1> QED
  BY <1>1, <1>3, <1>5, <1>6

\* A caller at a step, with what its call is.
LEMMA CallerKnown ==
  ASSUME LimInv, NEW c \in limSetup.callers, caller[c].step \in {"lock", "card", "add", "expire"}
  PROVE  /\ Calling(caller[c], limSetup.gateways, Keys, limClock)
         /\ caller[c].gateway \in limSetup.gateways /\ caller[c].key \in Keys
         /\ caller[c].now \in Nat /\ caller[c].now <= limClock
<1>1. caller[c] # Ready
  BY DEF Ready
<1>2. Calling(caller[c], limSetup.gateways, Keys, limClock)
  BY <1>1 DEF LimInv, CallersOk
<1> QED
  BY <1>2 DEF Calling

LEMMA OneCounted ==
  ASSUME LimInv, NEW g \in limSetup.gateways, NEW k \in Keys, NEW time \in Nat, time <= limClock, limSetup.callers # {}
  PROVE  LET next == Granted("cache", g, k, time) IN
         CallsKnown(granted \cup {next}, limSetup, limClock) /\ next \notin granted
<1>1. "cache" \in {"cache", "window", "lockout"} /\ Answers("cache", g, limSetup)
  BY DEF Answers
<1> QED
  BY <1>1, OneGranted

LEMMA MemoryKeeps == ASSUME LimInv, NEW c \in limSetup.callers, MemoryRateLimit(c) PROVE LimInv'
<1>1. /\ UNCHANGED <<limSetup, limClock, zset, fixed, lockout, lost>> /\ limClock \in Nat /\ lost \in Nat
      /\ caller[c].step = "lock" /\ caller' = [caller EXCEPT ![c] = Ready]
      /\ MemoryCounts(caller[c].gateway, caller[c].key, caller[c].now)
  BY DEF MemoryRateLimit, LimInv
<1>2. /\ caller[c].gateway \in limSetup.gateways /\ caller[c].key \in Keys
      /\ caller[c].now \in Nat /\ caller[c].now <= limClock
  BY <1>1, CallerKnown
<1>3. PICK g \in limSetup.gateways : g = caller[c].gateway
  BY <1>2
<1>4. PICK k \in Keys : k = caller[c].key
  BY <1>2
<1>5. PICK time \in Nat : time = caller[c].now /\ time <= limClock
  BY <1>2
<1>6. PICK w : w = windows[g]
  OBVIOUS
<1>7. PICK old : old = IF k \in DOMAIN w THEN w[k].stamps ELSE <<>>
  OBVIOUS
<1>8. PICK known : known = Cut(old, time)
  OBVIOUS
<1>9. PICK e : e = Granted("cache", g, k, time)
  OBVIOUS
<1>10. known = IF k \in DOMAIN w THEN Cut(w[k].stamps, time) ELSE <<>>
  <2>1. Cut(<<>>, time) = <<>>
    BY DEF Cut
  <2> QED
    BY <1>7, <1>8, <2>1
<1>11. PICK staying \in (IF k \in DOMAIN w THEN {DOMAIN w} ELSE Kept(w, time)) :
         LET left == {d \in granted : ~(d.by = "cache" /\ d.at = g /\ d.key \in DOMAIN w \ staying)}
             Window(stamps) == [j \in staying \cup {k} |-> IF j = k THEN [stamps |-> stamps, seen |-> time] ELSE w[j]]
         IN  IF Full(Len(known))
             THEN windows' = [windows EXCEPT ![g] = Window(known)] /\ granted' = left
             ELSE windows' = [windows EXCEPT ![g] = Window(Append(known, e))] /\ granted' = left \cup {e}
  <2>1. MemoryCounts(g, k, time)
    BY <1>1, <1>3, <1>4, <1>5
  <2> DEFINE ww == windows[g]
             kk == IF k \in DOMAIN ww THEN Cut(ww[k].stamps, time) ELSE <<>>
             ee == Granted("cache", g, k, time)
  <2>2. \E staying \in (IF k \in DOMAIN ww THEN {DOMAIN ww} ELSE Kept(ww, time)) :
         LET left == {d \in granted : ~(d.by = "cache" /\ d.at = g /\ d.key \in DOMAIN ww \ staying)}
             Window(stamps) == [j \in staying \cup {k} |-> IF j = k THEN [stamps |-> stamps, seen |-> time] ELSE ww[j]]
         IN  IF Full(Len(kk))
             THEN windows' = [windows EXCEPT ![g] = Window(kk)] /\ granted' = left
             ELSE windows' = [windows EXCEPT ![g] = Window(Append(kk, ee))] /\ granted' = left \cup {ee}
    BY <2>1 DEF MemoryCounts
  <2>3. w = ww /\ known = kk /\ e = ee
    BY <1>6, <1>9, <1>10
  <2> HIDE DEF ww, kk, ee
  <2> QED
    BY <2>2, <2>3, ZenonT(40)
<1>12. PICK gone : gone = DOMAIN w \ staying /\ k \notin gone /\ staying \subseteq DOMAIN w
  <2>1. staying \in (IF k \in DOMAIN w THEN {DOMAIN w} ELSE Kept(w, time))
    BY <1>11
  <2>2. staying \subseteq DOMAIN w /\ k \notin DOMAIN w \ staying
    BY <2>1, KeptSome
  <2> QED
    BY <2>2
<1>13. PICK stamps : stamps = IF Full(Len(known)) THEN known ELSE Append(known, e)
  OBVIOUS
<1>14. PICK w2 : /\ windows' = [windows EXCEPT ![g] = w2] /\ DOMAIN w2 = staying \cup {k} /\ w2[k].stamps = stamps
                 /\ \A j \in staying \ {k} : w2[j] = w[j]
  <2>1. PICK w2 : w2 = [j \in staying \cup {k} |-> IF j = k THEN [stamps |-> stamps, seen |-> time] ELSE w[j]]
    OBVIOUS
  <2>2. windows' = [windows EXCEPT ![g] = w2]
    BY <1>11, <1>13, <2>1
  <2>3. DOMAIN w2 = staying \cup {k} /\ w2[k].stamps = stamps /\ \A j \in staying \ {k} : w2[j] = w[j]
    BY <2>1
  <2> QED
    BY <2>2, <2>3
<1>15. PICK left : /\ left = {d \in granted : ~(d.by = "cache" /\ d.at = g /\ d.key \in gone)}
                   /\ granted' = IF Full(Len(known)) THEN left ELSE left \cup {e}
  BY <1>11, <1>12
<1>16. /\ CallsKnown(granted, limSetup, limClock) /\ Timed(granted, limClock)
       /\ CallsKnown(granted \cup {e}, limSetup, limClock) /\ e \notin granted
       /\ e.time = time /\ e.by = "cache" /\ e.at = g /\ e.key = k
       /\ CallsOf(granted \cup {e}, "cache", g, k) = CallsOf(granted, "cache", g, k) \cup {e}
       /\ \A b, a, j : b # "cache" \/ a # g \/ j # k => CallsOf(granted \cup {e}, b, a, j) = CallsOf(granted, b, a, j)
  <2>1. CallsKnown(granted, limSetup, limClock) /\ Timed(granted, limClock)
    BY DEF LimInv, LocalInv, CallsKnown
  <2>2. g \in limSetup.gateways /\ k \in Keys /\ time \in Nat /\ time <= limClock /\ limSetup.callers # {}
    BY <1>3, <1>4, <1>5
  <2>3. CallsKnown(granted \cup {Granted("cache", g, k, time)}, limSetup, limClock)
    BY <2>2, OneCounted, Zenon
  <2>4. Granted("cache", g, k, time) \notin granted
    BY <2>2, OneCounted, Zenon
  <2>5. e.time = time /\ e.by = "cache" /\ e.at = g /\ e.key = k
    BY <1>9 DEF Granted
  <2>6. /\ CallsOf(granted \cup {e}, "cache", g, k) = CallsOf(granted, "cache", g, k) \cup {e}
        /\ \A b, a, j : b # "cache" \/ a # g \/ j # k => CallsOf(granted \cup {e}, b, a, j) = CallsOf(granted, b, a, j)
    BY <2>5 DEF CallsOf
  <2> QED
    BY <1>9, <2>1, <2>3, <2>4, <2>5, <2>6
<1>17. \A b, j : CallsOf(granted', b, g, j) =
         IF b = "cache" /\ j \in gone THEN {}
         ELSE IF b = "cache" /\ j = k /\ ~Full(Len(known)) THEN CallsOf(granted, b, g, j) \cup {e} ELSE CallsOf(granted, b, g, j)
  BY <1>12, <1>15, <1>16 DEF CallsOf
<1>18. \A b, a, j : a # g => CallsOf(granted', b, a, j) = CallsOf(granted, b, a, j)
  BY <1>15, <1>16 DEF CallsOf
<1>19. CallsKnown(granted', limSetup, limClock)
  <2>1. CASE Full(Len(known))
    <3>1. granted' \subseteq granted /\ \A d, f \in granted : d \in granted' /\ <<d.by, d.at, d.key>> = <<f.by, f.at, f.key>> => f \in granted'
      BY <1>15, <2>1
    <3>2. IsFiniteSet(granted') /\ CallsNumbered(granted')
      BY <1>16, <3>1, DroppedNumbered DEF CallsKnown, Timed
    <3> QED
      BY <1>16, <3>1, <3>2 DEF CallsKnown, Timed
  <2>2. CASE ~Full(Len(known))
    <3>1. PICK both : both = granted \cup {e}
      OBVIOUS
    <3>2. granted' \subseteq both /\ \A d, f \in both : d \in granted' /\ <<d.by, d.at, d.key>> = <<f.by, f.at, f.key>> => f \in granted'
      BY <1>12, <1>15, <1>16, <2>2, <3>1
    <3>3. IsFiniteSet(granted') /\ CallsNumbered(granted')
      BY <1>16, <3>1, <3>2, DroppedNumbered DEF CallsKnown, Timed
    <3> QED
      BY <1>16, <3>1, <3>2, <3>3 DEF CallsKnown, Timed
  <2> QED
    BY <2>1, <2>2
<1>20. /\ DOMAIN caller = limSetup.callers /\ DOMAIN caller' = limSetup.callers /\ IsFiniteSet(DOMAIN caller)
       /\ caller'[c] = Ready /\ \A d \in limSetup.callers \ {c} : caller'[d] = caller[d]
       /\ CallersOk' /\ limClock' \in Nat /\ limClock' >= limClock
  BY <1>1, CallerMoves
<1>21. windows = [h \in limSetup.gateways |-> windows[h]]
       /\ \A h \in limSetup.gateways, j \in Keys : MemoryOk(CallsOf(granted, "cache", h, j), windows[h], caller, h, j, limClock)
  BY DEF LimInv, MemInv
<1>22. MemoryOk(CallsOf(granted', "cache", g, k), w2, caller', g, k, limClock)
  <2> DEFINE all == CallsOf(granted, "cache", g, k)
  <2>1. IsFiniteSet(all) /\ (\A d \in all : d.time \in Int) /\ e \notin all
    <3>1. Timed(all, limClock)
      BY <1>16, CallsTimed
    <3>2. all \subseteq granted
      BY DEF CallsOf
    <3> HIDE DEF all
    <3> QED
      BY <1>16, <3>1, <3>2 DEF Timed
  <2>2. ListOk(all, old, caller, g, k, limClock)
    <3>1. MemoryOk(all, w, caller, g, k, limClock)
      BY <1>6, <1>21
    <3> HIDE DEF all
    <3>2. CASE k \in DOMAIN w
      BY <1>7, <3>1, <3>2 DEF MemoryOk
    <3>3. CASE k \notin DOMAIN w
      <4>1. all = {} /\ old = <<>>
        BY <1>7, <3>1, <3>3 DEF MemoryOk
      <4> QED
        BY <4>1, ListBegins
    <3> QED
      BY <3>2, <3>3
  <2> HIDE DEF all
  <2>3. caller'[c].step # "lock" /\ limClock \in Int /\ time \in Int
    BY <1>1, <1>20 DEF Ready
  <2>4. /\ ListOk(all, known, caller', g, k, limClock)
        /\ ~Full(Len(known)) => ListOk(all \cup {e}, Append(known, e), caller', g, k, limClock)
    <3>1. c \in DOMAIN caller /\ caller[c].step = "lock" /\ caller[c].gateway = g /\ caller[c].key = k /\ caller[c].now = time
      BY <1>1, <1>3, <1>4, <1>5, <1>20
    <3>2. DOMAIN caller' = DOMAIN caller /\ IsFiniteSet(DOMAIN caller) /\ \A d \in DOMAIN caller \ {c} : caller'[d] = caller[d]
      BY <1>20
    <3>3. known = Cut(old, time) /\ time <= limClock /\ e.time = time
      BY <1>5, <1>8, <1>16
    <3>4. PICK who2 : who2 = caller'
      OBVIOUS
    <3>5. ListOk(all, known, who2, g, k, limClock)
      BY <2>1, <2>2, <2>3, <3>1, <3>2, <3>3, <3>4, CountedInMemory
    <3>6. ~Full(Len(known)) => ListOk(all \cup {e}, Append(known, e), who2, g, k, limClock)
      BY <2>1, <2>2, <2>3, <3>1, <3>2, <3>3, <3>4, CountedInMemory
    <3> QED
      BY <3>4, <3>5, <3>6
  <2>5. CallsOf(granted', "cache", g, k) = IF Full(Len(known)) THEN all ELSE all \cup {e}
    BY <1>12, <1>17 DEF all
  <2> QED
    BY <1>13, <1>14, <2>4, <2>5 DEF MemoryOk
<1>23. ASSUME NEW h \in limSetup.gateways, NEW j \in Keys, h # g \/ j # k
       PROVE  MemoryOk(CallsOf(granted, "cache", h, j), windows[h], caller', h, j, limClock)
  <2>1. IsFiniteSet(CallsOf(granted, "cache", h, j))
    BY <1>16, CallsTimed DEF Timed
  <2>2. \A d \in DOMAIN caller : caller'[d] = caller[d] \/ caller'[d].step # "lock" \/ (caller'[d].now \in Int /\ caller'[d].now >= limClock)
    BY <1>20 DEF Ready
  <2>3. limClock \in Int /\ limClock >= limClock
    BY <1>1
  <2>4. MemoryOk(CallsOf(granted, "cache", h, j), windows[h], caller, h, j, limClock)
    BY <1>21
  <2>5. CASE j \in DOMAIN windows[h]
    BY <1>20, <2>1, <2>2, <2>3, <2>4, <2>5, ListStays DEF MemoryOk
  <2>6. CASE j \notin DOMAIN windows[h]
    BY <2>4, <2>6 DEF MemoryOk
  <2> QED
    BY <2>5, <2>6
<1>24. ASSUME NEW h \in limSetup.gateways, NEW j \in Keys
       PROVE  MemoryOk(CallsOf(granted', "cache", h, j), windows'[h], caller', h, j, limClock)
  <2>1. CASE h # g
    <3>1. windows'[h] = windows[h]
      BY <1>14, <1>21, <2>1
    <3> QED
      BY <1>18, <1>23, <2>1, <3>1
  <2>2. CASE h = g /\ j = k
    BY <1>14, <1>21, <1>22, <2>2
  <2>3. CASE h = g /\ j # k
    <3>1. windows'[h] = w2
      BY <1>14, <1>21, <2>3
    <3>2. CASE j \in gone
      <4>1. j \notin DOMAIN w2 /\ CallsOf(granted', "cache", g, j) = {}
        BY <1>12, <1>14, <1>17, <2>3, <3>2
      <4> QED
        BY <2>3, <3>1, <4>1 DEF MemoryOk
    <3>3. CASE j \notin gone
      <4>1. CallsOf(granted', "cache", g, j) = CallsOf(granted, "cache", g, j)
        BY <1>17, <2>3, <3>3
      <4>2. (j \in DOMAIN w2 <=> j \in DOMAIN w) /\ (j \in DOMAIN w2 => w2[j] = w[j])
        BY <1>12, <1>14, <2>3, <3>3
      <4>3. MemoryOk(CallsOf(granted, "cache", g, j), w, caller', g, j, limClock)
        BY <1>6, <1>23, <2>3
      <4> QED
        BY <2>3, <3>1, <4>1, <4>2, <4>3 DEF MemoryOk
    <3> QED
      BY <3>2, <3>3
  <2> QED
    BY <2>1, <2>2, <2>3
<1>25. windows' = [h \in limSetup.gateways |-> windows'[h]] /\ Keys' = Keys
  BY <1>1, <1>14, <1>21 DEF Keys
<1>26. MemInv'
  BY <1>1, <1>24, <1>25 DEF MemInv
<1>27. ASSUME NEW h \in limSetup.gateways, NEW j \in Keys
       PROVE  CountersOk(granted', fixed[h][j], lockout[h][j], h, j, limClock)
  <2>1. CountersOk(granted, fixed[h][j], lockout[h][j], h, j, limClock)
    BY DEF LimInv, LocalInv
  <2>2. \A b : b # "cache" => CallsOf(granted', b, h, j) = CallsOf(granted, b, h, j)
    BY <1>17, <1>18
  <2> QED
    BY <2>1, <2>2 DEF CountersOk
<1>28. LocalInv'
  BY <1>1, <1>19, <1>25, <1>27 DEF LimInv, LocalInv
<1>29. RedisInv'
  <2>1. \A j \in Keys : CallsOf(granted', "cache", "redis", j) = CallsOf(granted, "cache", "redis", j)
    BY <1>18, SetupKnown
  <2>2. \A d \in limSetup.callers : caller'[d] = caller[d] \/ caller'[d].step \notin {"card", "add"}
    BY <1>20 DEF Ready
  <2> QED
    BY <1>1, <1>20, <2>1, <2>2, RedisStays
<1> QED
  BY <1>1, <1>20, <1>26, <1>28, <1>29 DEF LimInv

\* A caller that reads its time joins those who wait, or count, at the end.
LEMMA MemoryReadsKeeps ==
  ASSUME LimInv, NEW c \in limSetup.callers, NEW g \in limSetup.gateways, NEW k \in Keys, MemoryReads(c, g, k) PROVE LimInv'
<1>1. UNCHANGED <<limSetup, limClock, windows, zset, fixed, lockout, granted, lost>> /\ limClock \in Nat
  BY DEF MemoryReads, LimInv
<1>2. PICK q : q = [step |-> "lock", gateway |-> g, key |-> k, now |-> limClock]
  OBVIOUS
<1>3. q.step = "lock" /\ q.now = limClock /\ Calling(q, limSetup.gateways, Keys, limClock)
  BY <1>1, <1>2 DEF Calling
<1>4. caller' = [caller EXCEPT ![c] = q]
  BY <1>2 DEF MemoryReads, Calls
<1>5. /\ DOMAIN caller = limSetup.callers /\ DOMAIN caller' = limSetup.callers
      /\ caller'[c] = q /\ \A d \in limSetup.callers \ {c} : caller'[d] = caller[d]
      /\ CallersOk' /\ limClock' \in Nat /\ limClock' >= limClock
  BY <1>1, <1>3, <1>4, CallerMoves
<1>6. RedisInv'
  <2>1. \A d \in limSetup.callers : caller'[d] = caller[d] \/ caller'[d].step \notin {"card", "add"}
    BY <1>3, <1>5
  <2> QED
    BY <1>1, <1>5, <2>1, RedisStays
<1>7. MemInv'
  <2>1. \A d \in limSetup.callers : caller'[d] = caller[d] \/ caller'[d].step # "lock" \/ (caller'[d].now \in Int /\ caller'[d].now >= limClock)
    BY <1>1, <1>3, <1>5
  <2> QED
    BY <1>1, <1>5, <2>1, MemStays
<1> QED
  BY <1>1, <1>5, <1>6, <1>7, LocalUnchanged DEF LimInv

LEMMA CallInMemoryKeeps ==
  ASSUME LimInv, NEW g \in limSetup.gateways, NEW k \in Keys, CallInMemory(g, k) PROVE LimInv'
<1>1. UNCHANGED <<limSetup, limClock, windows, zset, lockout, caller, lost>> /\ FixedWindow(g, k) /\ limClock \in Nat
  BY DEF CallInMemory, LimInv
<1>2. LocalInv' /\ \A a, j : CallsOf(granted', "cache", a, j) = CallsOf(granted, "cache", a, j)
  BY <1>1, FixedWindowKeeps
<1>3. limClock' \in Nat /\ limClock' >= limClock
  BY <1>1
<1>4. CallersOk' /\ MemInv' /\ RedisInv'
  BY <1>1, <1>2, <1>3, CachesStay
<1> QED
  BY <1>1, <1>2, <1>4 DEF LimInv

\* Whole counters are dropped.
LEMMA DroppedKnown ==
  ASSUME LimInv, NEW some, some \subseteq granted,
         \A d, e \in granted : d \in some /\ <<d.by, d.at, d.key>> = <<e.by, e.at, e.key>> => e \in some
  PROVE  CallsKnown(some, limSetup, limClock)
<1>1. CallsKnown(granted, limSetup, limClock)
  BY DEF LimInv, LocalInv
<1>2. IsFiniteSet(some) /\ CallsNumbered(some)
  BY <1>1, DroppedNumbered DEF CallsKnown, Timed
<1> QED
  BY <1>1, <1>2 DEF CallsKnown, Timed

LEMMA ResetKeeps ==
  ASSUME LimInv, NEW g \in limSetup.gateways, NEW k \in Keys, ResetFailures(g, k) PROVE LimInv'
<1>1. UNCHANGED <<limSetup, limClock, windows, zset, fixed, caller, lost>>
  BY DEF ResetFailures
<1>2. granted' = {e \in granted : <<e.by, e.at, e.key>> # <<"lockout", g, k>>}
  BY DEF ResetFailures, Forget
<1>3. CallsKnown(granted', limSetup, limClock)
  <2>1. \A d, e \in granted : d \in granted' /\ <<d.by, d.at, d.key>> = <<e.by, e.at, e.key>> => e \in granted'
    BY <1>2
  <2> QED
    BY <1>2, <2>1, DroppedKnown
<1>4. \A b, a, j : CallsOf(granted', b, a, j) =
        IF b = "lockout" /\ a = g /\ j = k THEN {} ELSE CallsOf(granted, b, a, j)
  BY <1>2 DEF CallsOf
<1>5. PICK f : f = fixed[g][k]
  OBVIOUS
<1>6. CountersOk(granted, f, lockout[g][k], g, k, limClock) /\ limClock \in Nat
  BY <1>5 DEF LimInv, LocalInv
<1>7. CountersOk(granted', f, Lockout0, g, k, limClock)
  BY <1>4, <1>6, NothingCounted DEF CountersOk
<1>8. /\ fixed' = [fixed EXCEPT ![g] = [fixed[g] EXCEPT ![k] = f]]
      /\ lockout' = [lockout EXCEPT ![g] = [lockout[g] EXCEPT ![k] = Lockout0]]
  BY <1>1, <1>5 DEF ResetFailures, LimInv, LocalInv
<1>9. \A h \in limSetup.gateways, j \in Keys : h # g \/ j # k =>
        \A by : CallsOf(granted', by, h, j) = CallsOf(granted, by, h, j)
  BY <1>4
<1>10. LocalInv'
  BY <1>1, <1>3, <1>7, <1>8, <1>9, LocalMoves
<1>11. CallersOk' /\ MemInv' /\ RedisInv'
  <2>1. limClock' \in Nat /\ limClock' >= limClock
    BY <1>1, <1>6
  <2> QED
    BY <1>1, <1>4, <2>1, CachesStay
<1> QED
  BY <1>1, <1>10, <1>11 DEF LimInv

LEMMA RestartGatewayKeeps ==
  ASSUME LimInv, NEW g \in limSetup.gateways, RestartGateway(g) PROVE LimInv'
<1>1. UNCHANGED <<limSetup, limClock, zset, lost>> /\ limClock \in Nat /\ "redis" \notin limSetup.gateways
  BY SetupKnown DEF RestartGateway, LimInv
<1>2. /\ windows' = [windows EXCEPT ![g] = [k \in {} |-> 0]]
      /\ fixed' = [fixed EXCEPT ![g] = [k \in Keys |-> Fixed0]]
      /\ lockout' = [lockout EXCEPT ![g] = [k \in Keys |-> Lockout0]]
      /\ granted' = {e \in granted : e.at # g}
      /\ caller' = [c \in DOMAIN caller |-> IF caller[c] # Ready /\ caller[c].gateway = g THEN Ready ELSE caller[c]]
  BY DEF RestartGateway
<1>3. CallsKnown(granted', limSetup, limClock)
  <2>1. \A d, e \in granted : d \in granted' /\ <<d.by, d.at, d.key>> = <<e.by, e.at, e.key>> => e \in granted'
    BY <1>2
  <2> QED
    BY <1>2, <2>1, DroppedKnown
<1>4. \A b, a, j : CallsOf(granted', b, a, j) = IF a = g THEN {} ELSE CallsOf(granted, b, a, j)
  BY <1>2 DEF CallsOf
<1>5. /\ fixed = [h \in limSetup.gateways |-> fixed[h]] /\ lockout = [h \in limSetup.gateways |-> lockout[h]]
      /\ \A h \in limSetup.gateways : fixed[h] = [j \in Keys |-> fixed[h][j]] /\ lockout[h] = [j \in Keys |-> lockout[h][j]]
  BY DEF LimInv, LocalInv
<1>6. ASSUME NEW h \in limSetup.gateways, NEW j \in Keys
      PROVE  CountersOk(granted', fixed'[h][j], lockout'[h][j], h, j, limClock)
  <2>1. CASE h = g
    <3>1. fixed'[h][j] = Fixed0 /\ lockout'[h][j] = Lockout0
      BY <1>2, <1>5, <2>1
    <3>2. Fixed0 = [count |-> Fixed0.count, resetAt |-> Fixed0.resetAt]
      BY DEF Fixed0
    <3> QED
      BY <1>1, <1>4, <2>1, <3>1, <3>2, NothingCounted DEF CountersOk
  <2>2. CASE h # g
    <3>1. fixed'[h] = fixed[h] /\ lockout'[h] = lockout[h]
      BY <1>2, <1>5, <2>2
    <3>2. CountersOk(granted, fixed[h][j], lockout[h][j], h, j, limClock)
      BY DEF LimInv, LocalInv
    <3> QED
      BY <1>4, <2>2, <3>1, <3>2, SameCounters
  <2> QED
    BY <2>1, <2>2
<1>7. Keys' = Keys
  BY <1>1 DEF Keys
<1>8. /\ fixed' = [h \in limSetup.gateways |-> fixed'[h]] /\ lockout' = [h \in limSetup.gateways |-> lockout'[h]]
      /\ \A h \in limSetup.gateways : fixed'[h] = [j \in Keys |-> fixed'[h][j]] /\ lockout'[h] = [j \in Keys |-> lockout'[h][j]]
  <2>1. \A h \in limSetup.gateways : h # g => fixed'[h] = fixed[h] /\ lockout'[h] = lockout[h]
    BY <1>2, <1>5
  <2>2. fixed'[g] = [k \in Keys |-> Fixed0] /\ lockout'[g] = [k \in Keys |-> Lockout0]
    BY <1>2, <1>5
  <2>3. \A h \in limSetup.gateways : fixed'[h] = [j \in Keys |-> fixed'[h][j]] /\ lockout'[h] = [j \in Keys |-> lockout'[h][j]]
    BY <1>5, <2>1, <2>2
  <2> QED
    BY <1>2, <1>5, <2>3
<1>9. LocalInv'
  BY <1>1, <1>3, <1>6, <1>7, <1>8 DEF LocalInv
<1>10. DOMAIN caller = limSetup.callers
  BY DEF LimInv, CallersOk
<1>11. /\ DOMAIN caller' = limSetup.callers /\ CallersOk'
       /\ \A c \in limSetup.callers : \/ caller'[c] = caller[c] /\ (caller[c] = Ready \/ caller[c].gateway # g)
                                      \/ caller'[c] = Ready
  <2>1. caller' = [c \in limSetup.callers |-> IF caller[c] # Ready /\ caller[c].gateway = g THEN Ready ELSE caller[c]]
    BY <1>2, <1>10
  <2> QED
    BY <1>1, <1>7, <2>1 DEF LimInv, CallersOk
<1>12. \A k \in Keys : CallsOf(granted', "cache", "redis", k) = CallsOf(granted, "cache", "redis", k)
  BY <1>1, <1>4
<1>13. RedisInv'
  <2>1. \A c \in limSetup.callers : caller'[c] = caller[c] \/ caller'[c].step \notin {"card", "add"}
    BY <1>11 DEF Ready
  <2>2. limClock' \in Nat /\ limClock' >= limClock
    BY <1>1
  <2> QED
    BY <1>1, <1>11, <1>12, <2>1, <2>2, RedisStays
<1>14. MemInv'
  <2>1. windows = [h \in limSetup.gateways |-> windows[h]]
    BY DEF LimInv, MemInv
  <2>2. ASSUME NEW h \in limSetup.gateways, NEW j \in Keys
        PROVE  MemoryOk(CallsOf(granted', "cache", h, j), windows'[h], caller', h, j, limClock)
    <3>1. CASE h = g
      <4>1. windows'[h] = [k \in {} |-> 0]
        BY <1>2, <2>1, <3>1
      <4>2. j \notin DOMAIN windows'[h] /\ CallsOf(granted', "cache", h, j) = {}
        BY <1>4, <3>1, <4>1
      <4> QED
        BY <4>2 DEF MemoryOk
    <3>2. CASE h # g
      <4>1. windows'[h] = windows[h] /\ CallsOf(granted', "cache", h, j) = CallsOf(granted, "cache", h, j)
        BY <1>2, <1>4, <2>1, <3>2
      <4>2. MemoryOk(CallsOf(granted, "cache", h, j), windows[h], caller, h, j, limClock)
        BY DEF LimInv, MemInv
      <4>3. IsFiniteSet(CallsOf(granted, "cache", h, j)) /\ IsFiniteSet(DOMAIN caller)
        BY <1>10, CallsTimed, SetupKnown DEF LimInv, LocalInv, CallsKnown, Timed
      <4>4. \A c \in DOMAIN caller : caller'[c] = caller[c] \/ caller'[c].step # "lock" \/ (caller'[c].now \in Int /\ caller'[c].now >= limClock)
        BY <1>10, <1>11 DEF Ready
      <4>5. limClock \in Int /\ limClock >= limClock
        BY <1>1
      <4>6. CASE j \in DOMAIN windows[h]
        BY <1>10, <1>11, <4>1, <4>2, <4>3, <4>4, <4>5, <4>6, ListStays DEF MemoryOk
      <4>7. CASE j \notin DOMAIN windows[h]
        BY <4>1, <4>2, <4>7 DEF MemoryOk
      <4> QED
        BY <4>6, <4>7
    <3> QED
      BY <3>1, <3>2
  <2>3. windows' = [h \in limSetup.gateways |-> windows'[h]]
    BY <1>2, <2>1
  <2> QED
    BY <1>1, <1>7, <2>2, <2>3 DEF MemInv
<1> QED
  BY <1>1, <1>9, <1>11, <1>13, <1>14 DEF LimInv

LEMMA LimitTickKeeps == ASSUME LimInv, LimitTick PROVE LimInv'
<1>1. UNCHANGED <<limSetup, windows, zset, fixed, lockout, caller, granted, lost>> /\ limClock' = limClock + 1 /\ limClock \in Nat
  BY DEF LimitTick, LimInv
<1>2. CallsKnown(granted, limSetup, limClock)
  BY DEF LimInv, LocalInv
<1>3. CallsKnown(granted, limSetup, limClock')
  <2>1. Timed(granted, limClock')
    BY <1>1, <1>2 DEF CallsKnown, Timed
  <2> QED
    BY <1>2, <2>1 DEF CallsKnown
<1>4. Keys' = Keys
  BY <1>1 DEF Keys
<1>5. ASSUME NEW h \in limSetup.gateways, NEW j \in Keys
      PROVE  CountersOk(granted, fixed[h][j], lockout[h][j], h, j, limClock')
  <2>1. CountersOk(granted, fixed[h][j], lockout[h][j], h, j, limClock)
    BY DEF LimInv, LocalInv
  <2> QED
    BY <1>1, <2>1, LaterOk DEF CountersOk
<1>6. LocalInv'
  BY <1>1, <1>3, <1>4, <1>5 DEF LimInv, LocalInv
<1>7. limClock' \in Nat /\ limClock' >= limClock
  BY <1>1
<1>8. CallersOk' /\ MemInv' /\ RedisInv'
  BY <1>1, <1>7, CachesStay
<1> QED
  BY <1>1, <1>6, <1>7, <1>8 DEF LimInv

\* What Redis holds of a key, before the step.
LEMMA RedisNow ==
  ASSUME LimInv, NEW k \in Keys
  PROVE  LET all == CallsOf(granted, "cache", "redis", k) IN
         /\ IsFiniteSet(all) /\ \A e \in all : e.time \in Int
         /\ RedisOk(all, zset[k], caller, k, limClock, lost)
         /\ limClock \in Int /\ lost \in Nat
<1>1. Timed(CallsOf(granted, "cache", "redis", k), limClock)
  BY CallsTimed DEF LimInv, LocalInv, CallsKnown
<1> QED
  BY <1>1 DEF LimInv, RedisInv, Timed

\* A caller that is answered, and lets nothing through at a cache.
LEMMA CallerLeaves ==
  ASSUME LimInv, NEW c \in limSetup.callers, caller' = [caller EXCEPT ![c] = Ready],
         UNCHANGED <<limSetup, limClock, windows, zset, lost>>,
         \A a, k : CallsOf(granted', "cache", a, k) = CallsOf(granted, "cache", a, k)
  PROVE  CallersOk' /\ MemInv' /\ RedisInv'
<1>1. /\ DOMAIN caller' = limSetup.callers /\ CallersOk' /\ limClock' \in Nat /\ limClock' >= limClock
      /\ caller'[c] = Ready /\ \A d \in limSetup.callers \ {c} : caller'[d] = caller[d]
  BY CallerMoves
<1>2. \A d \in limSetup.callers : caller'[d] = caller[d] \/ caller'[d].step \notin {"lock", "card", "add"}
  BY <1>1 DEF Ready
<1>3. MemInv'
  BY <1>1, <1>2, MemStays
<1>4. RedisInv'
  BY <1>1, <1>2, RedisStays
<1> QED
  BY <1>1, <1>3, <1>4

LEMMA ZRemRangeKeeps ==
  ASSUME LimInv, NEW c \in limSetup.callers, NEW g \in limSetup.gateways, NEW k \in Keys, ZRemRange(c, g, k) PROVE LimInv'
<1>1. UNCHANGED <<limSetup, limClock, windows, fixed, lockout, granted, lost>> /\ limClock \in Nat /\ caller[c] = Ready
  BY DEF ZRemRange, Calls, LimInv
<1>2. PICK q : q = [step |-> "card", gateway |-> g, key |-> k, now |-> limClock]
  OBVIOUS
<1>3. q.step = "card" /\ q.key = k /\ q.now = limClock /\ Calling(q, limSetup.gateways, Keys, limClock)
  BY <1>1, <1>2 DEF Calling
<1>4. /\ caller' = [caller EXCEPT ![c] = q]
      /\ zset' = [zset EXCEPT ![k] = Trimmed(zset[k], limClock)] \/ zset' = zset
  BY <1>2 DEF ZRemRange, Calls
<1>5. /\ DOMAIN caller = limSetup.callers /\ DOMAIN caller' = limSetup.callers /\ IsFiniteSet(DOMAIN caller)
      /\ caller'[c] = q /\ \A d \in limSetup.callers \ {c} : caller'[d] = caller[d]
      /\ CallersOk' /\ limClock' \in Nat /\ limClock' >= limClock
  BY <1>1, <1>3, <1>4, CallerMoves
<1>6. zset = [j \in Keys |-> zset[j]] /\ Keys' = Keys
  BY <1>1 DEF LimInv, RedisInv, Keys
<1>7. ASSUME NEW j \in Keys
      PROVE  RedisOk(CallsOf(granted, "cache", "redis", j), zset'[j], caller', j, limClock, lost)
  <2> DEFINE all == CallsOf(granted, "cache", "redis", j)
  <2>1. /\ IsFiniteSet(all) /\ \A e \in all : e.time \in Int
        /\ RedisOk(all, zset[j], caller, j, limClock, lost) /\ limClock \in Int /\ lost \in Nat
    BY RedisNow
  <2> HIDE DEF all
  <2>2. CASE j = k
    <3>1. caller[c].step \notin {"card", "add"}
      BY <1>1 DEF Ready
    <3>2. zset'[j] \in {zset[j], Trimmed(zset[j], limClock)}
      BY <1>4, <1>6, <2>2
    <3>3. RedisOk(all, zset'[j], caller', j, limClock, lost)
      BY <1>3, <1>5, <2>1, <3>1, <3>2, RemovedOk
    <3> QED
      BY <3>3 DEF all
  <2>3. CASE j # k
    <3>1. zset'[j] = zset[j]
      BY <1>4, <1>6, <2>3
    <3>2. \A d \in DOMAIN caller : caller'[d] = caller[d] \/ caller'[d].step \notin {"card", "add"} \/ caller'[d].key # j
      BY <1>3, <1>5, <2>3
    <3>3. limClock >= limClock /\ lost >= lost
      BY <2>1
    <3>4. RedisOk(all, zset[j], caller', j, limClock, lost)
      BY <1>5, <2>1, <3>2, <3>3, FewerBetween
    <3> QED
      BY <3>1, <3>4 DEF all
  <2> QED
    BY <2>2, <2>3
<1>8. zset' = [j \in Keys |-> zset'[j]]
  BY <1>4, <1>6
<1>9. RedisInv'
  BY <1>1, <1>5, <1>6, <1>7, <1>8 DEF RedisInv
<1>10. MemInv'
  <2>1. \A d \in limSetup.callers : caller'[d] = caller[d] \/ caller'[d].step # "lock" \/ (caller'[d].now \in Int /\ caller'[d].now >= limClock)
    BY <1>3, <1>5
  <2> QED
    BY <1>1, <1>5, <2>1, MemStays
<1> QED
  BY <1>1, <1>5, <1>9, <1>10, LocalUnchanged DEF LimInv

LEMMA ZCardKeeps == ASSUME LimInv, NEW c \in limSetup.callers, ZCard(c) PROVE LimInv'
<1>1. UNCHANGED <<limSetup, limClock, windows, zset, fixed, lockout, granted, lost>> /\ limClock \in Nat /\ caller[c].step = "card"
  BY DEF ZCard, LimInv
<1>2. Calling(caller[c], limSetup.gateways, Keys, limClock)
  BY <1>1, CallerKnown
<1>3. PICK k \in Keys : k = caller[c].key
  BY <1>2 DEF Calling
<1>4. CASE Full(Cardinality(zset[k]))
  <2>1. caller' = [caller EXCEPT ![c] = Ready]
    BY <1>3, <1>4 DEF ZCard
  <2>2. CallersOk' /\ MemInv' /\ RedisInv'
    BY <1>1, <2>1, CallerLeaves
  <2> QED
    BY <1>1, <2>2, LocalUnchanged DEF LimInv
<1>5. CASE ~Full(Cardinality(zset[k]))
  <2>1. PICK q0 : q0 = caller[c]
    OBVIOUS
  <2>2. PICK q : q = [q0 EXCEPT !.step = "add"]
    OBVIOUS
  <2>3. Calling(q0, limSetup.gateways, Keys, limClock)
    BY <1>2, <2>1
  <2>4. /\ q = [step |-> "add", gateway |-> q0.gateway, key |-> q0.key, now |-> q0.now]
        /\ q.step = "add" /\ q.gateway = q0.gateway /\ q.key = q0.key /\ q.now = q0.now
    BY <2>2, <2>3 DEF Calling
  <2>5. Calling(q, limSetup.gateways, Keys, limClock)
    <3>1. q = [step |-> q.step, gateway |-> q.gateway, key |-> q.key, now |-> q.now]
      BY <2>4
    <3> QED
      BY <2>3, <2>4, <3>1 DEF Calling
  <2>6. caller' = [caller EXCEPT ![c] = q]
    BY <1>3, <1>5, <2>1, <2>2 DEF ZCard
  <2>7. /\ DOMAIN caller = limSetup.callers /\ DOMAIN caller' = limSetup.callers /\ IsFiniteSet(DOMAIN caller)
        /\ caller'[c] = q /\ \A d \in limSetup.callers \ {c} : caller'[d] = caller[d]
        /\ CallersOk' /\ limClock' \in Nat /\ limClock' >= limClock
    BY <1>1, <2>5, <2>6, CallerMoves
  <2>8. ASSUME NEW j \in Keys
        PROVE  RedisOk(CallsOf(granted, "cache", "redis", j), zset[j], caller', j, limClock, lost)
    <3> DEFINE all == CallsOf(granted, "cache", "redis", j)
    <3>1. /\ IsFiniteSet(all) /\ \A e \in all : e.time \in Int
          /\ RedisOk(all, zset[j], caller, j, limClock, lost) /\ limClock \in Int /\ lost \in Nat
      BY RedisNow
    <3> HIDE DEF all
    <3>2. CASE j = k
      <4>1. Cardinality(zset[j]) < LimitMax
        <5>1. Cardinality(zset[j]) \in Nat
          BY <3>1, FS_CardinalityType DEF RedisOk
        <5> QED
          BY <1>5, <3>2, <5>1, LimitAssumption DEF Full
      <4>2. caller[c].key = j /\ caller'[c].key = j /\ caller'[c].step = "add" /\ caller'[c].now = caller[c].now
        BY <1>3, <2>1, <2>4, <2>7, <3>2
      <4>3. RedisOk(all, zset[j], caller', j, limClock, lost)
        BY <1>1, <2>7, <3>1, <4>1, <4>2, CountedOk
      <4> QED
        BY <4>3 DEF all
    <3>3. CASE j # k
      <4>1. \A d \in DOMAIN caller : caller'[d] = caller[d] \/ caller'[d].step \notin {"card", "add"} \/ caller'[d].key # j
        BY <1>3, <2>1, <2>4, <2>7, <3>3
      <4>2. limClock >= limClock /\ lost >= lost
        BY <3>1
      <4>3. RedisOk(all, zset[j], caller', j, limClock, lost)
        BY <2>7, <3>1, <4>1, <4>2, FewerBetween
      <4> QED
        BY <4>3 DEF all
    <3> QED
      BY <3>2, <3>3
  <2>9. Keys' = Keys /\ zset = [j \in Keys |-> zset[j]]
    BY <1>1 DEF Keys, LimInv, RedisInv
  <2>10. RedisInv'
    BY <1>1, <2>7, <2>8, <2>9 DEF RedisInv
  <2>11. MemInv'
    <3>1. \A d \in limSetup.callers : caller'[d] = caller[d] \/ caller'[d].step # "lock" \/ (caller'[d].now \in Int /\ caller'[d].now >= limClock)
      BY <2>4, <2>7
    <3> QED
      BY <1>1, <2>7, <3>1, MemStays
  <2> QED
    BY <1>1, <2>7, <2>10, <2>11, LocalUnchanged DEF LimInv
<1> QED
  BY <1>4, <1>5

LEMMA ZAddKeeps == ASSUME LimInv, NEW c \in limSetup.callers, ZAdd(c) PROVE LimInv'
<1>1. UNCHANGED <<limSetup, limClock, windows, fixed, lockout>> /\ limClock \in Nat /\ lost \in Nat /\ caller[c].step = "add"
  BY DEF ZAdd, LimInv
<1>2. Calling(caller[c], limSetup.gateways, Keys, limClock)
  BY <1>1, CallerKnown
<1>3. PICK k \in Keys : k = caller[c].key
  BY <1>2 DEF Calling
<1>4. PICK time \in Nat : time = caller[c].now /\ time <= limClock
  BY <1>2 DEF Calling
<1>a. PICK q : q = [caller[c] EXCEPT !.step = "expire"]
  OBVIOUS
<1>b. q.step = "expire" /\ Calling(q, limSetup.gateways, Keys, limClock)
  <2>1. q = [step |-> "expire", gateway |-> caller[c].gateway, key |-> caller[c].key, now |-> caller[c].now]
    BY <1>2, <1>a DEF Calling
  <2>2. q.step = "expire" /\ q.gateway = caller[c].gateway /\ q.key = caller[c].key /\ q.now = caller[c].now
    BY <2>1
  <2>3. q = [step |-> q.step, gateway |-> q.gateway, key |-> q.key, now |-> q.now]
    BY <2>1, <2>2
  <2> QED
    BY <1>2, <2>2, <2>3 DEF Calling
<1>5. PICK new : new = Granted("cache", "redis", k, time)
  OBVIOUS
<1>6. /\ granted' = granted \cup {new} /\ caller' = [caller EXCEPT ![c] = q]
      /\ \/ zset' = [zset EXCEPT ![k] = zset[k] \cup {new}] /\ lost' = lost
         \/ zset' = zset /\ lost' = lost + 1
  BY <1>3, <1>4, <1>5, <1>a DEF ZAdd, Grant
<1>7. "redis" \notin limSetup.gateways /\ limSetup.callers # {}
  BY SetupKnown
<1>8. /\ CallsKnown(granted', limSetup, limClock) /\ new \notin granted /\ new.time = time
      /\ CallsOf(granted', "cache", "redis", k) = CallsOf(granted, "cache", "redis", k) \cup {new}
      /\ \A b, a, j : b # "cache" \/ a # "redis" \/ j # k => CallsOf(granted', b, a, j) = CallsOf(granted, b, a, j)
  <2> DEFINE next == Granted("cache", "redis", k, time)
  <2>1. time \in Nat /\ time <= limClock /\ k \in Keys
    BY <1>3, <1>4
  <2>2. /\ CallsKnown(granted \cup {next}, limSetup, limClock) /\ next \notin granted
        /\ next.time = time
        /\ CallsOf(granted \cup {next}, "cache", "redis", k) = CallsOf(granted, "cache", "redis", k) \cup {next}
        /\ \A b, a, j : b # "cache" \/ a # "redis" \/ j # k => CallsOf(granted \cup {next}, b, a, j) = CallsOf(granted, b, a, j)
    BY <1>7, <2>1, OneAdded
  <2> QED
    BY <1>5, <1>6, <2>2
<1>9. /\ DOMAIN caller = limSetup.callers /\ DOMAIN caller' = limSetup.callers /\ IsFiniteSet(DOMAIN caller)
      /\ caller'[c] = q /\ \A d \in limSetup.callers \ {c} : caller'[d] = caller[d]
      /\ CallersOk' /\ limClock' \in Nat /\ limClock' >= limClock
  BY <1>1, <1>6, <1>b, CallerMoves
<1>10. Keys' = Keys /\ zset = [j \in Keys |-> zset[j]]
  BY <1>1 DEF Keys, LimInv, RedisInv
<1>11. lost' \in Nat /\ lost' >= lost
  BY <1>1, <1>6
<1>12. caller'[c].step \notin {"card", "add"}
  BY <1>9, <1>b
<1>13. ASSUME NEW j \in Keys
       PROVE  RedisOk(CallsOf(granted', "cache", "redis", j), zset'[j], caller', j, limClock, lost')
  <2> DEFINE all == CallsOf(granted, "cache", "redis", j)
  <2>1. /\ IsFiniteSet(all) /\ \A e \in all : e.time \in Int
        /\ RedisOk(all, zset[j], caller, j, limClock, lost) /\ limClock \in Int /\ lost \in Nat
    BY RedisNow
  <2>2. CASE j = k
    <3>1. (zset'[j] = zset[j] \cup {new} /\ lost' = lost) \/ (zset'[j] = zset[j] /\ lost' = lost + 1)
      BY <1>6, <1>10, <2>2
    <3>2. new \notin all /\ new.time = caller[c].now
      BY <1>4, <1>8 DEF CallsOf
    <3> HIDE DEF all
    <3>3. caller[c].key = j
      BY <1>3, <2>2
    <3>4. RedisOk(all \cup {new}, zset'[j], caller', j, limClock, lost')
      BY <1>1, <1>9, <1>12, <2>1, <3>1, <3>2, <3>3, AddedOk
    <3> QED
      BY <1>8, <2>2, <3>4 DEF all
  <2>3. CASE j # k
    <3> HIDE DEF all
    <3>1. \A d \in DOMAIN caller : caller'[d] = caller[d] \/ caller'[d].step \notin {"card", "add"} \/ caller'[d].key # j
      BY <1>9, <1>12
    <3>2. limClock >= limClock
      BY <2>1
    <3>3. RedisOk(all, zset[j], caller', j, limClock, lost')
      BY <1>9, <1>11, <2>1, <3>1, <3>2, FewerBetween
    <3>4. zset'[j] = zset[j]
      BY <1>6, <1>10, <2>3
    <3> QED
      BY <1>8, <2>3, <3>3, <3>4 DEF all
  <2> QED
    BY <2>2, <2>3
<1>14. zset' = [j \in Keys |-> zset'[j]]
  BY <1>6, <1>10
<1>15. RedisInv'
  BY <1>1, <1>9, <1>10, <1>13, <1>14 DEF RedisInv
<1>16. \A h \in limSetup.gateways, j \in Keys : CountersOk(granted', fixed[h][j], lockout[h][j], h, j, limClock)
  <2> SUFFICES ASSUME NEW h \in limSetup.gateways, NEW j \in Keys
               PROVE  CountersOk(granted', fixed[h][j], lockout[h][j], h, j, limClock)
    OBVIOUS
  <2>1. CountersOk(granted, fixed[h][j], lockout[h][j], h, j, limClock)
    BY DEF LimInv, LocalInv
  <2>2. h # "redis"
    BY <1>7
  <2>3. \A by : CallsOf(granted', by, h, j) = CallsOf(granted, by, h, j)
    BY <1>8, <2>2
  <2> QED
    BY <2>1, <2>3, SameCounters
<1>17. LocalInv'
  BY <1>1, <1>8, <1>10, <1>16 DEF LimInv, LocalInv
<1>18. MemInv'
  <2>1. \A d \in limSetup.callers : caller'[d] = caller[d] \/ caller'[d].step # "lock" \/ (caller'[d].now \in Int /\ caller'[d].now >= limClock)
    BY <1>9, <1>b
  <2>2. \A g \in limSetup.gateways, j \in Keys : CallsOf(granted', "cache", g, j) = CallsOf(granted, "cache", g, j)
    BY <1>7, <1>8
  <2> QED
    BY <1>1, <1>9, <2>1, <2>2, MemStays
<1> QED
  BY <1>1, <1>9, <1>11, <1>15, <1>17, <1>18 DEF LimInv

LEMMA ExpireKeeps == ASSUME LimInv, NEW c \in limSetup.callers, Expire(c) PROVE LimInv'
<1>1. /\ UNCHANGED <<limSetup, limClock, windows, zset, fixed, lockout, granted, lost>> /\ limClock \in Nat
      /\ caller' = [caller EXCEPT ![c] = Ready]
  BY DEF Expire, LimInv
<1>2. CallersOk' /\ MemInv' /\ RedisInv'
  BY <1>1, CallerLeaves
<1> QED
  BY <1>1, <1>2, LocalUnchanged DEF LimInv

LEMMA KeyDiesKeeps == ASSUME LimInv, NEW k \in Keys, KeyDies(k) PROVE LimInv'
<1>1. /\ UNCHANGED <<limSetup, limClock, windows, fixed, lockout, caller, granted>> /\ limClock \in Nat
      /\ zset' = [zset EXCEPT ![k] = {}]
      /\ lost' = lost + Cardinality(Trimmed(zset[k], limClock))
  BY DEF KeyDies, LimInv
<1>2. limClock' \in Nat /\ limClock' >= limClock
  BY <1>1
<1>3. CallersOk' /\ DOMAIN caller' = limSetup.callers /\ \A c \in limSetup.callers : caller'[c] = caller[c]
  BY <1>1, <1>2, CallersStay
<1>4. MemInv'
  BY <1>1, <1>2, <1>3, MemStays
<1>5. DOMAIN caller = limSetup.callers /\ IsFiniteSet(DOMAIN caller)
  BY SetupKnown DEF LimInv, CallersOk
<1>6. zset = [j \in Keys |-> zset[j]] /\ Keys' = Keys
  BY <1>1 DEF LimInv, RedisInv, Keys
<1>7. ASSUME NEW j \in Keys
      PROVE  Cardinality(Trimmed(zset[j], limClock)) \in Nat
  BY <1>5, RedisNow, DiedOk
<1>8. lost' \in Nat /\ lost' >= lost /\ lost \in Nat
  <2>1. Cardinality(Trimmed(zset[k], limClock)) \in Nat /\ lost \in Nat
    BY <1>7, RedisNow
  <2> QED
    BY <1>1, <2>1
<1>9. ASSUME NEW j \in Keys
      PROVE  RedisOk(CallsOf(granted, "cache", "redis", j), zset'[j], caller, j, limClock, lost')
  <2> DEFINE all == CallsOf(granted, "cache", "redis", j)
  <2>1. /\ IsFiniteSet(all) /\ \A e \in all : e.time \in Int
        /\ RedisOk(all, zset[j], caller, j, limClock, lost) /\ limClock \in Int /\ lost \in Nat
    BY RedisNow
  <2> HIDE DEF all
  <2>2. CASE j = k
    <3>1. zset'[j] = {}
      BY <1>1, <1>6, <2>2
    <3>2. RedisOk(all, {}, caller, j, limClock, lost + Cardinality(Trimmed(zset[j], limClock)))
      BY <1>5, <2>1, DiedOk
    <3> QED
      BY <1>1, <2>2, <3>1, <3>2 DEF all
  <2>3. CASE j # k
    <3>1. zset'[j] = zset[j]
      BY <1>1, <1>6, <2>3
    <3>2. limClock >= limClock /\ \A d \in DOMAIN caller : caller[d] = caller[d]
      BY <2>1
    <3>3. RedisOk(all, zset[j], caller, j, limClock, lost')
      BY <1>5, <1>8, <2>1, <3>2, FewerBetween
    <3> QED
      BY <3>1, <3>3 DEF all
  <2> QED
    BY <2>2, <2>3
<1>10. zset' = [j \in Keys |-> zset'[j]]
  BY <1>1, <1>6
<1>11. RedisInv'
  BY <1>1, <1>6, <1>9, <1>10 DEF RedisInv
<1> QED
  BY <1>1, <1>3, <1>4, <1>8, <1>11, LocalUnchanged DEF LimInv

LEMMA RedisFailsKeeps == ASSUME LimInv, NEW c \in limSetup.callers, RedisFails(c) PROVE LimInv'
<1>1. /\ UNCHANGED <<limSetup, limClock, windows, zset, lost>> /\ limClock \in Nat
      /\ caller[c].step = "card" /\ caller' = [caller EXCEPT ![c] = Ready]
  BY DEF RedisFails, LimInv
<1>2. Calling(caller[c], limSetup.gateways, Keys, limClock)
  BY <1>1, CallerKnown
<1>3. caller[c].gateway \in limSetup.gateways /\ caller[c].key \in Keys
  BY <1>2 DEF Calling
<1>4. limSetup.site \in {"http", "ws", "lockout"}
  BY LimitAssumption DEF LimInv
<1>5. LocalInv' /\ \A a, j : CallsOf(granted', "cache", a, j) = CallsOf(granted, "cache", a, j)
  <2>1. CASE limSetup.site = "http"
    <3>1. UNCHANGED <<fixed, lockout, granted>>
      BY <2>1 DEF RedisFails
    <3> QED
      BY <1>1, <3>1, LocalUnchanged
  <2>2. CASE limSetup.site = "ws"
    <3>1. FixedWindow(caller[c].gateway, caller[c].key) /\ UNCHANGED lockout
      BY <2>2 DEF RedisFails
    <3> QED
      BY <1>1, <1>3, <3>1, FixedWindowKeeps
  <2>3. CASE limSetup.site = "lockout"
    <3>1. LockoutInMemory(caller[c].gateway, caller[c].key) /\ UNCHANGED fixed
      BY <2>3 DEF RedisFails
    <3> QED
      BY <1>1, <1>3, <3>1, LockoutKeeps
  <2> QED
    BY <1>4, <2>1, <2>2, <2>3
<1>6. CallersOk' /\ MemInv' /\ RedisInv'
  BY <1>1, <1>5, CallerLeaves
<1> QED
  BY <1>1, <1>5, <1>6 DEF LimInv

LEMMA LimitStart == LimitInit => LimInv
<1> SUFFICES ASSUME LimitInit PROVE LimInv
  OBVIOUS
<1>1. /\ limSetup \in LimitSetups /\ limClock = 0 /\ lost = 0 /\ granted = {}
      /\ windows = [g \in limSetup.gateways |-> [k \in {} |-> 0]]
      /\ zset = [k \in Keys |-> {}]
      /\ fixed = [g \in limSetup.gateways |-> [k \in Keys |-> Fixed0]]
      /\ lockout = [g \in limSetup.gateways |-> [k \in Keys |-> Lockout0]]
      /\ caller = [c \in limSetup.callers |-> Ready]
  BY DEF LimitInit
<1>2. \A b, a, k : CallsOf(granted, b, a, k) = {}
  BY <1>1 DEF CallsOf
<1>3. CallsKnown(granted, limSetup, limClock)
  BY <1>1, FS_EmptySet DEF CallsKnown, Timed, CallsNumbered
<1>4. ASSUME NEW g \in limSetup.gateways, NEW k \in Keys
      PROVE  CountersOk(granted, fixed[g][k], lockout[g][k], g, k, limClock)
  <2>1. fixed[g][k] = Fixed0 /\ lockout[g][k] = Lockout0
    BY <1>1
  <2>2. Fixed0 = [count |-> Fixed0.count, resetAt |-> Fixed0.resetAt]
    BY DEF Fixed0
  <2> QED
    BY <1>1, <1>2, <2>1, <2>2, NothingCounted DEF CountersOk
<1>5. LocalInv
  <2>1. \A g \in limSetup.gateways : fixed[g] = [k \in Keys |-> fixed[g][k]] /\ lockout[g] = [k \in Keys |-> lockout[g][k]]
    BY <1>1
  <2> QED
    BY <1>1, <1>3, <1>4, <2>1 DEF LocalInv
<1>6. ASSUME NEW k \in Keys PROVE RedisOk(CallsOf(granted, "cache", "redis", k), zset[k], caller, k, limClock, lost)
  <2>1. zset[k] = {} /\ IsFiniteSet(zset[k]) /\ Cardinality({}) = 0
    BY <1>1, FS_EmptySet
  <2>2. ASSUME NEW T \in Int PROVE InSet({}, zset[k], caller, k, T, 0)
    <3>1. InWindow({}, T) = {} /\ InWindow({}, T) \ zset[k] = {}
      BY DEF InWindow
    <3>2. Between(caller, k, "add", T) = {}
      BY <1>1 DEF Between, Ready
    <3>3. PICK n \in Nat : n = Cardinality(DOMAIN caller)
      <4>1. DOMAIN caller = limSetup.callers /\ IsFiniteSet(limSetup.callers)
        BY <1>1, LimitAssumption
      <4> QED
        BY <4>1, FS_CardinalityType
    <3>4. 0 + 0 <= (LimitMax + 0) + (n - 1)
      BY LimitAssumption
    <3> QED
      BY <2>1, <3>1, <3>2, <3>3, <3>4 DEF InSet, Adding
  <2> QED
    BY <1>1, <1>2, <2>1, <2>2 DEF RedisOk
<1>7. RedisInv
  BY <1>1, <1>6 DEF RedisInv
<1>8. CallersOk
  BY <1>1 DEF CallersOk
<1>9. MemInv
  <2>1. \A g \in limSetup.gateways, k \in Keys : k \notin DOMAIN windows[g]
    BY <1>1
  <2> QED
    BY <1>1, <1>2, <2>1 DEF MemInv, MemoryOk
<1> QED
  BY <1>1, <1>5, <1>7, <1>8, <1>9 DEF LimInv

LEMMA RedisBounded ==
  ASSUME NEW all, IsFiniteSet(all), NEW z, NEW who, IsFiniteSet(DOMAIN who), DOMAIN who # {}, NEW k, NEW moment \in Int,
         NEW missing \in Nat, RedisOk(all, z, who, k, moment, missing), NEW T \in Int
  PROVE  Cardinality(InWindow(all, T)) <= LimitMax + (2 * Cardinality(DOMAIN who) - 1) + missing
<1>1. PICK n \in Nat : n = Cardinality(DOMAIN who)
  BY FS_CardinalityType
<1>2. n >= 1
  BY <1>1, FS_EmptySet
<1>3. PICK w \in Nat : w = Cardinality(InWindow(all, T))
  BY WindowFinite
<1>4. PICK a \in Nat : a = Adding(who, k, T)
  BY BetweenFinite DEF Adding
<1>5. PICK b \in Nat : b = Counting(who, k, T)
  BY BetweenFinite DEF Counting
<1>6. LimitMax \in Nat
  BY LimitAssumption
<1>7. w + a <= (LimitMax + missing) + (n - 1) \/ w + a + b <= (LimitMax + missing) + (2 * n - 1)
  BY <1>1, <1>3, <1>4, <1>5 DEF RedisOk, InSet, Adrift
<1>8. w <= LimitMax + (2 * n - 1) + missing
  BY <1>2, <1>6, <1>7
<1> QED
  BY <1>1, <1>3, <1>8

LEMMA MemoryBounded ==
  ASSUME NEW all, IsFiniteSet(all), NEW w, NEW who, IsFiniteSet(DOMAIN who), NEW g, NEW k, NEW moment \in Int,
         MemoryOk(all, w, who, g, k, moment), DOMAIN who # {} \/ all = {}, NEW T \in Int, InWindow(all, T) # {}
  PROVE  Cardinality(InWindow(all, T)) <= LimitMax + (Cardinality(DOMAIN who) - 1)
<1>1. all # {}
  BY DEF InWindow
<1>2. PICK n \in Nat : n = Cardinality(DOMAIN who)
  BY FS_CardinalityType
<1>3. n >= 1
  BY <1>1, <1>2, FS_EmptySet
<1>4. PICK q \in Nat : q = Waiting(who, g, k, T)
  BY WaitingFinite
<1>5. PICK x \in Nat : x = Cardinality(InWindow(all, T))
  BY WindowFinite
<1>6. x <= LimitMax \/ x + q <= LimitMax + (n - 1)
  BY <1>1, <1>2, <1>4, <1>5 DEF MemoryOk, ListOk, Held, Stalled
<1>7. x <= LimitMax + (n - 1)
  BY <1>3, <1>6, LimitAssumption
<1> QED
  BY <1>2, <1>5, <1>7

LEMMA LimitsHold == LimInv => RateBound
<1> SUFFICES ASSUME LimInv, NEW e \in granted
             PROVE  Cardinality({d \in granted : /\ <<d.by, d.at, d.key>> = <<e.by, e.at, e.key>>
                                                 /\ d.time > e.time - LimitWindow /\ d.time <= e.time})
                      <= Allowed(e.by, e.at)
  BY DEF RateBound
<1> DEFINE all == CallsOf(granted, e.by, e.at, e.key)
<1>1. {d \in granted : /\ <<d.by, d.at, d.key>> = <<e.by, e.at, e.key>>
                       /\ d.time > e.time - LimitWindow /\ d.time <= e.time} = InWindow(all, e.time)
  BY DEF CallsOf, InWindow
<1>2. CallsKnown(granted, limSetup, limClock)
  BY DEF LimInv, LocalInv
<1>3. /\ e.time \in Nat /\ e.key \in Keys /\ e.by \in {"cache", "window", "lockout"}
      /\ e.at \in limSetup.gateways \/ (e.at = "redis" /\ e.by = "cache")
      /\ e.by = "cache" => limSetup.callers # {}
  BY <1>2 DEF CallsKnown, Timed, Keys, Answers
<1>4. Timed(all, limClock)
  BY <1>2, CallsTimed DEF CallsKnown
<1>5. e.time \in Int /\ "redis" \notin limSetup.gateways
  BY <1>3, SetupKnown
<1>6. CASE e.at \in limSetup.gateways
  <2>1. CountersOk(granted, fixed[e.at][e.key], lockout[e.at][e.key], e.at, e.key, limClock)
    BY <1>3, <1>6 DEF LimInv, LocalInv
  <2>2. CASE e.by = "window"
    <3>1. Bounded(all, 2 * LimitMax)
      BY <2>1, <2>2 DEF CountersOk, FixedOk
    <3>2. Allowed(e.by, e.at) = 2 * LimitMax
      BY <2>2 DEF Allowed
    <3> QED
      BY <1>1, <1>5, <3>1, <3>2 DEF Bounded
  <2>3. CASE e.by = "lockout"
    <3>1. Bounded(all, LimitMax)
      BY <2>1, <2>3 DEF CountersOk, LockOk
    <3>2. Allowed(e.by, e.at) = LimitMax
      BY <2>3 DEF Allowed
    <3> QED
      BY <1>1, <1>5, <3>1, <3>2 DEF Bounded
  <2>4. CASE e.by = "cache"
    <3>1. MemoryOk(all, windows[e.at], caller, e.at, e.key, limClock) /\ DOMAIN caller = limSetup.callers
      BY <1>3, <1>6, <2>4 DEF LimInv, MemInv, CallersOk
    <3>2. IsFiniteSet(all) /\ IsFiniteSet(limSetup.callers) /\ limClock \in Int
      BY <1>4, SetupKnown DEF Timed, LimInv
    <3>3. limSetup.callers # {} /\ e \in InWindow(all, e.time)
      <4>1. LimitWindow \in Nat \ {0} /\ e.time \in Nat
        BY <1>3, LimitAssumption
      <4> QED
        BY <1>3, <2>4, <4>1 DEF InWindow, CallsOf
    <3> HIDE DEF all
    <3>4. Cardinality(InWindow(all, e.time)) <= LimitMax + (Cardinality(DOMAIN caller) - 1)
      BY <1>5, <3>1, <3>2, <3>3, MemoryBounded
    <3>5. e.at # "redis"
      BY <1>5, <1>6
    <3>6. Allowed(e.by, e.at) = LimitMax + (Cardinality(limSetup.callers) - 1)
      BY <2>4, <3>5 DEF Allowed
    <3> QED
      BY <1>1, <3>1, <3>4, <3>6
  <2> QED
    BY <1>3, <2>2, <2>3, <2>4
<1>7. CASE e.at \notin limSetup.gateways
  <2>1. e.at = "redis" /\ e.by = "cache" /\ limSetup.callers # {}
    BY <1>3, <1>7
  <2>2. RedisOk(all, zset[e.key], caller, e.key, limClock, lost) /\ DOMAIN caller = limSetup.callers
    BY <1>3, <2>1 DEF LimInv, RedisInv, CallersOk
  <2>3. IsFiniteSet(all) /\ IsFiniteSet(limSetup.callers) /\ limClock \in Int /\ lost \in Nat
    BY <1>4, SetupKnown DEF Timed, LimInv
  <2>4. Cardinality(InWindow(all, e.time)) <= LimitMax + (2 * Cardinality(DOMAIN caller) - 1) + lost
    BY <1>5, <2>1, <2>2, <2>3, RedisBounded
  <2>5. Allowed(e.by, e.at) = LimitMax + (2 * Cardinality(limSetup.callers) - 1) + lost
    BY <2>1 DEF Allowed
  <2> QED
    BY <1>1, <2>2, <2>4, <2>5
<1> QED
  BY <1>6, <1>7

\* What each counter of the limiters lets through in any window of time, for any
\* limit, window, number of gateways and of callers: the limit for the lockout,
\* twice the limit for a fixed window, one more for every other caller in memory,
\* which reads its time before the lock, and for Redis, whose removal, count,
\* addition and expiry are separate commands, the overshoot of the callers and
\* of the additions lost or dead with their key.
THEOREM RateLimitsBound == LimitSpec => []RateBound
<1>1. LimInv /\ [LimitNext]_limVars => LimInv'
  <2> SUFFICES ASSUME LimInv, [LimitNext]_limVars PROVE LimInv'
    OBVIOUS
  <2>1. ASSUME NEW g \in limSetup.gateways, NEW k \in Keys,
               CallInMemory(g, k) \/ ResetFailures(g, k) \/ \E c \in limSetup.callers : MemoryReads(c, g, k) \/ ZRemRange(c, g, k)
        PROVE  LimInv'
    BY <2>1, CallInMemoryKeeps, ResetKeeps, MemoryReadsKeeps, ZRemRangeKeeps
  <2>2. ASSUME NEW c \in limSetup.callers, MemoryRateLimit(c) \/ ZCard(c) \/ ZAdd(c) \/ Expire(c) \/ RedisFails(c)
        PROVE  LimInv'
    BY <2>2, MemoryKeeps, ZCardKeeps, ZAddKeeps, ExpireKeeps, RedisFailsKeeps
  <2>3. ASSUME NEW g \in limSetup.gateways, RestartGateway(g) PROVE LimInv'
    BY <2>3, RestartGatewayKeeps
  <2>4. CASE LimitTick
    BY <2>4, LimitTickKeeps
  <2>5. ASSUME NEW k \in Keys, KeyDies(k) PROVE LimInv'
    BY <2>5, KeyDiesKeeps
  <2>6. CASE UNCHANGED limVars
    <3>1. UNCHANGED <<limSetup, limClock, windows, zset, fixed, lockout, caller, granted, lost>>
      BY <2>6 DEF limVars
    <3>2. limClock' \in Nat /\ limClock' >= limClock
      BY <3>1 DEF LimInv
    <3>3. CallersOk' /\ MemInv' /\ RedisInv'
      BY <3>1, <3>2, CachesStay
    <3> QED
      BY <3>1, <3>3, LocalUnchanged DEF LimInv
  <2> QED
    BY <2>1, <2>2, <2>3, <2>4, <2>5, <2>6 DEF LimitNext
<1> QED
  BY <1>1, LimitStart, LimitsHold, PTL DEF LimitSpec
=============================================================================
