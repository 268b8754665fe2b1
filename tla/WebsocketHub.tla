---------------------------- MODULE WebsocketHub ----------------------------
(***************************************************************************)
(* The websocket hub of the api-gateway (pkg/websocket/hub.go, client.go)  *)
(* with the connections that internal/api/ws_handler.go serves and the     *)
(* broadcasters of internal/wsbridge.  A connection is two goroutines: the *)
(* one that reads it and ends by unregistering, the other that writes what *)
(* is queued for it.  The hub's Run loop takes registrations one by one;   *)
(* broadcasters deliver to a snapshot of a room without any lock and cut   *)
(* off a connection that does not keep up.                                 *)
(*                                                                         *)
(* Messages are counted, not told apart.  The broadcast channel of the hub *)
(* and Client.ReadPump are left out: no program of the repository uses     *)
(* them.                                                                   *)
(***************************************************************************)
EXTENDS Integers, FiniteSets

CONSTANTS
  Conns, AuthedConns,   \* connections; those with a token in their request
  Broadcasters,
  MaxConns,             \* what the hub's cap may be, 0 for none
  SendCap, MaxDrops,    \* capacity of Send (256), maxConsecutiveDrops (100)
  MaxBroadcasts         \* bound

ASSUME HubAssumption ==
  /\ AuthedConns \subseteq Conns
  /\ MaxConns \subseteq Nat /\ SendCap \in Nat \ {0} /\ MaxDrops \in Nat /\ MaxBroadcasts \in Nat

VARIABLES
  maxConn,
  clients, rooms, count,   \* Hub.clients, Hub.rooms, Hub.count
  conn,        \* where the goroutine is that serves a connection
  up,          \* whether its socket is open
  authed,      \* whether the connection has an identity
  writer,      \* WritePump: not started, running, over
  queued, closed, drops,   \* Client.Send, Client.closed, Client.consecDrop
  cutOff,      \* the goroutine that unregisters a slow client
  fanout,      \* the clients a broadcaster has still to serve
  broadcasts

hubVars == <<maxConn, clients, rooms, count, conn, up, authed, writer, queued, closed, drops, cutOff, fanout, broadcasts>>
hubOnly == <<maxConn, clients, rooms, count>>
sending == <<queued, closed, drops, cutOff, fanout, broadcasts>>

Rooms == {"trades:pair", "user:own"}
IsPrivateRoom(r) == r = "user:own"
AtCapacity == maxConn > 0 /\ count >= maxConn

-----------------------------------------------------------------------------
(* A connection *)

Move(c, from, to) == conn[c] = from /\ conn' = [conn EXCEPT ![c] = to]

\* The handler looks at the cap before it upgrades ...
Upgrade(c) ==
  /\ Move(c, "new", IF AtCapacity THEN "refused" ELSE "upgraded")
  /\ up' = [up EXCEPT ![c] = ~AtCapacity]
  /\ authed' = [authed EXCEPT ![c] = c \in AuthedConns]
  /\ UNCHANGED <<hubOnly, writer, sending>>

\* ... and Register counts the connection before it looks again.
RegisterCounts(c) ==
  /\ Move(c, "upgraded", "counted")
  /\ count' = count + 1
  /\ UNCHANGED <<maxConn, clients, rooms, up, authed, writer, sending>>

RegisterChecks(c) ==
  /\ IF maxConn > 0 /\ count > maxConn
     THEN Move(c, "counted", "refused") /\ count' = count - 1 /\ up' = [up EXCEPT ![c] = FALSE]
     ELSE Move(c, "counted", "registering") /\ UNCHANGED <<count, up>>
  /\ UNCHANGED <<maxConn, clients, rooms, authed, writer, sending>>

JoinRoom(c, r) ==
  rooms' = IF IsPrivateRoom(r) /\ ~authed[c] THEN rooms ELSE [rooms EXCEPT ![r] = @ \cup {c}]

StartServing(c) ==
  /\ Move(c, "registered", "serving")
  /\ writer' = [writer EXCEPT ![c] = "running"]
  /\ JoinRoom(c, "user:own")
  /\ UNCHANGED <<maxConn, clients, count, up, authed, sending>>

Reading(c) == conn[c] = "serving" /\ up[c]

ReadAuth(c) ==
  /\ Reading(c) /\ ~authed[c]
  /\ authed' = [authed EXCEPT ![c] = TRUE]
  /\ rooms' = [rooms EXCEPT !["user:own"] = @ \cup {c}]
  /\ UNCHANGED <<maxConn, clients, count, conn, up, writer, sending>>

ReadSubscribe(c) ==
  /\ Reading(c)
  /\ \E r \in Rooms : (IsPrivateRoom(r) => authed[c]) /\ JoinRoom(c, r)
  /\ UNCHANGED <<maxConn, clients, count, conn, up, authed, writer, sending>>

ReadUnsubscribe(c) ==
  /\ Reading(c)
  /\ \E r \in Rooms : rooms' = [rooms EXCEPT ![r] = @ \ {c}]
  /\ UNCHANGED <<maxConn, clients, count, conn, up, authed, writer, sending>>

\* The read fails on a closed socket: the deferred Unregister waits for the hub.
ReadError(c) ==
  /\ ~up[c] /\ Move(c, "serving", "leaving")
  /\ UNCHANGED <<hubOnly, up, authed, writer, sending>>

\* The pump writes all there is; on a closed Send it says goodbye.  Leaving, it
\* closes the socket.
WriteQueued(c) ==
  /\ writer[c] = "running" /\ queued[c] > 0 /\ up[c]
  /\ queued' = [queued EXCEPT ![c] = 0]
  /\ UNCHANGED <<hubOnly, conn, up, authed, writer, closed, drops, cutOff, fanout, broadcasts>>

WritePumpEnds(c) ==
  /\ writer[c] = "running"
  /\ (closed[c] /\ queued[c] = 0) \/ ~up[c]
  /\ writer' = [writer EXCEPT ![c] = "over"]
  /\ up' = [up EXCEPT ![c] = FALSE]
  /\ UNCHANGED <<hubOnly, conn, authed, sending>>

\* The peer goes away, or a write or a ping fails.
SocketDies(c) ==
  /\ conn[c] = "serving" /\ up[c]
  /\ up' = [up EXCEPT ![c] = FALSE]
  /\ UNCHANGED <<hubOnly, conn, authed, writer, sending>>

-----------------------------------------------------------------------------
(* The hub's Run loop *)

RunRegister(c) ==
  /\ Move(c, "registering", "registered")
  /\ clients' = clients \cup {c}
  /\ UNCHANGED <<maxConn, rooms, count, up, authed, writer, sending>>

\* MUTANT for SlotsAccounted: the slot is given back at every unregistration.
Mutant_RemoveAlways(c) ==
  /\ clients' = clients \ {c} /\ count' = count - 1
  /\ rooms' = [r \in Rooms |-> rooms[r] \ {c}] /\ closed' = [closed EXCEPT ![c] = TRUE]
\* MUTANT for ConnectionsEnd: the Send channel stays open.
Mutant_RemoveLeavesOpen(c) ==
  IF c \in clients
  THEN /\ clients' = clients \ {c} /\ count' = count - 1
       /\ rooms' = [r \in Rooms |-> rooms[r] \ {c}] /\ UNCHANGED closed
  ELSE UNCHANGED <<clients, rooms, count, closed>>
RemoveClient(c) ==
  IF c \in clients
  THEN /\ clients' = clients \ {c} /\ count' = count - 1
       /\ rooms' = [r \in Rooms |-> rooms[r] \ {c}] /\ closed' = [closed EXCEPT ![c] = TRUE]
  ELSE UNCHANGED <<clients, rooms, count, closed>>

\* From the connection that ends, or from the goroutine that cuts it off.
RunUnregister(c) ==
  /\ \/ Move(c, "leaving", "over") /\ up' = [up EXCEPT ![c] = FALSE] /\ UNCHANGED cutOff
     \/ cutOff[c] = "waiting" /\ cutOff' = [cutOff EXCEPT ![c] = "over"] /\ UNCHANGED <<conn, up>>
  /\ RemoveClient(c)
  /\ UNCHANGED <<maxConn, authed, writer, queued, drops, fanout, broadcasts>>

-----------------------------------------------------------------------------
(* Broadcasters *)

BroadcastToRoom(b) ==
  /\ fanout[b] = {} /\ broadcasts < MaxBroadcasts
  /\ \E r \in Rooms : rooms[r] # {} /\ fanout' = [fanout EXCEPT ![b] = rooms[r]]
  /\ broadcasts' = broadcasts + 1
  /\ UNCHANGED <<hubOnly, conn, up, authed, writer, queued, closed, drops, cutOff>>

\* offer and the policy of deliver for a client whose buffer stays full.
Deliver(b) ==
  \E c \in fanout[b] :
    /\ fanout' = [fanout EXCEPT ![b] = @ \ {c}]
    /\ IF closed[c] THEN UNCHANGED <<queued, drops, cutOff>>
       ELSE IF queued[c] < SendCap
       THEN /\ queued' = [queued EXCEPT ![c] = @ + 1] /\ drops' = [drops EXCEPT ![c] = 0]
            /\ UNCHANGED cutOff
       ELSE /\ drops' = [drops EXCEPT ![c] = @ + 1]
            /\ cutOff' = IF drops[c] + 1 > MaxDrops /\ cutOff[c] = "no"
                         THEN [cutOff EXCEPT ![c] = "waiting"] ELSE cutOff
            /\ UNCHANGED queued
    /\ UNCHANGED <<hubOnly, conn, up, authed, writer, closed, broadcasts>>

-----------------------------------------------------------------------------
HubInit ==
  /\ maxConn \in MaxConns
  /\ clients = {} /\ rooms = [r \in Rooms |-> {}] /\ count = 0
  /\ conn = [c \in Conns |-> "new"] /\ up = [c \in Conns |-> FALSE]
  /\ authed = [c \in Conns |-> FALSE] /\ writer = [c \in Conns |-> "off"]
  /\ queued = [c \in Conns |-> 0] /\ closed = [c \in Conns |-> FALSE]
  /\ drops = [c \in Conns |-> 0] /\ cutOff = [c \in Conns |-> "no"]
  /\ fanout = [b \in Broadcasters |-> {}] /\ broadcasts = 0

ConnStep(c) == Upgrade(c) \/ RegisterCounts(c) \/ RegisterChecks(c) \/ StartServing(c) \/ ReadError(c)
ClientMessage(c) == ReadAuth(c) \/ ReadSubscribe(c) \/ ReadUnsubscribe(c)
WriterStep(c) == WriteQueued(c) \/ WritePumpEnds(c)
RunStep(c) == RunRegister(c) \/ RunUnregister(c)

HubNext ==
  \/ \E c \in Conns : ConnStep(c) \/ ClientMessage(c) \/ WriterStep(c) \/ RunStep(c) \/ SocketDies(c)
  \/ \E b \in Broadcasters : BroadcastToRoom(b) \/ Deliver(b)

\* Goroutines that can go on do, the hub's select starves no channel, and a
\* write ends by its deadline; clients and broadcasters need not act.
HubFairness == \A c \in Conns :
  /\ WF_hubVars(ConnStep(c)) /\ WF_hubVars(WriterStep(c)) /\ WF_hubVars(RunStep(c))

HubSpec == HubInit /\ [][HubNext]_hubVars /\ HubFairness

-----------------------------------------------------------------------------
(* Properties *)

\* The count is that of the registered connections and of those on their way
\* in, whatever the order of registrations, errors and cut-offs of the same
\* connection, and the cap is never exceeded: no slot is lost, none is given
\* back twice.
SlotsAccounted ==
  /\ count = Cardinality(clients) + Cardinality({c \in Conns : conn[c] \in {"counted", "registering"}})
  /\ maxConn > 0 => Cardinality(clients) <= maxConn

\* A connection whose socket died, or that was cut off because it did not keep
\* up, ends: both goroutines return and the hub forgets it, although the one
\* that cut it off and its own reader unregister it in either order.
Ended(c) == conn[c] = "over" /\ writer[c] = "over" /\ c \notin clients
ConnectionsEnd ==
  \A c \in Conns : cutOff[c] = "waiting" \/ (conn[c] = "serving" /\ ~up[c]) ~> Ended(c)

\* "JoinRoom joins a room and remembers it locally for clean-up" (client.go): no
\* connection that is over is left in a room.  A subscription that is read after
\* the hub has cut the client off puts it back for ever.
RoomsCleanedUp == \A c \in Conns : conn[c] = "over" => \A r \in Rooms : c \notin rooms[r]
=============================================================================
