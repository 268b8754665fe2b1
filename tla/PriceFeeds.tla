------------------------------ MODULE PriceFeeds -----------------------------
(***************************************************************************)
(* Where the price of a pair comes from: the stream of an outside exchange *)
(* (internal/market/binance_ws.go) with its reconnections, a poller of the *)
(* same exchange, the AMM as the last resort, the chain which picks among  *)
(* them (internal/api/price_handler.go), and the corrections               *)
(* administrators make (internal/market/price_adj.go), which are kept in a *)
(* table and in the memory that requests read.                             *)
(***************************************************************************)
EXTENDS Integers, Sequences, FiniteSets

CONSTANTS
  PriceSetups,          \* records with messages, polls, requests, edits, maxTime, faults
  Quotes,               \* prices of the outside exchange
  AmmQuote,             \* the pool's price
  Corrections,          \* what administrators may set: records [mult, offset]
  MsgBuffer,            \* capacity of msgCh (512)
  Staleness,            \* MARKET_DATA_STALENESS
  ReconnectMin, ReconnectMax, MaxConnAge,
  PriceReaders, PriceAdmins

ASSUME PriceAssumption ==
  /\ Quotes \subseteq Nat \ {0} /\ AmmQuote \in Nat
  /\ MsgBuffer \in Nat \ {0} /\ Staleness \in Nat /\ MaxConnAge \in Nat
  /\ ReconnectMin \in Nat \ {0} /\ ReconnectMax >= ReconnectMin
  /\ \A s \in PriceSetups : \A f \in DOMAIN s : s[f] \in Nat

VARIABLES
  priceSetup, feedTime,
  link,          \* connection: up or down, since when, and until when run waits
  backoff,
  msgCh,         \* messages read from the socket, not yet handled
  mini, depthTop,    \* BinanceWSClient caches: a price and when it was stored
  pollTicker,    \* restTickers: the same
  poll,          \* the answer pollOnce has fetched, 0 when it has none
  adjTable, adjMemory,   \* price_adjustments; PriceAdjuster.adjs
  adjusting,     \* the correction each administrator's request has written to the table
  lookup,        \* each request: the ticker the chain picked, then what it was served
  heard,         \* history: <<source, price, when stored>>
  inForce,       \* history: corrections that requests could read, and since when
  used           \* bounded: messages, polls, requests, edits, faults

priceVars == <<priceSetup, feedTime, link, backoff, msgCh, mini, depthTop, pollTicker, poll, adjTable, adjMemory,
               adjusting, lookup, heard, inForce, used>>
caches == <<mini, depthTop, pollTicker>>
stream == <<link, backoff, msgCh>>
adjuster == <<adjTable, adjMemory, adjusting, inForce>>

Use(what) == used[what] < priceSetup[what] /\ used' = [used EXCEPT ![what] = @ + 1]
Nil == [price |-> 0, at |-> -1]
NoRequest == [step |-> "none"]
Identity == [mult |-> 1, offset |-> 0]
Capped(a, b) == IF a < b THEN a ELSE b
Stamped(p) == [price |-> p, at |-> feedTime]

-----------------------------------------------------------------------------
(* BinanceWSClient.run: connectAndServe never returns without an error *)

Lost ==
  /\ link' = [up |-> FALSE, since |-> feedTime, wait |-> feedTime + backoff] /\ msgCh' = <<>>
  /\ backoff' = Capped(2 * backoff, ReconnectMax)

Connect ==
  /\ ~link.up /\ feedTime >= link.wait
  /\ \/ link' = [up |-> TRUE, since |-> feedTime, wait |-> 0] /\ UNCHANGED <<backoff, msgCh, used>>
     \/ Use("faults") /\ Lost
  /\ UNCHANGED <<priceSetup, feedTime, caches, poll, adjuster, lookup, heard>>

\* An error of the socket, or the connection has grown too old.
Disconnect ==
  /\ link.up /\ Lost
  /\ (Use("faults") \/ (feedTime - link.since >= MaxConnAge /\ UNCHANGED used))
  /\ UNCHANGED <<priceSetup, feedTime, caches, poll, adjuster, lookup, heard>>

\* The reader goroutine drops what a full channel cannot take.
SocketMessage ==
  /\ link.up /\ Use("messages")
  /\ \E kind \in {"mini", "depth"}, p \in Quotes :
       msgCh' = IF Len(msgCh) < MsgBuffer THEN Append(msgCh, [kind |-> kind, price |-> p]) ELSE msgCh
  /\ UNCHANGED <<priceSetup, feedTime, link, backoff, caches, poll, adjuster, lookup, heard>>

HandleMiniTicker(p) ==
  mini' = Stamped(p) /\ heard' = heard \cup {<<"binance-ws", p, feedTime>>} /\ UNCHANGED depthTop
HandleDepth(p) == depthTop' = Stamped(p) /\ UNCHANGED <<mini, heard>>

HandleMessage ==
  /\ link.up /\ msgCh # <<>> /\ msgCh' = Tail(msgCh)
  /\ LET m == Head(msgCh) IN IF m.kind = "mini" THEN HandleMiniTicker(m.price) ELSE HandleDepth(m.price)
  /\ UNCHANGED <<priceSetup, feedTime, link, backoff, pollTicker, poll, adjuster, lookup, used>>

\* pollOnce: the time is that of the store, not of the question.
PollFetch ==
  /\ poll = 0 /\ Use("polls") /\ poll' \in Quotes
  /\ UNCHANGED <<priceSetup, feedTime, stream, caches, adjuster, lookup, heard>>

PollStore ==
  /\ poll # 0 /\ poll' = 0 /\ pollTicker' = Stamped(poll)
  /\ heard' = heard \cup {<<"binance-rest", poll, feedTime>>}
  /\ UNCHANGED <<priceSetup, feedTime, stream, mini, depthTop, adjuster, lookup, used>>

-----------------------------------------------------------------------------
(* The chain: rawBestTicker, then adjusted *)

IsFresh(t) == t.at >= 0 /\ feedTime - t.at <= Staleness

\* The price is the mini ticker's, bid and ask are the order book's.
BuildTicker == [source |-> "binance-ws", price |-> mini.price, quotes |-> depthTop]

RawBestTicker ==
  IF IsFresh(mini) THEN BuildTicker
  ELSE IF IsFresh(pollTicker) THEN [source |-> "binance-rest", price |-> pollTicker.price, quotes |-> pollTicker]
  ELSE [source |-> "amm", price |-> AmmQuote, quotes |-> Stamped(AmmQuote)]

PickTicker(r) ==
  /\ lookup[r].step # "picked" /\ Use("requests")
  /\ IF RawBestTicker.price = 0 THEN lookup' = [lookup EXCEPT ![r] = NoRequest]
     ELSE lookup' = [lookup EXCEPT ![r] = [step |-> "picked", ticker |-> RawBestTicker, at |-> feedTime]]
  /\ UNCHANGED <<priceSetup, feedTime, stream, caches, poll, adjuster, heard>>

AdjVal(p, a) == p * a.mult + a.offset

\* MUTANT for AdjustedOnce: the poller's ticker, which requests share, is changed.
Mutant_InPlace(t) ==
  IF t.source = "binance-rest" THEN pollTicker' = [pollTicker EXCEPT !.price = AdjVal(@, adjMemory)] ELSE UNCHANGED pollTicker
\* A copy is served: the caches stay as they are.
ApplyTicker(t) == UNCHANGED pollTicker

ServeTicker(r) ==
  LET q == lookup[r]
  IN  /\ q.step = "picked" /\ ApplyTicker(q.ticker)
      /\ lookup' = [lookup EXCEPT ![r] = [step |-> "served", source |-> q.ticker.source, asked |-> q.at, at |-> feedTime,
                      last |-> AdjVal(q.ticker.price, adjMemory), quotes |-> q.ticker.quotes]]
      /\ UNCHANGED <<priceSetup, feedTime, stream, mini, depthTop, poll, adjuster, heard, used>>

-----------------------------------------------------------------------------
(* UpdatePriceAdjust: Upsert writes the table, then the memory *)

WriteTable(a, c) ==
  \/ adjTable' = c /\ adjusting' = [adjusting EXCEPT ![a] = c]
  \/ (adjTable' = c \/ UNCHANGED adjTable) /\ UNCHANGED adjusting   \* the table's answer is an error

UpdatePriceAdjust(a) ==
  /\ adjusting[a] = Identity /\ Use("edits")
  /\ \E c \in Corrections : WriteTable(a, c)
  /\ UNCHANGED <<priceSetup, feedTime, stream, caches, poll, adjMemory, inForce, lookup, heard>>

Remember(c) == adjMemory' = c /\ inForce' = inForce \cup {[c |-> c, since |-> feedTime]}

\* Two requests may store in the other order than they have written.
StoreAdjustment(a) ==
  /\ adjusting[a] # Identity /\ Remember(adjusting[a])
  /\ adjusting' = [adjusting EXCEPT ![a] = Identity]
  /\ UNCHANGED <<priceSetup, feedTime, stream, caches, poll, adjTable, lookup, heard, used>>

\* The gateway starts again and loads the table, or goes on without.
PriceRestart ==
  /\ Use("faults") /\ (Remember(adjTable) \/ Remember(Identity))
  /\ link' = [up |-> FALSE, since |-> feedTime, wait |-> feedTime] /\ backoff' = ReconnectMin /\ msgCh' = <<>>
  /\ mini' = Nil /\ depthTop' = Nil /\ pollTicker' = Nil /\ poll' = 0
  /\ adjusting' = [a \in PriceAdmins |-> Identity] /\ lookup' = [r \in PriceReaders |-> NoRequest]
  /\ UNCHANGED <<priceSetup, feedTime, adjTable, heard>>

PriceTick ==
  /\ feedTime < priceSetup.maxTime /\ feedTime' = feedTime + 1
  /\ UNCHANGED <<priceSetup, stream, caches, poll, adjuster, lookup, heard, used>>

PriceInit ==
  /\ priceSetup \in PriceSetups /\ feedTime = 0
  /\ link = [up |-> FALSE, since |-> 0, wait |-> 0] /\ backoff = ReconnectMin /\ msgCh = <<>>
  /\ mini = Nil /\ depthTop = Nil /\ pollTicker = Nil /\ poll = 0
  /\ adjTable = Identity /\ adjMemory = Identity /\ adjusting = [a \in PriceAdmins |-> Identity]
  /\ lookup = [r \in PriceReaders |-> NoRequest]
  /\ heard = {<<"amm", AmmQuote, 0>>} /\ inForce = {[c |-> Identity, since |-> 0]}
  /\ used = [w \in {"messages", "polls", "requests", "edits", "faults"} |-> 0]

PriceNext ==
  \/ Connect \/ Disconnect \/ SocketMessage \/ HandleMessage \/ PollFetch \/ PollStore
  \/ \E r \in PriceReaders : PickTicker(r) \/ ServeTicker(r)
  \/ \E a \in PriceAdmins : UpdatePriceAdjust(a) \/ StoreAdjustment(a)
  \/ PriceRestart \/ PriceTick

PriceSpec == PriceInit /\ [][PriceNext]_priceVars

-----------------------------------------------------------------------------
(* Properties *)

\* "The cache is never mutated": a price that is served is one that its source
\* sent no longer than the staleness before the request, corrected exactly
\* once, by a correction that requests could read by then - whatever requests
\* share a cached ticker, feeds go down, and administrators write meanwhile.
AdjustedOnce ==
  \A r \in PriceReaders : lookup[r].step = "served" =>
    \E h \in heard : \E f \in inForce :
      /\ h[1] = lookup[r].source
      /\ h[1] # "amm" => lookup[r].asked - h[3] \in 0..Staleness
      /\ f.since <= lookup[r].at
      /\ lookup[r].last = AdjVal(h[2], f.c)

\* "Stale data degrades to the next source instead of being served"
\* (price_handler.go): so do the quotes of a served ticker.  The stream's best
\* bid and ask come from the depth cache, whose age the chain never asks.
QuotesFresh ==
  \A r \in PriceReaders : lookup[r].step = "served" /\ lookup[r].quotes # Nil =>
    lookup[r].asked - lookup[r].quotes.at <= Staleness

\* "Healthy session ended (e.g. the 24h rebuild): reconnect fast"
\* (binance_ws.go): a session that lasted its full age is followed by the
\* shortest wait.
RebuildReconnectsFast ==
  [][link.up /\ ~link'.up /\ feedTime - link.since >= MaxConnAge => link'.wait <= feedTime + ReconnectMin]_priceVars
===============================================================================
