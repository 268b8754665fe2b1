----------------------------- MODULE MarketData ------------------------------
(***************************************************************************)
(* From trades to the candles and the ticker users see, for one pair:      *)
(* the engine's MarketDataRecorder (internal/matching/marketdata.go), the  *)
(* bridge's consumer with the CandleService and its table                  *)
(* (internal/market/candle_service.go), the handler of the exchange        *)
(* followed outside, Binance, which saves its candles to the same table    *)
(* (cmd/api-gateway/main.go), the requests that fetch older ones           *)
(* (internal/api/order_handler.go), and the AMM simulator, which records   *)
(* trades of its own in the same service (internal/market/amm_feed.go).    *)
(*                                                                         *)
(* A restart recovers the engine's book by executing logged orders again   *)
(* (internal/matching/exchange.go), and their trades are new ones.         *)
(*                                                                         *)
(* Time is a count of ticks, an interval its length in ticks, and a bucket *)
(* the tick it begins at.  A candle from outside is the time it was seen.  *)
(***************************************************************************)
EXTENDS Integers, Sequences, FiniteSets, SequencesExt

CONSTANTS
  MarketSetups,      \* records with trades, simulated, maxTime, saveFaults, restarts, outside
  Intervals,         \* IntervalNames, shortest first: a sequence of lengths
  TradePrices, TradeQtys,
  TradesBuffer,      \* capacity of the channel of trades
  MaxCandles, MaxTrades,  \* what the recorder keeps
  DayLength, Throttle,    \* 24 hours; between two saves of an outside candle
  Readers            \* requests for candles at work

ASSUME MarketAssumption ==
  /\ Intervals \in Seq(Nat \ {0}) /\ Intervals # <<>>
  /\ TradePrices \subseteq Nat \ {0} /\ TradeQtys \subseteq Nat \ {0}
  /\ {TradesBuffer, MaxCandles, MaxTrades, DayLength} \subseteq Nat \ {0} /\ Throttle \in Nat
  /\ \A s \in MarketSetups : 
       {s.trades, s.simulated, s.maxTime, s.saveFaults, s.restarts} \subseteq Nat /\ s.outside \in BOOLEAN

VARIABLES
  marketSetup,
  marketTime,
  dayTrades, series,  \* MarketDataRecorder.trades and candles, oldest first
  tradesCh,           \* the engine's channel of trades
  lastCandle,         \* CandleService.lastCandle by interval
  recording,          \* RecordTrade by caller: the trade, the intervals left, the candle to save
  candleTable,        \* the candles table: rows by <<interval, bucket>>
  persistLast,        \* klinePersistLast by interval: when, or -1
  reader,             \* each request: the interval it fetched for and when
  traded,             \* history: every trade, those of a recovery again
  started,            \* history: when this process did, and after how many trades
  dropped, saveErrors, marketRestarts

marketVars == <<marketSetup, marketTime, dayTrades, series, tradesCh, lastCandle, recording, candleTable,
                persistLast, reader, traded, started, dropped, saveErrors, marketRestarts>>
recorderVars == <<dayTrades, series>>
serviceVars == <<lastCandle, recording>>
outsideVars == <<persistLast, reader>>
boundVars == <<marketSetup, started, dropped, saveErrors, marketRestarts>>

BucketOf(len, t) == (t \div len) * len
NoCandle == [from |-> "none"]
NoTrade == [left |-> <<>>]
Callers == {"bridge", "simulator"}  \* of the CandleService's RecordTrade, a goroutine each
Lengths == Range(Intervals)

Higher(a, b) == IF a > b THEN a ELSE b
Lower(a, b) == IF a < b THEN a ELSE b

\* A candle of one trade, and one with a trade more.
NewCandle(t, len) == [from |-> "trades", bucket |-> BucketOf(len, t.at), open |-> t.price, high |-> t.price,
                      low |-> t.price, close |-> t.price, volume |-> t.qty]
Extended(c, t) == [c EXCEPT !.high = Higher(@, t.price), !.low = Lower(@, t.price),
                            !.close = t.price, !.volume = @ + t.qty]
Newest(s, n) == SubSeq(s, Len(s) - Lower(n, Len(s)) + 1, Len(s))

-----------------------------------------------------------------------------
(* The engine: RecordTrade of the recorder, then the channel *)

DayOnly(s) == SelectSeq(s, LAMBDA t : t.at >= marketTime - DayLength)

UpdateSeries(s, t, len) ==
  IF s # <<>> /\ Last(s).bucket = BucketOf(len, t.at)
  THEN Append(Front(s), Extended(Last(s), t))
  ELSE Newest(Append(s, NewCandle(t, len)), MaxCandles)

By(who) == SelectSeq(traded, LAMBDA t : t.by \in who)

\* A full channel drops the trade.
ExecuteTrade ==
  /\ Len(By({"engine"})) < marketSetup.trades
  /\ \E price \in TradePrices, qty \in TradeQtys :
       LET t == [price |-> price, qty |-> qty, at |-> marketTime, by |-> "engine"]
           full == Len(tradesCh) = TradesBuffer
       IN  /\ dayTrades' = Newest(DayOnly(Append(dayTrades, t)), MaxTrades)
           /\ series' = [len \in Lengths |-> UpdateSeries(series[len], t, len)]
           /\ tradesCh' = IF full THEN tradesCh ELSE Append(tradesCh, t)
           /\ dropped' = (dropped \/ full)
           /\ traded' = Append(traded, t)
  /\ UNCHANGED <<marketSetup, marketTime, serviceVars, candleTable, outsideVars, started, saveErrors, marketRestarts>>

-----------------------------------------------------------------------------
(* consumeTrades and CandleService.RecordTrade *)

\* RecordTrade begins.
BeginRecord(who, t) ==
  /\ recording[who] = NoTrade
  /\ recording' = [recording EXCEPT ![who] = [trade |-> t, left |-> Intervals, save |-> FALSE]]

ReceiveTrade ==
  /\ tradesCh # <<>> /\ tradesCh' = Tail(tradesCh)
  /\ BeginRecord("bridge", Head(tradesCh))
  /\ UNCHANGED <<marketTime, recorderVars, lastCandle, candleTable, outsideVars, traded, boundVars>>

\* ApplySimulatedSwap: no trade of the engine, and not in its recorder.
SimulateTrade ==
  /\ Len(By({"simulator"})) < marketSetup.simulated
  /\ \E price \in TradePrices, qty \in TradeQtys :
       LET t == [price |-> price, qty |-> qty, at |-> marketTime, by |-> "simulator"]
       IN  BeginRecord("simulator", t) /\ traded' = Append(traded, t)
  /\ UNCHANGED <<marketTime, recorderVars, tradesCh, lastCandle, candleTable, outsideVars, boundVars>>

\* MUTANT for CandlesAgree: the cached candle is extended whatever its bucket.
Mutant_NoBucketCheck(c, t, len) == IF c = NoCandle THEN NewCandle(t, len) ELSE Extended(c, t)
\* The current candle, or a new one: also when the row is in the table already.
Updated(c, t, len) ==
  IF c = NoCandle \/ c.bucket # BucketOf(len, t.at) THEN NewCandle(t, len) ELSE Extended(c, t)

\* Who is to save a candle holds the object, not a copy, and reads it without the
\* lock.  If it is extended meanwhile, he read it before, reads it after, or both
\* at once, which may give anything; if another takes its place, it is his alone.
Torn(c) == [from |-> "torn", bucket |-> c.bucket]
Seen(h, len, new) ==
  IF ~(h # NoTrade /\ h.save /\ h.shared /\ Head(h.left) = len) THEN {h}
  ELSE IF new.bucket # h.candle.bucket THEN {[h EXCEPT !.shared = FALSE]}
  ELSE {[h EXCEPT !.shared = FALSE], [h EXCEPT !.shared = FALSE, !.candle = Torn(@)], [h EXCEPT !.candle = new]}

UpdateCandle(who) ==
  /\ recording[who] # NoTrade /\ ~recording[who].save
  /\ LET own == recording[who]
         len == Head(own.left)
         new == Updated(lastCandle[len], own.trade, len)
         after == [trade |-> own.trade, left |-> own.left, save |-> TRUE, candle |-> new, shared |-> TRUE]
     IN  /\ lastCandle' = [lastCandle EXCEPT ![len] = new]
         /\ \E others \in [Callers \ {who} -> UNION {Seen(recording[w], len, new) : w \in Callers \ {who}}] :
              /\ \A w \in Callers \ {who} : others[w] \in Seen(recording[w], len, new)
              /\ recording' = [w \in Callers |-> IF w = who THEN after ELSE others[w]]
  /\ UNCHANGED <<marketTime, recorderVars, tradesCh, candleTable, outsideVars, traded, boundVars>>

Upsert(len, bucket, row) == candleTable' = [candleTable EXCEPT ![<<len, bucket>>] = row]
WithinFaults == saveErrors < marketSetup.saveFaults /\ saveErrors' = saveErrors + 1

\* The row is replaced.  An error, also one after the row was written, leaves out
\* the intervals that remain.
SaveCandle(who) ==
  /\ recording[who] # NoTrade /\ recording[who].save
  /\ LET own == recording[who]
         saved == Upsert(Head(own.left), own.candle.bucket, own.candle)
         rest == Tail(own.left)
         next == IF rest = <<>> THEN NoTrade ELSE [trade |-> own.trade, left |-> rest, save |-> FALSE]
     IN  \/ saved /\ recording' = [recording EXCEPT ![who] = next] /\ UNCHANGED saveErrors
         \/ /\ WithinFaults /\ recording' = [recording EXCEPT ![who] = NoTrade]
            /\ (saved \/ UNCHANGED candleTable)
  /\ UNCHANGED <<marketTime, recorderVars, tradesCh, lastCandle, outsideVars, traded,
                 marketSetup, started, dropped, marketRestarts>>

-----------------------------------------------------------------------------
(* Candles from outside *)

Outside(bucket) == [from |-> "outside", bucket |-> bucket, seen |-> marketTime]

\* The stream's handler saves the current candle, but not too often.
HandleKline(len) ==
  /\ marketSetup.outside
  /\ persistLast[len] = -1 \/ marketTime - persistLast[len] >= Throttle
  /\ \/ /\ Upsert(len, BucketOf(len, marketTime), Outside(BucketOf(len, marketTime)))
        /\ persistLast' = [persistLast EXCEPT ![len] = marketTime] /\ UNCHANGED saveErrors
     \/ WithinFaults /\ UNCHANGED <<candleTable, persistLast>>
  /\ UNCHANGED <<marketTime, recorderVars, tradesCh, serviceVars, reader, traded,
                 marketSetup, started, dropped, marketRestarts>>

\* What a request finds in the table for its window, newest last.
Window(len, limit) ==
  {b \in {BucketOf(len, t) : t \in 0..marketTime} :
     b >= marketTime - limit * len /\ candleTable[<<len, b>>] # NoCandle}
Stale(len, limit) ==
  \/ Cardinality(Window(len, limit)) < limit
  \/ \A b \in Window(len, limit) : b + len - 1 < marketTime

\* GetCandles and the prewarming: what the table cannot cover is fetched, ...
FetchKlines(r) ==
  /\ marketSetup.outside /\ reader[r].step = "none"
  /\ \E len \in Lengths : \E limit \in 1..2 :
       /\ Stale(len, limit)
       /\ reader' = [reader EXCEPT ![r] = [step |-> "fetched", len |-> len, seen |-> marketTime, limit |-> limit]]
  /\ UNCHANGED <<marketTime, recorderVars, tradesCh, serviceVars, candleTable, persistLast, traded, boundVars>>

\* ... and stored, or not: the answer to an upsert is ignored.
PersistCandles(r) ==
  /\ reader[r].step = "fetched"
  /\ LET f == reader[r]
         newest == BucketOf(f.len, f.seen)
         kept == {<<f.len, newest - i * f.len>> : i \in 0..f.limit - 1} \cap DOMAIN candleTable
     IN  \/ candleTable' = [k \in DOMAIN candleTable |->
              IF k \in kept THEN [Outside(k[2]) EXCEPT !.seen = f.seen] ELSE candleTable[k]]
         \/ UNCHANGED candleTable
  /\ reader' = [reader EXCEPT ![r] = [step |-> "none"]]
  /\ UNCHANGED <<marketTime, recorderVars, tradesCh, serviceVars, persistLast, traded, boundVars>>

-----------------------------------------------------------------------------

MarketTick ==
  /\ marketTime < marketSetup.maxTime /\ marketTime' = marketTime + 1
  /\ UNCHANGED <<recorderVars, tradesCh, serviceVars, candleTable, outsideVars, traded, boundVars>>

NoCandles == [len \in Lengths |-> NoCandle]
NoSeries == [len \in Lengths |-> <<>>]
NotRecording == [w \in Callers |-> NoTrade]

\* Recovery executes the logged orders past the snapshot again, but for those lost
\* with the log's end: their trades have new ids and the time of now, are recorded
\* and wait for the bridge, which is not started yet.
MarketRestart ==
  /\ marketRestarts < marketSetup.restarts /\ marketRestarts' = marketRestarts + 1
  /\ \E from, to \in 0..Len(By({"engine"})) :
       LET of == SubSeq(By({"engine"}), from + 1, to)
           again == [i \in DOMAIN of |-> [of[i] EXCEPT !.at = marketTime, !.by = "replay"]]
           room == Lower(Len(again), TradesBuffer)
       IN  /\ dayTrades' = Newest(again, MaxTrades)
           /\ series' = [len \in Lengths |-> FoldLeft(LAMBDA s, t : UpdateSeries(s, t, len), <<>>, again)]
           /\ tradesCh' = SubSeq(again, 1, room) /\ dropped' = (dropped \/ room < Len(again))
           /\ traded' = traded \o again
  /\ started' = [at |-> marketTime, trades |-> Len(traded)]
  /\ lastCandle' = NoCandles /\ recording' = NotRecording
  /\ persistLast' = [len \in Lengths |-> -1] /\ reader' = [r \in Readers |-> [step |-> "none"]]
  /\ UNCHANGED <<marketSetup, marketTime, candleTable, saveErrors>>

MarketInit ==
  /\ marketSetup \in MarketSetups /\ marketTime = 0
  /\ dayTrades = <<>> /\ series = NoSeries /\ tradesCh = <<>>
  /\ lastCandle = NoCandles /\ recording = NotRecording
  /\ candleTable = [k \in {<<len, BucketOf(len, t)>> : len \in Lengths, t \in 0..marketSetup.maxTime} |-> NoCandle]
  /\ persistLast = [len \in Lengths |-> -1] /\ reader = [r \in Readers |-> [step |-> "none"]]
  /\ traded = <<>> /\ started = [at |-> -1, trades |-> 0] /\ dropped = FALSE /\ saveErrors = 0 /\ marketRestarts = 0

MarketNext ==
  \/ ExecuteTrade \/ ReceiveTrade \/ SimulateTrade
  \/ \E who \in Callers : UpdateCandle(who) \/ SaveCandle(who)
  \/ \E len \in Lengths : HandleKline(len)
  \/ \E r \in Readers : FetchKlines(r) \/ PersistCandles(r)
  \/ MarketTick \/ MarketRestart

MarketSpec == MarketInit /\ [][MarketNext]_marketVars

-----------------------------------------------------------------------------
(* Properties *)

\* What a candle of these trades is.
Aggregate(trades, len, bucket) ==
  LET own == SelectSeq(trades, LAMBDA t : BucketOf(len, t.at) = bucket)
  IN  IF own = <<>> THEN NoCandle ELSE FoldLeft(Extended, NewCandle(Head(own), len), Tail(own))

\* A row made of trades is never more than what was executed in its bucket: no
\* execution is counted twice or in the wrong bucket, whatever is dropped, fails,
\* is restarted or comes from the simulator.  (A trade that a recovery executes
\* again is another execution, in the bucket of the recovery; a row whose candle
\* was extended while it was read may hold anything.)  In the buckets since the
\* last restart, while nothing is dropped or fails and nobody else writes, the
\* table has exactly the aggregates of what was executed when the consumer has
\* caught up; the recorder's candles have them always, of its own process.
CandlesAgree ==
  LET undisturbed == ~dropped /\ saveErrors = 0 /\ marketSetup.simulated = 0 /\ ~marketSetup.outside
      caughtUp == recording = NotRecording /\ tradesCh = <<>>
      own == SelectSeq(SubSeq(traded, started.trades + 1, Len(traded)), LAMBDA t : t.by # "simulator")
  IN  /\ \A k \in DOMAIN candleTable :
           LET row == candleTable[k]
               all == Aggregate(traded, k[1], k[2])
           IN  /\ row.from = "trades" =>
                    /\ all # NoCandle
                    /\ row.volume <= all.volume /\ row.high <= all.high /\ row.low >= all.low
               /\ undisturbed /\ caughtUp /\ started.at < k[2] => row = all
      /\ \A len \in Lengths : \A i \in 1..Len(series[len]) :
           series[len][i] = Aggregate(own, len, series[len][i].bucket)
===============================================================================
