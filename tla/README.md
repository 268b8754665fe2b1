# Fliance exchange: TLA+ models, model checking and proofs

Fliance (Go module `nexa-exchange`) is a cryptocurrency exchange: an in-memory
matching engine with a write-ahead log, wallets in PostgreSQL, spot settlement,
withdrawals to Ethereum and Bitcoin, perpetual futures, AMM pools, a websocket
hub and the HTTP surface around them. This directory holds TLA+ models of its
core and of what surrounds it, the TLC runs that check them on small instances,
and proofs checked by TLAPS. `PROJECT.json` lists the components, the runs, the hazards and, under
`map`, the source lines of every definition.

    tlc -workers 2 -config <cfg> <module>     one run (see "Runs")
    tlapm <module>Proofs.tla                  the proofs (see "Proofs")

## 1. The system

Three programs run (`deploy/k8s`): one `matching-engine`, two `api-gateway`
and two `wallet-service` replicas, over one database. A gateway embeds the
exchange engine, the wallet service, the bridge, the futures tickers and the
websocket hub; the wallet service runs the withdrawal workers.

| Component | State | Operations | Interacts with |
|---|---|---|---|
| ring buffer (`matching/ringbuffer.go`) | slots, head, tail, a notify channel of capacity one | `Enqueue` (many goroutines), `Drain`, `DrainStalled`, `Notify` (the engine) | producers and the run loop, through atomics only |
| run loop (`matching/engine.go`, `run`) | cancels channel, done channel | `SubmitOrder`, `SubmitOrderSync`, `Cancel`, `Stop` | ring, book, log |
| matching rules (`engine.go`, `orderbook.go`, `order.go`) | heaps, map of live orders, parked stops, last price | eight order types, self-trade prevention, cancel, stop triggers | emits fills into the `Fills` channel |
| durability (`wal.go`, `snapshot.go`, `exchange.go`) | log file, sequence number, snapshot file | append with group fsync, snapshot, recovery | run loop appends before it applies; an administrator and a ticker take snapshots while it runs |
| spot settlement (`wallet/service.go`, `wsbridge/bridge.go`, `api/order_handler.go`, `wallet/shared_store.go`) | reservations and processed fills in memory, their copies in an optional shared store | reserve, release, settle a fill | request goroutines, the bridge, the database |
| wallet rows (`store/pg_wallet.go`) | balance and locked per user, asset and account; daily usage meter | `Settle`, `ReserveForAccount`, `ReserveWithDailyLimit`, `UpdateTxStatusFrom`, `SaveTx` | everything that moves money |
| withdrawals (`wallet/withdrawal.go`, `cmd/wallet-service`) | status of each withdrawal row | request, approve, reject, broadcast, cold signing, confirm | gateway, two workers, chain, signer |
| futures (`api/futures_handler.go`, `store/pg_futures.go`) | position and order rows | open, close, partial close, margin, liquidation, funding, triggered orders | handlers and two tickers in each gateway |
| address whitelist (`wallet/withdrawal.go`, `pg_address_whitelist.go`) | rows, or a list in memory | add, remove, look up | administrators at one gateway, withdrawals at another |
| deposits, addresses, transfers (`wallet_handler.go`, `pg_wallet.go`) | wallet and ledger rows, deposit addresses | credit a deposit, make an address, move between accounts | administrators, users, the verifier of claims |
| deposit claims (`deposit_claim_handler.go`, `deposit_verify.go`, `pg_deposit_claims.go`) | claim rows | submit, review, automatic verification | wallet rows, chain clients |
| AMM (`amm/service.go`, `store/pg_amm.go`, `market/amm_feed.go`) | pool reserves, LP shares, fees | add and remove liquidity, swap, seed, simulate | wallet, one mutex per process |
| KYC (`kyc_handler.go`, `pg_kyc.go`, `wallet/withdrawal.go`) | submissions, documents, levels, a cache of levels | submit, review, look up | administrators, withdrawals |
| profit and loss (`pnl/service.go`) | positions and daily results in memory | record a fill, summary, history | one bridge goroutine per pair |
| price feeds (`market/binance_ws.go`, `price_handler.go`, `price_adj.go`) | connection, caches, corrections | stream, poll, choose a source, correct | outside exchange, administrators, requests |
| market data (`matching/marketdata.go`, `market/candle_service.go`) | candle series, ticker window, trade channel, candle rows | record a trade, consume, save, read | engine, outside candles, requests |
| websocket hub (`pkg/websocket`, `ws_handler.go`) | clients, rooms, a counter | register, unregister, join, broadcast | bridge, two goroutines per connection |
| sessions (`internal/auth`, `auth_handler.go`, `middleware.go`) | token blacklist of one gateway | login, refresh, logout, password change | every request |
| accounts (`auth_handler.go`, `uid.go`, `pg_user.go`) | users, a sequence | register, allocate a numeric id | database |
| caches and limits (`internal/cache`, `middleware.go`) | windows and counters, in memory or in Redis | count a call, lock out, reset | every request |
| risk (`risk/risk.go`) | reference prices, latching breaker, order counters | check an order | order handler, bridge, administrators |
| audit log (`audit/log.go`) | a channel, a batch, a table | record, flush, close | administrators' handlers, shutdown |

**Hard behaviours.** Lock-free publication and wake-up in the ring; a loop that
must neither lose a wake-up nor leave a caller waiting; heaps that keep stale
entries; crashes between journaling, applying and answering, with a snapshot
taken while the engine runs; funds reserved, reduced, released and restored by
three kinds of goroutine in separate steps; withdrawals driven by two replicas
whose steps are a chain call and a database call that cannot be one
transaction; futures positions read, settled and saved in three statements.
`PROJECT.json` lists them line by line under `hazards`.

**What makes each part correct.** Ring: every accepted order is handed over
once, in reservation order. Loop: no order waits while the engine sleeps, no
caller waits for ever. Matching: price-time priority, conservation of quantity,
an uncrossed book, cancelled orders that stay away. Durability: what was
answered survives a crash, once and in order, and what was rejected does not
come back. Settlement: nobody spends more than he has, money is conserved,
every trade is settled, and once, no funds stay locked. Withdrawals: what is set
aside is given back once or paid once. Futures: margins and locks agree, a
position is settled once. AMM: shares, reserves and wallets agree, and a swap
does not eat the reserves. Claims and deposits: credited once, backed by the
chain or the ledger. Whitelist: what administrators were told is what
withdrawals meet. KYC: no level without an approval. PnL: realized and
unrealized results are cash and holdings. Prices: fresh and corrected once.
Candles: the aggregates of what was executed, a recovery's executions included. Hub: no slot lost, connections end.
Sessions: what was revoked stays out. Accounts: ids are distinct. Limits: never
more than permitted. Risk: a tripped breaker latches. Audit: no entry
disappears.

## 2. Modules

| Module | Models | State and actions against the code |
|---|---|---|
| `OrderQueue` | abstract: a bounded FIFO queue | `enqueued`, `dequeued`; `Put`, `Take` |
| `MPRingBuffer` | `ringbuffer.go` | one action for each atomic load, store, swap or compare-and-swap of `Enqueue` and `Drain`; local copies of the cursors are variables (`hd`, `tl`, `cTail`) |
| `EngineLoop` | `run`, `SubmitOrder(Sync)`, `Cancel`, `Stop` | extends `MPRingBuffer` and composes its steps with the loop's program counter `lpc`, the bounded `cancels` channel (with the senders blocked on it, in their order) and `done`; each select branch is an action |
| `MatchingEngine` | the book and the matching strategies | one fill per step; `live` is the map, `heap` the heaps with stale entries, `stops` the parked stops; `Submit*`, `Fill`, `PreventSelfTrade`, `Finish*`, `IcebergSlice`, `TriggerStops`, `Cancel` |
| `EngineRecovery` | log, snapshot, recovery | the file is a sequence of lines (whole, cut, without a newline, garbage); the orders have their time priority (`bookSeq`), which `Recover` makes anew by `CreatedAt`; `AppendWrite`, `AppendFails`, `AppendSynced`, `SyncFails`, `Apply`, `TriggerStops`, three snapshot steps, `Crash`, `Recover` |
| `Settlement` | the money side of spot trading | one step for each critical section, database transaction or call of the shared store: `Reserve`/`Track`/`Submit`, `Release*`, `Bridge*`, with a small engine (`Take`, `Trade`, `Finish`), transfers and `Crash` |
| `Payout` | abstract: what a withdrawal promises | `Hold`, `Return`, `Send`, `Settle` |
| `Withdrawal` | request, review, worker, cold path | one step for each statement, transaction or remote call; failing calls, crashes, moving prices |
| `Futures` | one user's positions in one pair and his futures account | `pos` is the table, `act` what each goroutine (handlers, one ticker and one funder per gateway) is in the middle of: rows read (`todo`), then what it will move and write (`plan`). Handlers begin with `OpenPosition`, `CreateOrder` and `Call`, tickers with `TickerScan`, funders with `FundingScan`; `Decide` looks at the price, `Settle` and `Reserve` are the wallet transactions, `Save` writes the row |
| `AddressBook` | the withdrawal whitelist | the table's rows under their lower-case spelling, or each gateway's own list; a request and a look-up are statements that may fail; `met` is what administrators had been told while a look-up ran |
| `WalletDesk` | deposits, deposit addresses, transfers | an administrator's deposit is four statements (look for the hash, find or make the wallet, credit, ledger entry), a transfer one transaction |
| `DepositClaims` | claims and their verification | the calls of the chain one by one while it grows, the retry, the note, the review; approval, credit and entry in one transaction whose commit may lose its answer |
| `AmmPool` | one pool | an operation reads the row, settles wallets, writes the row, writes its position or fees, each a statement; the mutex of one gateway, the other gateway, the simulator and the seeder |
| `Kyc` | submissions, review, the cache of levels | documents are written, then the row; a review updates the submission, then the user's level; a withdrawal reads through its gateway's cache |
| `PnL` | the results of users | both sides of a fill as two steps of the pair's goroutine; exact fractions |
| `PriceFeeds` | stream, poller, chain, corrections | connection with its age and back-off, bounded message channel, a request's walk over the sources, an edit's table write and memory write |
| `FillDedup` | the memory of settled fills | the bounded set (least recently used, with a lifetime) of each process, claims of the shared store, deliveries that repeat, restarts |
| `MarketData` | from trades to candles and ticker | the recorder under its lock, the bounded channel, the bridge's consumer and the simulator in one candle service, each updating under the lock and saving the shared object without it, the outside handler, a reader's two look-ups, a restart that executes any stretch of the logged trades again, at its own time |
| `WebsocketHub` | the hub and its connections | `conn` is the reading goroutine, `writer` the writing one; the hub's loop takes registrations one by one; a broadcaster works through a snapshot of a room |
| `Sessions` | tokens and the blacklist | a request checks, then acts, in steps; blacklists are per gateway; time and restarts |
| `Accounts` | registration and ids | look-up, sequence, permutation, insert; the Feistel network with arbitrary round functions over small domains |
| `RateLimits` | limiters and lockout | fixed window, sliding window in memory (the time is read, then the list counted under the lock) and in Redis (removal, count, addition and expiry, each a command; a key dies by the time it has), capacity, fallback, reset; a remembered call is its time and which of that time's calls it is, except that Redis, whose member is the time in nanoseconds, keeps one of two calls of the same one (the other counts as lost) |
| `OrderRisk` | the checks of an order | one step for each read of a field that others write; breaker and counters under their locks; administrators write limits, switches and the reference price field by field |
| `AuditLog` | `Record`, `run`, `Close` | the channel and its closing, the batch, a write that fails or whose answer is lost |
| `MCMoney`, `MCGateway` | instances of eight and of seven of these modules | see below |
| other `MC...` | instances for TLC | values of the constants, nothing else |
| `EngineProofs` | theorems about `MPRingBuffer`, `EngineLoop` and `EngineRecovery` | section 5 |
| `SettlementProofs`, `WithdrawalProofs`, `FuturesProofs` | theorems about the module they are named after | section 5 |
| `MatchingProofs` | theorems about `MatchingEngine` | section 5 |
| `MoneyProofs`, `GatewayProofs` | theorems about modules of `MCMoney` and of `MCGateway` | section 5 |
| `SumTheorems` | lemmas about sums over finite sets, and least elements | section 5 |

Composition: `EngineLoop` is built from the steps of `MPRingBuffer`.
`EngineLoop`, `MatchingEngine` and `EngineRecovery` divide one goroutine
between them: who wakes it and whom it answers, what one order does to the
book, and what of it survives. `Settlement` contains an abstraction of the
engine (price-time matching of one pair) because what it needs from it are the
fills and their order. `Withdrawal`, `Settlement` and `Futures` share the meaning of
a wallet row: `Unlocked` skips an unlock that exceeds what is locked, as the
`UPDATE ... AND locked >= $1` of `PGWalletStore.Settle` does.

`MCMoney` and `MCGateway` put modules into one specification that share no state
in the models: a behaviour is about one of them, which the variable `part`
says from the initial state on, and the setups of the others stay at one value,
so that nothing is multiplied. The parts of the system they model do meet in the
code, through wallet rows (`Settlement` and `Withdrawal` model those), and
through values that the models choose freely: a price, a level, a fill that
comes again.

**Abstractions.** Prices and quantities are small naturals; amounts in
`Settlement` are counted in fee units so that fees are whole. Records of the shared store do not expire in `Settlement` (`FillDedup` has the
lifetimes); a database call that commits unheard counts as failed, as in
the code, with its effect in place (`Settlement`, `Futures`). Rounding at 18 decimals is not modelled in `Settlement`; in `Futures` a division rounds down to
the unit and a sum of margins may be off by `rounding` units, the amounts locked being exact, and in `AmmPool` to the nearest one, which is the 18th decimal the
rows keep; `PnL` uses exact fractions. A deposit into
a pool whose reserve rounding has emptied while shares are left divides by zero; the request is left out. The uint64 cursors of the ring and the sequence
numbers do not wrap. Order pools, metrics, logs and JSON are left out. In
`EngineRecovery` an operation is opaque, so that "the book" is the sequence of
operations applied, with the time priority of each. The workload says which
operations are stop orders and behind whose record each request was made: that
is what the times are compared by, and the clock runs forward.

## 3. Runs

Several runs contain more than one instance: a variable (`deployment`,
`syncEvery`) or the choice of a flow picks one in the initial state and no
step changes it, and a property that holds only in some of them names the
condition (`Plain`, `Undisturbed`, `SnapshotExact`, `Calm`, `OneWriter`).

A module that states several parts of one matter gathers them in one definition,
which the run checks: `IntakeSound` (`NoLostWakeup`, `ProcessedInOrder`),
`CallsReturn` (`CancelReturns`, `StopEnds`), `BookSound` (types,
`QuantityConserved`, `NotCrossed`, `BookConsistent`), `TradesLawful`
(`PricesRespected`, `NoSelfTrade`, `FOKAllOrNothing`), `AnswersSurvive` (types,
`AppliedSurvives`, `OnceInOrder`, `KeepsPlace`, `RejectedStaysOut`,
`NumbersGrow`), `FundsSafe` (`Solvent`,
`FundsConserved`, `SettledAtMostOnce`), `LocksHaveOwners` (`LocksAccounted`,
`NothingStaysLocked`), `WithdrawalsAccounted` (`FundsAccounted`,
`PaidOrReturned`, `WithinDailyLimit`), `PositionsAccounted` (`LocksMatch`,
`OneOpenPosition`), `PositionsEnd` (`EndsForGood`, `PositionEnds`),
`RulesRemember` (`BreakerHolds`, `OrderRateHolds`). Each part keeps the comment
that says what it is about.

| Run | Instance | Shows |
|---|---|---|
| `ring` | 2 producers, 5 orders, 4 slots (3 usable), consumer free | no overwriting (`NoOverwrite`), truthful answers (`AnswerIsTrue`), refinement of `OrderQueue` and with it delivery once and in order (`ImplementsQueue`); no deadlock. Five orders go round the ring, so that a slot is reused and full and empty rings both occur |
| `loop` | 2 producers, 2 orders (one synchronous, one with a bad quantity), 2 users cancelling without end, room for one cancel, stop at any moment | no lost wake-up; orders worked off in order; under fairness accepted orders are processed without help of the idle timer, `Cancel` returns and `Stop` ends the loop |
| `matching` | six flows of 3 or 4 orders: takers of each kind, a book of limits, stops, self-trades, fill-or-kill, own orders in its way; cancels between orders | conservation, limits, uncrossed and consistent book, arrival priority, no self-trade, all-or-nothing, no order comes back, processing ends |
| `matching_iceberg` (violated) | an iceberg larger than the other side | `ProcessingEnds` fails: the slice loop never ends |
| `recovery` | 3 operations, one of them a stop order, two of them requested at once, the third before or behind them; 3 crashes, 2 snapshots, fsync after 1 or 2 records or by time, failing and short writes (cut anywhere, before the newline too), failing fsync, power loss | what was answered survives, once and in order, and keeps its place in the book before what was requested behind its record; what was rejected stays out, unless it was its fsync or its newline that failed; record numbers grow up to the second crash, or while no line is cut |
| `settlement` | eight deployments of 2 users and 2 to 4 orders: refusals and cancels; two undisturbed ones, of orders that reserve and of others; a shared store with a crash; one with database calls that fail, with or without effect, and a crash; one whose own calls fail, and a crash; orders that do not rest, with cancels; a fill channel with room for one, that drops the second | solvency and conservation in all of them; single settlement (of fills whose claim and settlement were answered), exact accounting of locks, release of locks and settlement of every trade whose buyer reserved, where each applies (`EveryTradeSettles` and `NothingStaysLocked` where the channel has room for every fill) |
| `withdrawal` | 3 withdrawals of which two fit the limit, 2 admins, a failing gateway call; 2 withdrawals, one of them cold, with failing calls, a crash and a moving price; and a cold withdrawal whose gateway fails twice | books and statuses agree, daily limit, refinement of `Payout`, what was sent is never returned, approved withdrawals complete |
| `withdrawal_two_workers` (violated) | one withdrawal, two worker replicas | `SentOnce` fails |
| `futures` | 2 handlers, a ticker, a funder; seven deployments of 3 or 4 calls: long, short and cross positions with take-profit and stop-loss, calls that follow one another and a feed without a price; calls that overlap; margins added and reduced under liquidation; funding charged and paid; failing database calls and gateways that end; margins that are rounded when positions grow or are closed in part; a stop-loss that every price meets, while a nearly empty account adds to the margin | solvency of the account in all of them; without overlap, ended positions stay ended; without overlap or failure, one open position and its margin locked but for what was rounded, and nothing more unless something was; a position that is lost does not stay open, nor one whose stop-loss or take-profit is met, as long as the account can pay for closing it |
| `futures_partial` (violated) | a long position closed in part, one call after another | `NothingOverclosed` fails |
| `money` | the eight parts of `MCMoney` (below) | `PoolBacked`, `SwapKeepsProduct`; `CreditedOnce`, `AutoApprovedOnChain`; `LevelEarned`; `PnLAddsUp`; `LedgerBacked`, `AddressKept`; `AdjustedOnce`; `NotSettledAgain`; `WhitelistHonoured` |
| `gateway` | the seven parts of `MCGateway` (below) | `SlotsAccounted`, `ConnectionsEnd`; `RateBound`; `RevocationHolds`; `IdsDistinct`; `NothingDisappears`; `RulesRemember`; `CandlesAgree` |

The parts of `money` and `gateway`:

| Part | Instance | Why it is enough |
|---|---|---|
| pool | a seeded pool, one that is being seeded, an empty one, each with one gateway; two gateways and the simulator. 2 users, 2 or 3 operations, 1 fault | a swap, a deposit and a burn follow one another and one breaks off between any two statements; reserves of 8 and amounts of 2 and 4 make quotients that round |
| claims | five sets of claims: right and wrong ones, one txid twice, one in two spellings, an unknown asset; chain of 3 blocks, 2 confirmations, 2 faults | a claim waits for confirmations between two calls; a review races with verification; a lost commit is tried again |
| kyc | two submissions at one gateway; one at two; 2 administrators, 1 fault, a cache entry that expires | two reviewers meet on one submission, one to approve and one to reject; a cache entry is older than the table |
| pnl | 2 users, 2 pairs of one base asset, 3 fills, 2 days, 1 restart | a position grows, shrinks and goes through zero on fills of two goroutines that interleave |
| desk | one hash twice and a transfer; a first deposit and two questions for an address; addresses and transfers there and back; 1 or 2 faults | two deposits make one wallet row at once; two requests make two addresses and one is kept |
| prices | every source and one correction; two corrections at once and a fault; a session that grows too old | a request takes a ticker that others share, and falls back from stream to poller to pool |
| fills | room for 2 of 3 fills; room for 1 with a restart; 2 processes and a shared store; lifetimes of 1 | a fill is forgotten by capacity, by time and by a restart, and comes again |
| book | a table behind two gateways; two administrators at once; a list in memory; 2 or 3 calls, 1 fault, an address in two spellings | an amendment fails at one gateway while a withdrawal looks up at the other |
| hub | 2 connections, caps of 1 and 2, a queue of 1, no drop tolerated, 2 broadcasts | both register at the cap; a slow one is cut off by a broadcaster while its reader unregisters it |
| limits | HTTP, websocket and lockout limiters on both caches, 2 calls per window, 5 calls, 1 fault | two callers interleave between Redis' commands, or wait for the lock with times of different windows; a key dies between an addition and its expiry; keys are evicted; the cache fails; the bounds are tight: one less is violated |
| sessions | one gateway, 2 requests in parallel, 4 tokens, purge above 1 entry, times 0 to 3 | two refreshes use one token at once; the blacklist is purged before and after an expiry |
| accounts | domains of 3 and 5 ids, blocks of 4 and 16, 8 families of round functions, 2 registrations, 0 to 3 or 7 earlier accounts | the permutation has to walk more than once; the first domain runs out between two registrations, and so does the last, after which an id is a random one |
| audit | 2 handlers with 2 entries each, a channel of 2, batches of 2, with a store and without | the channel is full, a batch is cut by the close, `Record` passes its look at `closed` and meets the closed channel |
| risk | four setups of orders, trades and edits | the breaker trips between two reads of a check; limits per minute, hour and day overlap |
| market | up to 3 trades over 3 buckets, a failing save, a restart, an outside source, a trade of the simulator; series of 2 candles | a bucket ends while the consumer saves the last; a drop leaves the channel behind the recorder; a recovery fills the channel before the bridge empties it, in the bucket of the trades it repeats or in a later one; two callers extend one candle while either saves it |

**Why the bounds are enough.** Each bound is the least that lets the
interesting case occur and one more: a ring that fills, wraps and empties; a
cancel that finds the channel full; a stop that triggers on the trade of an
earlier order and trades itself; a record cut by a crash and one appended
behind it; three orders of which one pays less than its limit; three requests
of which two fit the limit. `MaxSends`, `MaxCrashes`, `MaxTransfers`,
`MaxOps`, `MaxSnapshots`, `MaxCalls`, `faults`, a flow's `max` and the
other `Max...` and counts of a setup appear in
guards only. Futures at two prices around an entry have winners and losers,
positions whose margin survives and ones whose margin does not; four calls open
on one side, grow, reverse and close. One ticker is enough to race with two
handlers, because a liquidation on request takes the same steps.
Every property has a mutant of the code that it rejects (`mutants`).

**Deadlock.** It is checked in `ring`. Elsewhere the system may really stop:
all orders are in, all withdrawals decided, or the engine has been stopped.

## 4. Fairness

Goroutines that can run do run: weak fairness on a producer inside `Enqueue`,
on the engine's loop, on the bridge, on a worker, on a futures handler that has
begun, on the futures ticker, which `main.go` starts with the gateway
(`PositionEnds`), and on the two goroutines of a websocket connection and the
hub's loop for each registration (`HubFairness`: the loop's `select` leaves no
channel waiting for ever and a write ends by its deadline; `ConnectionsEnd`).
Nobody is obliged to start anything: no fairness on calls, cancels, reviews,
transfers, websocket clients, broadcasters, crashes or failures. Strong fairness is used twice. The loop's
`select` chooses among ready branches pseudo-randomly, so that a closed `done`
that is offered again and again is taken at last (`StopEnds`). A worker's tick
goes over every listed withdrawal, so that none is passed over for ever while
its worker is busy with another (`ApprovedCompletes`). The idle timer of the
loop gets no fairness: `engine.go` says it only guards against lost signals,
and the run shows that there are none.

Cancels have priority over orders in the loop, so a stream of cancels that
never pauses holds orders back for ever. `BacklogIsProcessed` says so: the
backlog ends, or the engine stops, or a cancel is under way again and again.

## 5. Proofs

Eight modules hold theorems, for every value of the constants that the `ASSUME` of
the module they are about allows (types and positive sizes; nothing about schedules or failures):

| Theorem | Says |
|---|---|
| `RingInvariant`, `RingTypes` | `RingSpec => []RingInv`, and the types |
| `RingDeliversInOrder` | what was drained is a prefix of what was reserved |
| `RingNeverOverwrites` | a producer about to publish finds its slot empty and has no rival for it |
| `RingImplementsQueue` | the ring implements the FIFO queue of `OrderQueue` with room for `Cap - 1` orders |
| `RingAnswersTruly` | `AnswerIsTrue`: what `Enqueue` took is delivered or on its way, what it refused never had a slot |
| `EngineRunsRing`, `EngineIntakeSound` | the engine drives the ring as `RingSpec` says, so that the ring's theorems hold in it; the loop misses no wake-up and keeps the order |
| `AnswersRecovered` | `AnswersSurvive`: after any crashes the book has what was answered, once and in order, each order with its place before all that were requested behind its record, and nothing that was rejected (unless its fsync or its newline was all that failed); record numbers grow up to the second crash, or while no line is cut |
| `MatchingBookSound` | fills add up to trades, the book's structures agree, it is not crossed |
| `MatchingTradesLawful` | prices within both limits, no self-trade, fill-or-kill all or nothing |
| `MatchingFairPriority` | an action property: price first, then arrival |
| `MatchingGoneForGood` | an action property: who left the book does not return or trade |
| `SettlementTyped` | types; among them: whoever refers to a reservation object refers to one that exists |
| `SettlementSafe` | `FundsSafe`: locks between zero and balance, money conserved but for fees, no fill settled twice without a crash or with the shared store, except one whose claim or settlement got no answer |
| `SettlementLocksOwned` | `LocksHaveOwners`: in a process with limit orders and no faults, locks are what reservations hold, and gone with them |
| `WithdrawalTyped`, `WithdrawalPaidOrReturned` | types; nothing sent is given back, nothing is debited unsent |
| `WithdrawalBooks` | `WithdrawalsAccounted`: locks, balance and daily meter agree with statuses and handlers |
| `WithdrawalImplementsPayout` | the withdrawals implement `Payout` |
| `FuturesSolvent` | locked margin stays between zero and the balance |
| `FuturesAccounted` | `PositionsAccounted`: one open position at most; its margin is locked but for what was rounded, and if nothing was, nothing else is |
| `FuturesEndForGood` | an action property, part of `PositionsEnd`: an ended position stays ended |
| `KycLevelEarned` | no level without an approval, in the table, a cache or a payer's hands |
| `ClaimsCreditedOnce`, `ClaimsOnChain` | a claim is credited when approved, once; what was approved unseen is on the chain |
| `DeskLedgerBacked`, `DeskAddressKept` | wallets hold what the ledger says; an address has one owner |
| `PoolStaysBacked` | `PoolBacked`: what users paid is in the pool, shares are owned, whatever breaks off |
| `SwapsKeepProduct` | `SwapKeepsProduct`: a swap leaves the product it read, up to rounding, whoever else writes |
| `FillsNotSettledAgain` | `NotSettledAgain`: a fill is settled twice only when it had to be forgotten |
| `PricesAdjustedOnce` | `AdjustedOnce`: a served price was fresh when picked, and corrected once |
| `WithdrawalsHonourList` | a withdrawal passes or fails as administrators were told |
| `HubKeepsSlots` | connections counted are those that hold a slot, within the cap |
| `AuditKeepsEntries` | a recorded entry is in the table, in the log or on its way |
| `SessionsEnd` | a revoked token is refused until it expires |
| `RateLimitsBound` | `RateBound`: what a limiter lets through in any window of time |
| `RiskRulesRemember` | `RulesRemember`: the breaker latches, and orders let through keep to the limits they were checked against |

**The ring.** "Delivered in order" is not inductive: it says nothing of the slots. `RingInv`
adds what each atomic step relies on. `CursorsInv`: `head <= tail`, at most
`Cap - 1` positions are pending, local copies of a cursor are never ahead of
it. `HoldersInv`: a producer between its compare-and-swap and its store owns
one pending position that no other producer owns. `SlotsInv`: a pending
position is either published, and then its slot holds the order that reserved
it, or owned, and then its slot is empty; all other slots are empty.
`CollectedInv`: what the consumer has collected is the stretch of `reserved`
between what was delivered and `head`. Two pending positions never share a
slot because fewer than `Cap` are pending; this is the one arithmetic lemma
(about `%`) the argument rests on. The refinement maps `enqueued` to `reserved` and
`dequeued` to `delivered`: the compare-and-swap is `Put` and the end of a drain
`Take`; all other steps stutter. Both are history variables: no step reads them.

`AnswersInv` follows an order through `Enqueue`: it is in one producer's hands or has
had one answer, and has a slot exactly from the compare-and-swap on.

**The loop.** `LoopInv` adds to `RingInv` what the loop knows between two looks at the ring.
What its last look at the tail did not cover is announced (`WakeUpDue`): a signal is in the
channel, or a producer past its compare-and-swap is still to send it. A drain that stops
early has met a slot still held, whose producer will signal; so the loop may spin or sleep.

**Recovery.** `RInv` says where each operation is. Records are in the order of the operations
(`FileInv`), whatever happens. Their numbers are a matter of regimes, which only end
(`Regimes`): up to the first restart, and for as long as no line was cut, record i is
line i and has number i; up to the second crash numbers still grow and the writer's is not below
them (`NumberInv`). `KeptInv` says where an answered operation is: in a whole record
that was fsynced when every record is, in a record when nothing was cut, or in the
book. `SnapInv` ties a snapshot, on disk or under way, to the book there is now: its
book is a prefix of it, the rest is in order and later than what the snapshot reflects, and what is
recorded behind its number and answered is in the book. That the snapshot reflects the
records up to its number is the one assumption (`SnapshotExact`), as in the code's comment.
Trying to prove `OnceInOrder` for every crash showed that it was false (three
snapshots and three crashes): numbers that a restart gave again let one snapshot
reflect a record and skip an earlier one. It now names the condition, and `NumbersGrow` the reason.
`PlaceInv` is about the time priority. `Snapshot` lists the orders from a map and leaves
`bookSeq` out, `Restore` numbers them by `CreatedAt` (`snapshot.go:67-93`), and a replayed order
has the time of its record (`exchange.go:255`): an order that was requested behind the
record of another was created after it by either time (`MadeBehind`), and replayed orders come after restored
ones, so that places grow along a book that is in order. What is not promised: two
orders of which neither was requested behind the other's record may change places, and a
stop order that was parked has no place after a restart (`snapshot.go:87`).

**Matching.** `BookSound` says nothing of the heaps' stale entries nor of the order in
hand. `MatchInv` adds: where each order is, and that a heap entry not live belongs to
one who is gone, filled or cancelled (`Places`); that sequence numbers follow arrival, an
unnumbered taker being the newest order (`Numbered`), which makes the heap's best
order unique and its priority that of arrival; and what a finished loop leaves
behind (`Uncrossed`: if the taker still has something and was not stopped, nobody in
the book is within his limit). Fill-or-kill needs a sum: while nobody of the other
side left unfilled, the orders a taker can reach and may trade with add up to what
remains of him (`Counted`). `matchFOKLocked` counts heap entries, and those that are
stale then have nothing left; a fill takes the same from both; when no partner is
left the sum is zero, and so is what remains. What a submitted order may come to
is reduced to four outcomes (`Outcomes`) before the invariant is shown of them.

**Settlement.** Solvency is inductive beside the types: each step that lowers a balance
or raises a lock looks first, in the same statement. Conservation is stated per
user and per fill (`Conserved`: the sum of what users own is the sum of what they
started with, less the fees of settled fills) and shown step by step: a settlement
adds the same quantity to one user as it takes from the other, or is between one user
and himself. That no fill is settled twice needs to know where an id is remembered
(`Remembered`): a settled id is in `processed` while the process lives, in
`claims` where the store is shared, and the id of the fill that the
bridge is settling is in neither (in `claims`, but not settled) - or the id is one of
`unsure`, the history of claims and settlements that got no answer. Solvency and
conservation need no such exception: the transaction that committed unheard
checked its guards like any other.

That locks have owners (`LockInv`) needs to know who is going to release an order. An
order is open while the engine may match it or its last fill is in the channel or with the
bridge (`Open`); it has one last fill (`EndsOnce`), and one thread at most releases
it, after that (`Releasers`). So a reservation object has one order, and an order one
object (`Owned`), though the map, a release and the bridge all refer to it. An open order's
reservation covers what the fills under way take, in their order, and what remains
(`Covered`, with a sequence of bounds as witness). So what the bridge takes of it for an order's last fill is what
the fill costs (`Backed`), and a settlement can fail only when the other party cancelled, whose
reservation is gone: the failed one's owner is in the book still, or comes to be released by the
bridge after it put the reservation back. Then `Accounts` add up to `locked` step by step. `Plain`
names what the argument uses; without its condition on the maker's rate, which the code
leaves to the configuration, the lemma is false: a buy that rests and pays more than it reserved lets a
settlement fail while the seller cancels, and what the release unlocked is put back as
reserved. And a last fill dropped from a full channel leaves funds that nobody releases:
`NothingStaysLocked` is about runs with no more fills than the channel holds.

**Withdrawals.** Three layers. `Ordered` is true whatever fails or crashes, with any
number of workers: a row is past review before a worker touches it, and no
reviewer who may give funds back meets one that was sent. `Serial` is what a
single worker adds, when its calls do not fail: it finds the row as it read it, and
one reviewer at most gives a withdrawal back. `Booked` is arithmetic on top:
three sums over the withdrawals (those that hold a lock, those debited, those
metered) against `locked`, `balance` and `used`. The lock is bounded from below
always and is exact when `Undisturbed`. Each step then is one of `Payout` or a stutter.

**Futures.** Whether an unlock can raise what is locked depends on the sign of the
margin in the row that a goroutine read some steps ago. `IInv` therefore says of
every row, stored, read and not yet decided about, or planned and not yet written,
that its margin is no debt unless funding is charged (`Sound`), and of every plan
that it unlocks no debt. No order among calls is needed: two requests that
close one position settle it twice, and the account pays for it, but only what it has.
`SInv` adds what holds while calls do not overlap: what a goroutine has read is what is
stored, one at most is about to write an open row, and, when nothing fails either, what
is locked agrees with the margins, or will by the row the one in the middle writes:
it is less by no more than what was rounded, and the same if nothing was (`Agrees`).

**Identity checks.** A level passes from the table through a cache to a withdrawal, so the invariant
says of each place that what it holds was earned; an approval is final because
the update asks for a pending row.

**Claims.** `Learnt` says what a verifying request at each step knows of the chain,
which stays true while the chain grows; `Exclusive`, that at most one transaction at a claim is
past its update, the claim pending until that one commits. Credits are a sum over approved claims.

**Deposits and addresses.** A deposit may write its ledger entry with a wallet id it made up. A wallet
keeps its id, and a made-up id is used for its user's wallet or for none; so the
invariant counts, per wallet, the credits whose entry is still to come (`Owed`) and
the entries that are there. An address is remembered from the moment it was given
out (`Given`).

**Pools.** An operation writes the row from its own copy. While one gateway writes, the copy is the row
but for the fields it has written itself, and at each statement the kind of the operation
says which parts of its change are still to come (`PoolKnown`). Wallets, row, what is in hand and what broke
off then add up for each token, and shares likewise (`PoolSums`). The product needs none of
this: an operation writes what it worked out from the row it read (`WorkedOut`), and its quotient is
within half a unit (`QuoNear`), for any writers.

**Settled fills.** A process's list is what the history of its accesses says, latest first, with
everything recent in it (`Memory`). A fill it did not know when it settled it had to be forgotten
(`Forgotten`). With a shared store (`ClaimsInv`), a fill has one claim, which its holder alone
has and which outlasts the settlement because nobody stalls for a claim's lifetime; a claim
whose settlement was reported keeps others out until it expires.

**Prices.** What a cache holds was heard from its source at the time it says (`Heard`), what
memory holds has been in force (`Read`). Nothing heard or in force is taken back,
so that what was served stays right.

**Address list.** With a table or with lists in memory, an address at a gateway is one thing: a
change touches every spelling, at every gateway its store reaches (`Touches`). What
was last said of it holds as long as nobody amends it.

**Gateway.** The hub's count is the number of clients, of connections counted and of
registrations under way, as cardinalities. An audit entry is in the channel
while the channel or its consumer lives; `Close` and the last look at `closed` come in
a fixed order. A blacklist entry holds the expiry of its token, so purging removes only
tokens that have expired.

**Limiters.** Each kind of counter has its own invariant. In memory, take a window of time that ends at `T`:
the list of the key holds its calls, at most the limit of them (`Held`), until a caller who read a later
time drops some; from then on only those who already waited with a time of that window can
add to it, and there are fewer than there are callers (`Stalled`). A fixed window answers for its own calls and for
those of the window before it, which ended when it began (`FixedOk`); the lockout's count is that of
its calls (`LockOk`). In Redis likewise: until somebody
trims one of its calls, the set holds all of them but what was lost (`InSet`) and a caller is let
through by a count of them; from then on a caller who began in that window can only be
one who was already counting, and there are fewer than there are callers (`Adrift`).

**Risk checks.** An order is counted under a lock and let through some steps later. What the counts
hold, for a day, is every order let through or still in hand (`HeldIn`), each one had room under its
limits when it was counted, being the last of its time (`RoomyIn`), and two orders of one time are told
apart by their number. A check that began with the breaker tripped is still in front of the
breaker, which stays tripped and on (`Latched`), so it cannot get past.

Sums (`MapThenSumSet`) are recursive by a choice of an element. `SumTheorems` shows
what they need (adding, removing, changing one term, comparing term by term) by the
smallest counterexample among finite subsets, since the library's induction
theorems take an operator as a parameter, which no installed prover instantiates.

**Only model-checked:** liveness (fairness is out of the provers' reach) and the
action properties of the wallets and of the price feeds; and of the smaller modules `PnLAddsUp` and
`CandlesAgree` (folds over sequences, whose facts are inductions over data). `Accounts` rests on `Bitwise`, so that neither it nor
`MCGateway` can carry a theorem; the modules composed with it can.

## 6. What the models showed

Three runs refute what the code, its comments or its tests promise.

- `matching_iceberg`: `matchIcebergLocked` (`engine.go:464`) repeats its slice
  while anything remains. If the other side is empty it never ends, with the
  book's lock held; `order.go:137` promises the caller an answer.
- `withdrawal_two_workers`: `BroadcastWithdrawal` reads the status, sends, and
  saves; two replicas both send.
- `futures_partial`: `SavePosition` (`pg_futures.go:24`) updates a position's
  margin and not its quantity or entry price. A position closed in part keeps
  its size and can be closed in part again, past what was opened, although
  `futures_handler.go:477` checks for that; one that grew is not larger in the table.

Some sentences of the code are stated in the modules, and refuted by TLC when they
are added to the run's configuration; no run lists them:

- `LogNumbered` (`EngineRecoveryNumbers.cfg`, for `MCEngineRecovery`): `NewWALWriter` (`wal.go:69`) numbers on from the
  count of records, "so Seq() remains monotonic across restarts" (`wal.go:60`). A crash
  cuts the last line, the next append continues it and is lost with it, and the
  second restart gives numbers again.
- `SettledOnce` (`SettlementRestart.cfg`): recovery replays orders and emits
  their fills again; the set of processed fills is in memory (`service.go:152`),
  so that without the shared store they are settled twice.
- `DepositIdempotent` (`wallet/service.go:318`): two deposits of one hash look for
  it before either has written it; both credit.
- `TransferCreditedOnce` (`012_deposit_claims.sql:7`): a txid in another case is
  another string and the same transaction.
- `LandedChangesReflected` (`amm_feed.go`): the simulator's write takes back what
  landed between its read and its write.
- `RoomsCleanedUp` (`client.go`): a subscription read after the hub has cut the
  client off puts it back into a room for ever.
- `ApprovalRaisesLevel` (`pg_kyc.go`): the submission is approved, and the second
  update fails or is never reached.
- `QuotesFresh` (`price_handler.go`): the stream's quotes come from a depth cache
  whose age nobody asks.
- `RebuildReconnectsFast` (`binance_ws.go`): a session of its full age may be
  followed by a longer wait.

Others are visible in the models and excluded by the condition of a property:

- Two gateways, or the simulator, overwrite each other's reserves
  (`amm/service.go:120`; `PoolBacked` is stated for `OneWriter`).
- Corrections of prices written at once may leave table and memory different
  (`price_adj.go`).
- A revoked token is let in by the other gateway, and by this one after a restart
  (`middleware.go:424`; `RevocationHolds` is about one running gateway). The
  blacklist is keyed by a hash of the token's string (`middleware.go:442`), and decoding
  accepts more than one spelling of a token; a token is its string in the model.
- Recovery executes logged orders again (`exchange.go:182`), with new trade ids and
  the time of now (`engine.go:612`); the bridge records these trades too
  (`bridge.go:119`), so that the candle of the recovery's bucket has volume that
  was counted before (`CandlesAgree` counts executions, not trades).
- The candle to be saved is read outside the lock (`candle_service.go:265`): a
  simulator that is switched on extends it meanwhile, and the row may be the
  older one, or neither (`CandlesAgree` says nothing of torn rows).
- A fill-or-kill order without a price passes the handler
  (`order_handler.go:479`), and any order the gRPC server (`server.go:175`); compared
  at `engine.go:327`, the missing price panics (`MenuAssumption` leaves such
  orders out of the menus).
- `MaxOpenOrders` and `DailyOrderNotional` are enforced by nothing, nothing calls
  `ResetCircuitBreaker`, and `nearIntegral` accepts any quantity that is large
  beside the lot (`risk.go`).
- `PnL` keys positions by base asset whatever the quote; `RecordFee` is called by
  nothing.

- `engine.go:273`: an order whose quantity is not positive is rejected without
  closing its done channel, which `order.go:137` says the engine does; a
  synchronous caller waits until the engine stops (`ProcessOrder` in `EngineLoop`).
- `engine.go:341`: the taker that self-trade prevention cancels is put to rest
  as "new" if it is good till cancelled (`order.go:73` says it is cancelled), although
  it may cross what it did not get to: the book then is crossed until the next taker
  (`NotCrossed` excepts it, `MayBeStopped`).
- `engine.go:374`: fill-or-kill counts heap entries of cancelled orders, then
  fills in part and rests, marked rejected (`FOKAllOrNothing`, `BookConsistent`). It
  does so too when the owner's own order stands between it and what was counted,
  and his mode cancels the taker.
- `engine.go:502`: stops are examined once per batch; one whose price is
  reached by a triggered stop stays parked until the next order.
- `snapshot.go:112`: the log's sequence number is read before the book, while
  the engine runs; a record may be in both snapshot and replay, or, for one
  journaled but not applied, in neither (`SnapshotExact`).
- `wal.go:195`: the sequence number advances although the write failed, and is
  counted anew at start-up; `wal.go:215`: a record whose fsync failed was
  rejected, stays in the file and is replayed; `wal.go:65`: the line after a
  torn one is lost with it.
- `service.go:607`: a fill is claimed in the shared store before it is settled;
  a crash in between, or a client that asks again and meets its own claim, leaves it
  unsettled. `service.go:608`: a claim without an answer counts as made, though
  another may have made it; `service.go:741`: a settlement that committed
  unheard (`pg_wallet.go:344`) has its claim deleted. Either fill is settled again
  after a restart, or by another instance, with the shared store at work
  (`SettledAtMostOnce` excepts the ids of `unsure`; `SettledOnce` fails in
  `MCSettlement`'s deployments with `"db"` or `"l2"`), against
  `shared_store.go:22` ("settle it exactly once").
- `service.go:445`: buys other than limit orders reserve nothing; when their funds
  are gone by the time the bridge comes, the trade is never settled
  (`EveryTradeSettles` is about buyers who reserved).
- `order_handler.go:583`: a cancel releases what fills still in the channel need;
  they then depend on what else the user has (`EveryTradeSettles`).
- `order_handler.go:532`: what the engine drops of an order that does not rest
  stays locked; `service.go:454`: a restart forgets reservations but not locks;
  `service.go:666` and `731`: a settlement that loads a reservation a cancel is
  releasing, or restores one it has released, which within one process takes a
  maker's fee above the taker's (`Plain`); `engine.go:642`: a last fill
  dropped from the full channel leaves what it would have released
  (`NothingStaysLocked`).
- `withdrawal.go:466` and `555`: a request or a rejection that breaks off is undone
  by calls of its own; when one of these fails as well, the lock stays although the
  withdrawal is over (`FundsAccounted` has equality only when `Undisturbed`).
- `withdrawal.go:678` and `888`: a crash or failure after sending, or after
  debiting, repeats the step; `466` and `554`: one after reserving, or after
  rejecting, leaves the lock; `773`: the cold signer's reference is not stored
  (`Undisturbed`, `ApprovedCompletes`).
- `futures_handler.go:415`: a position is read, settled and saved in three
  statements, by two replicas: two closes settle it twice, a late save reopens
  or revives what another ended, two opens make two positions (`Calm`, `serial`).
- `futures_handler.go:548`: added margin leaves the balance and is not locked,
  so that a later close asks to unlock more than is locked and unlocks nothing;
  the margin stays locked (`LocksMatch` is stated without margin changes). A close
  at a loss the rest of the account cannot pay then fails, `CheckTPSL` drops the
  error (`1057`), and the position stays open although its stop-loss is met:
  `Triggered` asks that the account can pay.
- `futures_handler.go:1189`: margins are summed as 64-bit floats, while the account
  adds what was locked exactly. A sum rounded up is more than what is locked; the
  unlock of `pg_wallet.go:292` is skipped without an error, and the whole margin
  stays locked with no position to it. `drift` counts what was rounded, `LocksMatch` has
  equality only while it is 0.
- `futures_handler.go:1085`: charged funding can turn a margin into a debt, and
  closing that position then locks more instead of less (`Solvent`); both
  gateways apply it every hour; its rate is within 1 %, its comment says 0.01 %.
- `futures_handler.go:1209`: a cross position's own margin is added twice, which
  the comment calls avoiding double counting; `1104`: a feed that fails is a
  mark price of 0, at which long positions are liquidated.

## 7. Not modelled, and the plan

Futures limit orders are not modelled: `scanOrders` (`pg_futures.go:159`) reads
numeric columns into `big.Float`, which the driver cannot do, so that neither
`ProcessOrders` nor `CancelOrder` gets past it. Nor are the in-memory store of
futures, other users and other pairs.

Not modelled: chain clients, key files and signing (external; their outcomes are
choices of the callers), on-chain price sources (network input), API keys (kept
and listed; no request is authenticated by one), the relay of the hub through
Redis and its pings, the Kafka producer (a stub), HTTP binding, validation and
rendering, the gRPC server, generated protobuf code, metrics and logs,
configuration, migrations, start-up order, the browser client. `PROJECT.json`
gives the reason for each. Two hazards have no property: the worker's page of
a hundred is beyond any instance, and the replay of orders from records that leave fields out awaits a module.

Planned, in this order:

1. A replay module over `MatchingEngine`: the book rebuilt from records against
   the book before the crash.
