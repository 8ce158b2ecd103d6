# pulseTrader in TLA+

Specifications of pulseTrader, a multi-threaded trading program for Gate.io
(C++20, `src/src/` with its `main` in `src/apps/pulsetrader/`): what its
components promise, what they do, the interleavings and failures they must
survive, TLC runs on small instances and TLAPS proofs for every size.
Paths below are relative to `src/`, the root of the repository.

## 1. The system

A market feed turns WebSocket frames into candles, books and tickers; strategy
threads read them on every tick of the heartbeat and emit signals; an aggregator
makes one signal of many; the output callback in `main` has it checked by the
risk layer, places an order over REST and tracks it; the tracker learns of the
completion and a handler in `main` books the fill. An AI pipeline tunes strategy
parameters, a dashboard reads everything, a recorder stores trades.

| Component | State | Operations and threads | What is hard | What makes it correct |
|---|---|---|---|---|
| `risk/PositionManager` | positions, pending reservations, two id counters, one mutex | reserve, consume, cancel, open, close, mark; called by the signal path and by completion handlers | check and use of a budget by several callers; partial closes; slots at the limit | reserved budget and positions within limits, grants maximal |
| `risk/RiskManager` | none of its own | guard, limiter, reservation, in that order | later checks after earlier side effects | an approved order passed every check |
| `risk/DrawdownGuard` | P&L, equity peak, day start, halt flag and reason | recordPnl, updateEquity, resetDaily, clearHalt | peaks and resets, flag and reason set apart, a stale day | halted when a limit was broken, until cleared |
| `risk/OrderRateLimiter` | tokens and time of last refill, two atomics | tryAcquire from any thread | refill and take are separate CAS loops | never more than the burst at once |
| `risk/StopLossEngine`, `TakeProfitEngine` | registered positions with trailing marks | register, evaluate, remove | levels that move, registration against evaluation | a stop never loosens |
| `execution/OrderExecutor` | none | place, cancel | lost responses | one order per request |
| `execution/OrderTracker` | tracked orders, completed reports | track, poll, WebSocket update, callback outside the lock | updates crossing polls, lost updates | final reports, one callback per order |
| `main.cpp` §10, §11 | `order_reservations`, a mutex | output callback, completion handler | handlers against placer, failures on the way | each reservation released once, each fill booked once |
| `exchange/GateRestClient` | abort flag | request with retries | retries of what was done | bounded attempts |
| `exchange/GateWsClient`, `GateWsChannels` | connection state, subscriptions, send queue | subscribe, drain, reconnect with back-off | subscription racing reconnection | what is subscribed is sent on every connection |
| `exchange/ProxyTunnel` | listening socket, sockets and threads of each connection | accept, connect through the proxy, relay both ways, stop | stop against a connection that is being set up | stop returns |
| `exchange/EndpointRouter`, `gate_auth` | none | path tables, signatures | - | - |
| `market/KlineBuffer` | ring of candles behind a sequence lock | push by one writer, snapshots by many | torn reads, wrap-around | a snapshot is a state the buffer was in |
| `market/OrderBookManager`, `MarketFeed` | books, sequence ids | snapshot, delta, subscriptions on start | gaps, stale deltas, frames without fields | a book reflects a prefix of the updates |
| `market/TickerCache`, `SymbolRegistry` | maps | update, read | - | last write wins |
| `heartbeat/TaskQueue` | deque, running flag, worker | enqueue with priority, stop | stop against wait, tasks left behind | tasks run at most once, in order |
| `heartbeat/HeartbeatScheduler` | timers, queue | start, trigger, stop | callbacks during stop | a beat is an analysis, none after stop |
| `strategy/StrategyManager` | threads, running flags | start, stop, loop | stop during a loop | candles are taken once, stop joins |
| `strategy/scalping/*` | bands, averages, time of the last signal | onKline, onOrderbook | a window read again for every candle; parameters that move meanwhile | a stop line only tightens |
| `strategy/signal/SignalAggregator` | votes, output callback | addSignal, evaluate | emission under the lock | a consensus is emitted once |
| `ai/TwitterFeed`, `NewsFeed` | window and ids of what was seen | poll | partial failure in a batch | each message once |
| `ai/AIClient`, `PromptBuilder` | none | analyze with retries | which errors are retried | bounded attempts |
| `ai/ParamAdvisor` | parameters shared with the strategies, last result | apply | several stores of one answer, clamps | parameters move little; what is shown was applied |
| `trade_recorder/TradeRecorder` | SQLite handle, table of trades | record, query, close | duplicates, writes that fail, a close during use | what was reported is recorded |
| `webui/DashboardState`, `WebServer`, `WsServer` | accumulated snapshot, published snapshot, JSON, clients | poll loop in three tiers, push, open, close, requests, stop | clients that come and go during a push; a loop that ends meanwhile | a client gets the latest snapshot |
| `main.cpp` §13-15 | the parts | start and stop them in order | orders and handlers under way | nothing is lost at a stop |
| `core`, `logging` | configuration | load, validate | - | limits are positive |

Threads: the WebSocket I/O thread of each client, the tunnel's accepting, connecting
and relaying threads, the heartbeat's timer, the task-queue worker, one thread per
strategy, the dashboard poller, the web server's event loop and `main`.

The hazards, each at the line where it bites and with the properties that watch
it, are listed in `PROJECT.json`.

## 2. The modules

| Module | Models | Built on |
|---|---|---|
| `Maps` | `std::unordered_map` as functions with a finite domain | |
| `PositionManager` | the ledger of `risk/PositionManager`: positions, reservations, limits | `Maps` |
| `OrderLifecycle` | the promise of an order tracker, abstractly | |
| `OrderTracker` | `execution/OrderTracker`, the exchange's orders and the private channel | `Maps`; refines `OrderLifecycle` |
| `OrderPipeline` | `main` §10 and §11, the reservation of `RiskManager::evaluateOrder`, `OrderExecutor::placeOrder`, the retry loop of `GateRestClient` | extends `OrderTracker`, instantiates `PositionManager` |
| `OrderRateLimiter` | `risk/OrderRateLimiter`: loads, exchanges and stores of the two atomics | |
| `DrawdownGuard` | `risk/DrawdownGuard`, the account it watches, the two halt atomics | |
| `KlineBuffer` | `market/KlineBuffer`: the sequence lock and the ring, one load or store at a time | |
| `TaskQueue` | `heartbeat/TaskQueue`: deque, condition variable, worker, stop | |
| `HeartbeatScheduler` | `heartbeat/HeartbeatScheduler`: timer thread, manual beats, stop | extends `TaskQueue` |
| `GateWsClient` | `exchange/GateWsClient` and the registry of `GateWsChannels`: callers, I/O thread, reconnection, stop | |
| `OrderBook` | `market/OrderBookManager`: books, snapshots and deltas | |
| `MarketFeed` | the order book path of `market/MarketFeed`, the registry of channels, connections and the exchange's books | extends `OrderBook` |
| `StrategyManager` | `strategy/StrategyManager`, the frames of `MarketFeed::onKlineUpdate`, the candle a strategy polls | |
| `ScalpingStrategies` | the four scalpers of `strategy/scalping`, on the candles and books they read | |
| `SignalAggregator` | `strategy/signal/SignalAggregator`: votes, threshold, cooldown | |
| `ExitEngines` | `risk/StopLossEngine` and `risk/TakeProfitEngine`, with their owner and a market | |
| `AiPipeline` | a cycle of `ai/*`: both feeds, prompt, client with retries, advisor | |
| `TradeRecorder` | `trade_recorder/TradeRecorder`: rows, errors, queries | |
| `Engine` | `main` §13-15 and what the completion handler tells guard and recorder, for both markets | extends `TradeRecorder` |
| `WebUi` | `webui/*`: poll thread, event loop, clients, stop | |
| `ProxyTunnel` | `exchange/ProxyTunnel`: its threads and sockets | |

`Facts` has lemmas on natural numbers, maps and finite sums. The theorems are in
`PositionManagerProofs`, `OrderPipelineProofs` (tracker and application), `RiskProofs`
(bucket, guard, exit engines), `MarketProofs` (books, ring of candles, dashboard),
`AnalysisProofs` (queue, scheduler, AI pipeline), `StrategyProofs` (threads, votes,
super trend) and `ServicesProofs` (WebSocket client, recorder and engine). `MCRisk`,
`MCMarket`, `MCAnalysis`, `MCStrategies`, `MCServices`, `MCSignalAggregator` and
`MCGateWsClient` are instances for TLC. The first five put components of one layer
into one run: these share no state, so a run explores each with the others at
rest, and the invariants of one say nothing of the others.

Operators keep the names of the functions they stand for, and variables those of
the members; `PROJECT.json` maps each to its lines. An operator
`Name_Suffix` commented "Fault:" is a plausible bug in `Name`: in its
place it breaks one of the properties, which shows that the property can fail.

## 3. State, actions, abstractions

**Quantities.** Quantities, prices and notionals are natural numbers of lots and
price units; the code has doubles with a tolerance. What the properties tell apart
(within a limit or not, zero or not, all of it or part) survives; rounding does
not, and no property is about it. Equity is a natural number, confidence whole
tenths, tokens units of which one clock tick refills `m_maxRate`.

**PositionManager.** `m_positions` and `m_pendingReservations` are maps; one mutex
covers each call, so a call is one action. `CommittedNotional`, `Budget` and
`GrantedQuantity` follow `reserveNotional`. `openPosition` checks the limits
against open positions only, and erases the first reservation of its
symbol as the code does (`std::unordered_map` order: any of them).

**OrderTracker.** An action is what a thread does between two lock operations: a
poller asks the exchange, its response is applied under the lock later, the
completion callback runs after the unlock. `EventHasResult` says whether the
argument of `onOrderUpdate` has the `result` field it looks for. Tests feed such
frames, the application does not; `TRUE` is the code as tested, and the loss of
messages in that run covers what an application that drops them all can do. A message
may lack the fields of a fill, which then stay as they were; that one that ends an order
has its id and its fill is assumed of the exchange.

**OrderPipeline.** One placer (the aggregator holds its mutex through the output
callback) and a completion handler on each thread of the tracker. Every call out
of `main` is a step, so handlers interleave with each other and with the placer.
`recordPnl` and `recordTrade` are left out: nothing in the pipeline reads them.
The guard and the limiter are not composed in: they can only refuse an order, which
an evaluation that does not happen stands for.

**OrderRateLimiter.** A call is a program counter and what it has read. The weak
exchange may fail without reason (`refillFails`, `takeFails`). The clock is
steady; `kMaxRetries` is the code's.

**DrawdownGuard.** The lock is the condition `Unlocked`; the flag and the reason are
stored in two steps; `clearHalt` needs no lock. Sums per strategy are only
written and left out.

**KlineBuffer.** A candle is two halves, so that a torn read shows. Loads and stores
are in program order, which x86-64 builds keep; a weaker machine could reorder the
copy and the second load of the sequence number.

**TaskQueue, HeartbeatScheduler.** The worker tests the predicate and goes to sleep
in two steps that hold the mutex; a notification without the mutex may come between.
The application starts and stops the scheduler once, from one thread
(`HeartbeatScheduler.hpp:22` rules out concurrent calls).

**GateWsClient.** The registry, the queue, the state and the pointers are the
variables of the code, the client object and its io_context are the number of
the attempt that made them, and a step lies between two lock operations. The
exchange ignores a private subscription without authentication (external). Payloads
are abstracted to the channel, and each channel is used by one caller. The last
connection attempt of a run opens and stays, so that a run has an end to judge.
Back-off times and the tunnel are left out. The loss of a connection and the state that
tells of it are two steps, as they are two stores: `on_close`, `on_fail` and the exception
end at `closed` or `thrown`, and `setDisconnected` follows.

**OrderBook, MarketFeed.** A price level is a model value of one side. The exchange
numbers the changes of all its books with one counter, which is why the code takes
gaps for normal. The registry of channels keeps one payload per channel, so of the
symbols only the last is subscribed again after a reconnection. `missed` is a
history: the symbols of which a change was lost since their book was replaced.
Each way a frame may lack a field is one flag, since `applySnapshot` and `applyDelta`
ignore such a frame as a whole.

**ExitEngines.** The application does not construct the engines yet; the owner is
what headers and tests describe, one that evaluates what is open, removes what it
closed, registers a position again at will, and may forget to. Distances are percents of integer prices.

**AiPipeline.** A message is its identity, a reply what the client finds in it. A
batch may throw at a message whose id is no string, with earlier ones already in the
window. Stores to parameters are single steps, since strategies read them
meanwhile. The market data of the prompt are left out: `runPipeline` passes a
hard-coded BTC_USDT snapshot without any (`HeartbeatScheduler.cpp:209-212`). That
there is a first strategy is what `config_validator.cpp` 154 guarantees.

**ScalpingStrategies.** A scalper is called for a new candle and then reads the
buffer, which may have moved on. Prices are integers; averages are rounded to
`1/Unit`. The confidence a signal carries is left out. An analysis may change the
multiplier of the super trend between any two calls.

**TradeRecorder, Engine.** A row is id, time, symbol, strategy and P&L. SQLite is
external: an insert fails at will and never half. Of a part of the application only
matters whether its thread runs; an order is sent, accepted, tracked, booked and
recorded in steps between which `main` may stop parts.

**WebUi.** The panels copied from parts with locks of their own are left out, but for
the chart, which merges a candle into what was shown before, and the account, which
may be absent. A published snapshot is its number. The poll thread's push is three
steps: cache the JSON, count the clients, defer the send. uWebSockets is external:
deferred calls run on the loop in their order, and the loop returns once the listening
socket and every client are closed.

**ProxyTunnel.** `stop` is its sequence of lock sections, closes and joins; between the
one that closes relays and the one that joins them the mutex is free. `handleConnection`
sets the socket `stop` looks for (`tracksSocket`), resolves, opens it (`opensSocket`),
asks and reads. A socket is open or closed at our end. That closing it wakes the thread
that reads from it may happen or not (`connectAborts`): there is no shutdown before. The
proxy answers in the end or need not (`ProxyAnswers`), and the exchange ends a connection
or need not (`ExchangeEnds`). Resolving and connecting take the time they take and come to
an end. The proxy has one address, and bytes are left out.

**StrategyManager.** Frames carry the current candle, in order, as often as the
exchange likes. Tickers and books are polled too and change nothing here.

**SignalAggregator.** The mutex is held through the callback: a call is one step.
The clock does not go back.

## 4. The runs

| Run | Checks | Shows |
|---|---|---|
| `risk` | `PendingWithinLimits`, `GrantsRespectCommitments`, `GrantsAreMaximal`; `GrantsArePaid`; `BreachesHalt`; `StopsFollowTheBest`, `TargetsComeOnce` | Reservations keep every limit and are refused only for want of budget. No token is taken twice. A broken limit halts trading through recoveries, resets and crossing clears. A trailing stop hangs on the best price it was evaluated at, a target is signalled once. |
| `pipeline` | `ReservationsHaveOneOwner`, `CompletedOrdersHoldNothing`, `FillsAreBookedOnce`, `PositionsAreBacked`, `ImplementsTracker` | No budget leaks and none is released twice, a fill is booked once, the positions of a symbol hold no lot that was not bought for it, and `main` uses the tracker only as its specification allows. |
| `market` | `SnapshotsAreConsistent`, `SnapshotsReturn`; `BooksFollowTheExchange`; `ReportIsFinal`, `ImplementsLifecycle` | A snapshot is the ring of the moment it began, and returns once the writer pauses. A book no change was lost for is the exchange's at its number, over frames that repeat or lack fields, and books that begin with a change. Whatever polls and pushes cross, the report of an order is final, it completes once and its callback runs once. |
| `analysis` | `TasksAreInOnePlace`, `NormalTasksInOrder`, `TasksAreExecuted`, `BeatsAreTasks`, `NoAnalysisAfterStop`; `WindowsHoldEachOnce`, `CyclesMoveLittle`, `PublishedIsApplied`, `CyclesEnd` | Each beat becomes one task, each task runs once and in its order unless the queue is stopped, and nothing runs after stop. Windows hold a message once and forget in step with their index, a cycle moves a parameter by no more than its bound or to the nearest limit, what the dashboard shows was applied to every strategy, and every cycle ends. |
| `ws_client` | `KeptChannelsAreSent`, `StateFollowsConnection`, `KeptChannelsArrive` | A channel somebody keeps is subscribed on the connection, whatever raced `on_open`, and after a reconnection too. The state may read Connected of a connection that is gone, and the reverse, but only until the next store of the I/O thread. |
| `strategies` | `CandlesComeOnce`, `StopJoinsStrategies`, `CandlesReachStrategies`; `VotesCountOnce`, `EmissionsHaveConviction`; `TrendLineOnlyTightens` | A candle is taken once and not missed while it stays the latest; stop joins every thread. Votes count once, emissions rest on a vote that reaches the threshold. The line of the super trend moves with the trend alone, whatever an analysis does to its multiplier. |
| `services` | `ClientsGetTheLatest`, `StopEnds`; `TunnelStops`; `RecordsMatchTheGuard`, `QueriesAgree` | A client that stays gets the latest snapshot, the dashboard stops with clients connected. The tunnel stops in whatever step its threads are, if proxy and exchange end what they began. What the guard was told is in the database, unless it refused to write; its sums by day, strategy and window agree. |
| `reservation_taken` | `InFlightOrdersStayReserved` violated | see 7 |
| `dropped_events` | `EndingUpdatesAreApplied` violated | see 7 |
| `lost_wakeup` | `StopReturns` violated | see 7 |
| `stale_book` | `BooksAreRight` violated | see 7 |
| `tunnel_hangs` | `TunnelStops` violated | see 7 |

Type invariants are theorems (5) and in no run; `WsTypes.cfg` (`MCGateWsClient`) and
`ManagerTypes.cfg` (`StrategyManager`), which section 7 uses, check `WsTypeOK` and
`ManagerTypeOK` of small instances.

### Bounds

`MaxIds` 3: a third reservation meets limits that two already used, with two slots;
prices 0, 1, 2 give a symbol without a quote and marks above the price an order was
reserved at. `MaxOrders` 2: two orders in flight are what one handler can disturb;
quantities 0, 1, 2 make partial fills and cancels with nothing filled. One poller
and the client's thread are the two kinds of thread the tracker knows. `maxRetries`
1: one retry doubles an order. Bucket: three units, two to an order, so that a
second grant needs a refill; `MaxNow` 3, one reset, two threads, ten retries as
in the code. Guard: a daily limit that one loss breaks and a peak limit that takes
two; two threads, one clearing while one stores; `MaxEquity` 6 leaves room for a
new peak. Ring of three and `MaxPushes` 7: the ring wraps around twice during one
copy; one reader, since readers write nothing. `MaxTasks` 3: one task held, two
queued in either order. `MaxCalls` 3, `MaxAttempts` 2: subscribe, unsubscribe and
another thread's call around one reconnection. `MaxMinutes`, `MaxVersions`,
`MaxStarts` 2: a new minute, an updated candle and a restart. Books: one bid and one
ask level of two symbols, three changes, two frames on the way and one connection
that drops: a delta older than a snapshot, a lost one and a repeated one. Exits: one
position, since nothing relates one to another; four marks below, between and above
the levels of both engines. Analysis: three messages and windows of two, so that one
is forgotten and may come again; three cycles; two strategies of two parameters, one
outside its bounds; one retry. Scalpers: four candles of four kinds with periods 1 to
3, so that bands cross, averages turn and windows slide. Dashboard: two clients
with room for one or both, two snapshots and two visits, one change of the candle.
Tunnel: three connections, one relayed, one being set up and one waiting. Engine: three orders on two markets over two days. `MaxVotes` 3,
`MaxTime` 3, cooldown 2: an emission, a vote that waits, another emission.
Histories (`granted`, `executed`, `votes`, `klines`, `cleared`...) are read by no
action. Deadlock is not checked: runs end when a bound is reached, and
the program may stop.

Symmetry is used in `risk` alone, which has no liveness property.

### Fairness

Liveness properties assume weak fairness of what a thread does by itself, never of
the environment. `market`: readers and a push under way go on; that the writer
pauses follows from `MaxPushes`, so `SnapshotsReturn` is a claim about pauses and
not about a writer that never rests. `analysis`: the worker and calls under way go
on; timer, manual beats and spurious wake-ups may never come, so a lost
notification stays lost. `ws_client`: started once, threads and connections that are
neither refused nor dropped go on; failures are unfair. `strategies`: spawned threads
and calls of start and stop go on; the market may stand still. A cycle of the
analysis goes on, since every request has a timeout and every wait between them an
end. `services`: the poll thread, the event loop, the threads of the tunnel and `main`
go on; clients, candles and connections may never come. That the proxy answers and that
the exchange ends a connection some day (`ProxyAnswers`, `ExchangeEnds`) is assumed in the
run, since `stop` waits for both; without either, `TunnelStops` is refuted (section 7).
That a close wakes a reader is never assumed.

## 5. What is proved

Every invariant and every action property that a passing run checks is also a theorem,
for every value of the constants that meets the assumptions. The listed theorems name
the property they state.

**Assumptions.** `LedgerAssumption` and the `PipelineAssumption` of `OrderPipeline`
(positive limits) are what `core/config_validator.cpp` 55-89 guarantees of a
configuration. `GuardAssumption` bounds the equity at the start by `MaxEquity`,
`ExitAssumption` has a market with at least one price. That of `AiPipeline` has a
first strategy (line 154 of the validator) and ordered bounds for each parameter.
`RecorderAssumption` gives a day a length, `EngineAssumption` each order a market and
the clock a bound. The others are types. Three theorems have a hypothesis of their own,
named below, and each is refuted without it.

**Method.** Induction over data is out of the prover's reach in the form of the library,
whose theorems take an operator. `Facts` writes it with sets instead: a set of numbers
that has 0, and with each the next, has them all (`Induction`, from the least element of a
set of naturals). From it and the induction on finite sets come the sums: one exists, there is
only one (`SumsExist`, `SumsAgree`), it grows by what joins (`SumOfMore`), is bounded
(`SumIsBounded`), and is the sum of the sums of its parts (`SumByParts`).

- **Ledger** (`PositionManagerProofs`). `LedgerInv` strengthens the type with
  the bounds on pending sums: a reservation is granted against positions and
  reservations, positions are non-negative, so pending sums alone stay bounded
  whatever positions do. It gives `LedgerTypeCorrect`, `ReservedBudgetIsBounded`,
  `PositionCountIsBounded`; `GrantsAreWithinLimits` and `GrantsAreAlwaysMaximal`
  follow from it and the arithmetic of a grant. The sum of a map is the number of
  its units (`Units`), so that lemmas on cardinality replace an induction over the
  map; `MCRisk` checks that the two agree.
- **Tracker** (`OrderPipelineProofs`). `TrackerInv` is `ExchangeOK` (an ended order
  never changes), `ChannelOK` (a pushed message that says an order ended tells its
  final fill), `TablesOK` (reports are final; reported orders ended) and
  `ThreadsOK` (the same of a response or callback a thread holds, and no two threads
  owe the same callback). `ReportIsFinal` alone is not inductive, since a report is
  copied from a message that must have been true before.
  `TrackerImplementsLifecycle` maps each step to a step of `OrderLifecycle` or a stutter.
- **Pipeline** (`OrderPipelineProofs`). `PipelineInv` adds to the ownership of
  reservations that ids only grow, that stored reservations are distinct and that a
  handler under way belongs to a completed order. `PipelineImplementsTracker`
  is a refinement; with it `PipelineReportsAreFinal`, and with the lemma that ledger steps
  are the ledger's `PipelineReservationsAreBounded`, carry the theorems of the parts over.
  `FillsBookedOnce` balances what was booked against the completions that a handler
  still has to book. `BackedByFills` balances lots the same way: what a handler opens is
  the fill of its report, which is final, and is counted among the booked buys in the step
  that ends the handler; sells only take lots away, so the sum never passes the fills.
- **Bucket** (`RiskProofs`). `LimiterInv` adds to type and
  `GrantsArePaid` that readings are sound: time has passed between the stamp and the
  clock a refill is computed from, and a level a token is taken from holds one.
  Without it a refill could lower the level and a take could make it negative.
  `OneCallerFollowsTheClock` has the hypothesis that one thread calls, as in the application.
- **Guard** (`RiskProofs`). `BreachesHalt` is about threads at rest. In
  between, a breach may be known to one thread that has not stored the flag yet:
  `BreachIsHandled` says that it was stored, was cleared since, or is about to be.
- **Exit engines** (`RiskProofs`). `TargetsComeOnce` speaks of what was
  signalled; `LadderIsAtItsTop` ties it to the index the engine looks at next. The
  best of a set of marks is characterised by membership and bound, so that adding a
  mark needs no induction.
- **Books** (`MarketProofs`). That a book shows the exchange at its number is not
  inductive: the next delta skips numbers. `CoverInv` says why that is harmless: whatever
  changed after the number of a book that lost nothing is told by a frame on the way,
  ahead of any frame with a later number. `WireInv` says that frames are true of the
  exchange when they were made, also those that repeat.
- **Ring** (`MarketProofs`). `WriterInv` describes the ring at each store of a push.
  `CopiesAreValid` says that a copy began at an even number and that, as long as the
  sequence number still is that one, each candle copied is the one that belongs there.
  A copy a push crossed may hold anything, and is refused by its second look.
- **Dashboard** (`MarketProofs`). `LatestOK`: a client without the latest snapshot is
  opening, or the poll thread is before its deferral, or a call on the loop's queue has
  the snapshot, or closes the client. It rests on `NumbersOK` (what is cached) and
  `ClientsOK` (a count of zero means that nobody is there to be missed).
- **Queue and scheduler** (`AnalysisProofs`). `PlacesOK` counts: queue, worker
  and history have all the tasks and as many places as tasks, so none is twice.
  `OrderOK` orders each place and each against the next. `WorkerOK` has the worker take
  only from a queue that has a task, unless it was stopped. `BeatInv` counts a beat that is
  counted but not yet pushed, and `StopInv` ties the scheduler to the queue.
- **AI pipeline** (`AnalysisProofs`). `WindowInv` for any batches, duplicates and
  malformed messages. `Applying` describes a half-applied answer: what lies behind the
  cursor was moved, the rest is as before the cycle. It gives
  `ModelsMoveLittle` and `ShownIsApplied`.
- **Strategy threads** (`StrategyProofs`). `PhaseOK` has the strategies that `stop` is done
  with at rest, `SeenOK` bounds what a strategy got by what it remembers, that by the
  buffer, and that by the exchange.
- **Votes** (`StrategyProofs`). The sums of a symbol are finite sums over its votes since
  the last emission (`EachVoteCountsOnce`). `SignalsHaveConviction`: if every vote for
  the direction were weaker than the threshold, so would be their weighted mean. Its
  hypothesis is a threshold above 0. `config_validator.cpp:240` allows 0, where a Sell
  of confidence 0 is a tie, and emits a Buy that nobody voted for (section 7).
- **Super trend** (`StrategyProofs`). A band is only kept when the last
  close had not crossed it. `CloseIsWithTheTrend` says so of every state in which the
  bands have not crossed each other; from it the line tightens for every period,
  multiplier and sequence of candles.
- **WebSocket client** (`ServicesProofs`). `ConnectionInv` ties the state to the step of the
  I/O thread and the pointers to attempts; the handle of an attempt that ended in an
  exception stays, and is older than every later attempt. `StateIsCorrected` follows from it. `ChannelInv` says where a channel that is due is:
  with its caller before the queue, in a queue that `on_open` or a caller is going
  to drain, with a thread that sends on this connection, in the list of `on_open`, or at the
  exchange. Callers swap the queue before they send, so no weaker set of places is kept
  by every step. Private channels are due on the first connection alone (section 7).
- **Recorder and engine** (`ServicesProofs`). `RecordsAreComplete` splits the orders the
  guard was told of into rows and refusals. Its hypothesis `UniqueIds` is that no
  two orders share an id. `QuestionsAgree` divides a sum by day and by strategy.

## 6. Model-checked only

The liveness properties, since fairness and ENABLED are out of the prover's reach:
`SnapshotsReturn`, `TasksAreExecuted`, `CyclesEnd`, `KeptChannelsArrive`,
`CandlesReachStrategies`, `StopEnds` and `TunnelStops`; with the last, all of
`ProxyTunnel`. The claims of section 7 are refuted, so there is nothing to prove of them.

## 7. Where code and words disagree

Regular runs; `PROJECT.json` quotes the lines.

- `reservation_taken`: the handler consumes the order's own reservation, then
  `openPosition` erases another one of the same symbol: that of an order in flight.
- `dropped_events`: `onOrderUpdate` looks for `result` in an argument that
  already is the content of `result`, and drops every update.
- `lost_wakeup`: `TaskQueue::stop` notifies without the mutex, the worker falls
  asleep after it, and the join waits for ever.
- `tunnel_hangs`: `ProxyTunnel::stop` closes the relays' sockets in one lock section and
  joins their threads in the next one; a connection that registers its relays in between has
  them joined with open sockets, and `stop` lasts as long as the exchange likes.
- `stale_book`: a delta is applied whatever was missed before it, and nobody is asked
  to subscribe again, so that after a reconnection a book keeps levels the exchange
  withdrew.

More properties state a claim of the repository, or what one would expect, and are
refuted the same way; they are kept for whoever changes that code. Each is checked as
the one property of the configuration named, with the values given in place of
its own (`tlc -config X.cfg Module`). `RR` is `ReservationTaken.cfg` of `OrderPipeline`,
`WS` is `WsTypes.cfg` of `MCGateWsClient`, where invariants are checked under `WsSpec`.

| Configuration | With | Property | What TLC finds |
|---|---|---|---|
| `RR` | `MaxOrders` 3, both limits of notional 2 | `FillIsBookable` | `openPosition` refuses the fill of an approved order, against `PositionManager.hpp:176` |
| `RR` | `MaxOrders` 1 | `PositionsComeFromFills` | a buy cancelled with nothing filled opens an empty position (`main.cpp:1002`) |
| `RR` | `m_marketType` "Futures", `Quantities` {0, 1, 2}, both limits 1 | `SentAsApproved` | a futures order is sent with the contracts of the quantity before the risk check cut it (`main.cpp:878`, `:897`) |
| `RR` | `maxRetries` 1 | `PlacedOrdersAreKnown` | a retried POST leaves an order nobody tracks (`GateRestClient.cpp:284`) |
| `RR` | `Sides` {"Buy", "Sell"}, `MaxOrders` 3, both limits 9 | `SellsCloseWhatTheySold` | a sell closes every position of its symbol by all it sold, so one sold lot takes two off the books (`main.cpp:1027`, `PositionManager.hpp:103`) |
| `RR` | `m_marketType` "Futures", `MaxOrders` 1 | `EndingUpdatesAreApplied` | `parseStatus` does not know "finished" (`OrderTracker.cpp:296`, `OrderExecutor.cpp:158`) |
| `RR` | `FairPipelineSpec`, `MayDisconnect`, `MaxOrders` 1 | `EndedOrdersAreReported` | nobody polls, so a missed update is missed for good (`architecture.md:373`) |
| `SingleCaller.cfg`, `OrderRateLimiter` | `Callers` {c1, c2}, `m_burstCapacity` 6 | `RefillsFollowTheClock` | two threads refill for the same time (`OrderRateLimiter.hpp:61`); with the one caller the application has it holds, by `OneCallerFollowsTheClock` |
| `HaltReason.cfg`, `DrawdownGuard` | | `HaltsHaveAReason` | a halt without a reason (`DrawdownGuard.cpp:170`, `.hpp:59`) |
| `HaltReason.cfg` | `Threads` {t1}, `ReportsEquity` FALSE | `DailyLossHalts` | losses never halt trading: nobody calls `updateEquity` (`OPERATIONAL_GUIDE.md:262`) |
| `StaleBook.cfg`, `MCMarket` | | `ConnectionsAreFed` | after a reconnection only the last symbol is subscribed (`MarketFeed.cpp:57`) |
| `IoThreadLeft.cfg`, `HeartbeatScheduler` | | `StopJoinsIoThread` | stop returns before the timer's thread ended (`HeartbeatScheduler.hpp:19`) |
| `WS` | | `RemovedChannelsAreSilent` | a Subscribe overtaken by its Unsubscribe (`GateWsClient.hpp:13`) |
| `WS` | `MaxCalls` 2 | `PrivateChannelsAreSent` | a reconnection subscribes private channels without authentication |
| `WS` | `FairWsSpec`, `MaxCalls` 0, `MaxAttempts` 1 | `StopReturns` | stop waits for a connection it came too early to end (`GateWsClient.hpp:124`) |
| `WS` | `MaxCalls` 1 | `UsedObjectsExist` | a pointer to a destroyed client (`GateWsClient.cpp:129`, `:677`) |
| `TunnelHangs.cfg`, `ProxyTunnel` | `ProxyAnswers` FALSE, `ExchangeEnds` TRUE | `TunnelStops` | stop waits for the thread of a connection whose proxy never answers |
| `TunnelHangs.cfg` | | `RelaysAreJoined` | relays that start after stop looked for them (`ProxyTunnel.hpp:17`) |
| `ManagerTypes.cfg`, `StrategyManager` | `MaxMinutes` 3 | `KlinesAreClosed` | strategies get the first frame of a minute, not its last (`StrategyBase.hpp:70`) |
| `ManagerTypes.cfg` | `MaxMinutes` 3 | `RunningMeansThread` | a thread that ended is reported running (`StrategyManager.hpp:45`) |
| `WeakVotes.cfg`, `MCSignalAggregator` | | `ExceedingIsEmitted` | the mean is compared, not what `aggregatedConfidence` reports (`SignalAggregator.hpp:69`) |
| `WeakVotes.cfg` | `threshold` 0, `Confidences` {0, 3} | `EmissionsHaveConviction` | a Sell of confidence 0 is a tie, and a Buy is emitted that nobody voted for (`config_validator.cpp:240` allows 0) |
| `WeakVotes.cfg` | | `RoutedToAVoter` | the market of a dissenting vote decides (`StrategyManager.cpp:52`) |
| `BandsGiveWay.cfg`, `MCStrategies` | | `BandsFavorTheTrend` | after a wide candle the bands cross, and the line gives way (`SuperTrendScalper.hpp:7`) |
| `BandsGiveWay.cfg` | `Candles` `MCSteepCandles`, `Multipliers` {0, 1}, `supertrend_period` 1, `MaxPushes` 6, `MaxSeconds` 1 | `SignalsAlternate` | a turn during the cooldown is no signal, the next one repeats the last (`SuperTrendScalper.hpp:9`) |
| `BandsGiveWay.cfg` | `Scalpers` {"momentum"}, `MaxPushes` 4 | `EmasTakeOneStep` | each call folds the whole window into the averages again (`docs/strategies/momentum-scalper.md:12`) |
| `BandsGiveWay.cfg` | `Scalpers` {"reversion"}, `MaxPushes` 4 | `FlatMarketIsSilent` | a market that does not move is at its lower band |
| `UseAfterStop.cfg`, `WebUi` | | `PublishFnIsAlive` | the poll thread pushes through an app that is gone (`WebServer.cpp:145`) |
| `UseAfterStop.cfg` | `Closes` {1, 2}, `MaxCandles` 3, `MaxVisits` 0 | `ChartIsLive` | a candle that changes between two reads and back is not shown (`DashboardState.cpp:271`) |
| `UseAfterStop.cfg` | | `ClientsGoForward` | a client that opens while a snapshot is deferred gets the cached newer one first |
| `MCServices.cfg`, `MCServices` | `OrderId` `MCIdPerMarket` | `RecordsMatchTheGuard` | two markets number their orders alike, and the second trade is a duplicate |
| `MCServices.cfg` | | `AcceptedOrdersAreTracked` | the stop cancels the request of an order the exchange accepted (`main.cpp:1176`) |

Seen while modelling, and in no run:

- Orders in flight at a stop are never recorded. Order ids shared by both markets
  also key `order_reservations`.
- `ProxyTunnel::stop` leaves threads that register after it to the destructor of the vector,
  which terminates the program; its accept thread may still call `select` on the descriptor
  of the acceptor it has closed.
- With both markets on, the dashboard shows tracker and feed of the spot market
  alone (`main.cpp:787-790`).
- A second `WebServer::start` after a failed bind destroys a thread that is joinable.
- The feeds answer the newest first, while the windows evict from the front.
- `TakeProfitEngine.hpp` and `config.hpp:59` differ on `close_fraction`.
- The validator tests unsigned casts of settings with `0 ==`, which a negative value
  passes; a value of the wrong type becomes the default.

## 8. Not modelled

- Loader and validator of the configuration: a default or a test for each
  field, without state. What the validator guarantees is what the assumptions ask for.
- `TickerCache` and `SymbolRegistry`: one assignment per update, or filled once.
- Endpoints, signing, logging, the building of prompts and order bodies, the
  JSON of a snapshot, static files and HTTP routes: formatting and I/O.
- The construction of the parts in `main`, which happens before any thread.
- `RiskManager::evaluateFuturesOrder`, which nothing calls, and the liquidation of
  futures positions, which the exchange does and the code only shows.
- The frontend, and the tools run by hand.

What a next step would take up: guard and limiter in one composition with the
pipeline, so that what `recordPnl` reports is what a later evaluation is refused by;
the worker of `TaskQueue` composed with `AiPipeline`, which then reads parameters while
strategies trade; the safety of `ProxyTunnel`, which only liveness watches now.
