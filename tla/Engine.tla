-------------------------------- MODULE Engine --------------------------------
(***************************************************************************)
(* The application as a whole (src/apps/pulsetrader/main.cpp): the order   *)
(* in which main starts and stops the parts, while strategies still place  *)
(* orders, the exchange completes them and the completion handler books    *)
(* and records what they brought.                                          *)
(*                                                                         *)
(* Of a part only matters whether its thread runs.                         *)
(***************************************************************************)
EXTENDS TradeRecorder

CONSTANTS
  Orders,     \* orders strategies may place, each once
  OrderId,    \* order -> the id the exchange gives it
  MarketOf,   \* order -> its market, "futures" or "spot"
  StrategyOf, \* order -> the strategy that places it
  Pnls,       \* what the completion of an order may bring
  MaxTime     \* bound of a run: the clock

Markets == {"futures", "spot"}

ASSUME EngineAssumption ==
  /\ MarketOf \in [Orders -> Markets]
  /\ IsFiniteSet({StrategyOf[o] : o \in Orders})
  /\ Pnls \subseteq Int
  /\ MaxTime \in Nat \ {0}

VARIABLES
  now,           \* the time
  main,          \* the step of main: see Sections
  strategies,    \* the strategy threads: "off", "run", "stop" or "joined"
  io_thread,     \* market -> the thread of its WebSocket client, as strategies
  cancelled,     \* the flag of the REST clients: their requests abort
  order,         \* order -> "none", "sent", "accepted" (the answer is on its way), "tracked",
                 \* "booked" (its handler is to record it), "done" or "failed"
  booked_pnl,    \* order -> what its completion brought
  m_pnl,         \* the P&L reported to the drawdown guard
  unrecorded     \* history: orders recordTrade returned an error for, with the error

orderVars == <<order, booked_pnl, m_pnl, unrecorded>>
engineVars == <<recorderVars, now, main, strategies, io_thread, cancelled, orderVars>>

\* Sections 13 to 15 of main, in their order.
Sections == <<"start_ws", "start_strategies", "up", "stop_dashboard", "stop_strategies",
              "join_strategies", "stop_ws", "ended">>

EngineInit ==
  /\ RecorderInit
  /\ now = 1
  /\ main = "start_ws"
  /\ strategies = "off" /\ io_thread = [m \in Markets |-> "off"]
  /\ cancelled = FALSE
  /\ order = [o \in Orders |-> "none"]
  /\ booked_pnl = [o \in Orders |-> 0]
  /\ m_pnl = 0
  /\ unrecorded = {}

Becomes(o, from, to) == order[o] = from /\ order' = [order EXCEPT ![o] = to]

-----------------------------------------------------------------------------
(* Strategies and the exchange                                             *)

\* A signal becomes an order.  The aggregator holds its lock meanwhile, so one comes after
\* the other; its thread may be on the way to it when stop comes.
placeOrder(o) ==
  /\ strategies \in {"run", "stop"}
  /\ \A other \in Orders : order[other] \notin {"sent", "accepted"}
  /\ Becomes(o, "none", "sent")
  /\ UNCHANGED <<recorderVars, now, main, strategies, io_thread, cancelled, booked_pnl, m_pnl, unrecorded>>

accept(o) ==
  /\ Becomes(o, "sent", "accepted")
  /\ UNCHANGED <<recorderVars, now, main, strategies, io_thread, cancelled, booked_pnl, m_pnl, unrecorded>>

\* The request fails, or it is cancelled, whether the exchange has accepted it or not.
orderFails(o) ==
  /\ \/ Becomes(o, "sent", "failed")
     \/ cancelled /\ Becomes(o, "accepted", "failed")
  /\ UNCHANGED <<recorderVars, now, main, strategies, io_thread, cancelled, booked_pnl, m_pnl, unrecorded>>

trackOrder(o) ==
  /\ Becomes(o, "accepted", "tracked")
  /\ UNCHANGED <<recorderVars, now, main, strategies, io_thread, cancelled, booked_pnl, m_pnl, unrecorded>>

Booking(m) == \E o \in Orders : MarketOf[o] = m /\ order[o] = "booked"

\* The thread of its market learns that the order has ended: the completion handler books
\* it and tells the guard.
completeOrder(o) ==
  /\ io_thread[MarketOf[o]] \in {"run", "stop"} /\ ~Booking(MarketOf[o])
  /\ Becomes(o, "tracked", "booked")
  /\ \E pnl \in Pnls :
       /\ booked_pnl' = [booked_pnl EXCEPT ![o] = pnl]
       /\ m_pnl' = m_pnl + pnl
  /\ UNCHANGED <<recorderVars, now, main, strategies, io_thread, cancelled, unrecorded>>

\* The handler's last step; an error is only logged.
recordOrder(o) ==
  /\ Becomes(o, "booked", "done")
  /\ LET row == [order_id |-> OrderId[o], timestamp |-> now, symbol |-> "BTC_USDT",
                 strategy_name |-> StrategyOf[o], pnl |-> booked_pnl[o]]
     IN  \E outcome \in Outcomes(row) :
           /\ recordTrade(row, outcome)
           /\ unrecorded' = IF outcome = "Ok" THEN unrecorded ELSE unrecorded \cup {<<o, outcome>>}
  /\ UNCHANGED <<now, main, strategies, io_thread, cancelled, booked_pnl, m_pnl>>

tick ==
  /\ now < MaxTime /\ now' = now + 1
  /\ UNCHANGED <<recorderVars, main, strategies, io_thread, cancelled, orderVars>>

-----------------------------------------------------------------------------
(* main                                                                    *)

Step(from, to) == main = from /\ main' = to

startWs ==
  /\ Step("start_ws", "start_strategies")
  /\ io_thread' = [m \in Markets |-> "run"]
  /\ UNCHANGED <<recorderVars, now, strategies, cancelled, orderVars>>

startStrategies ==
  /\ Step("start_strategies", "up")
  /\ strategies' = "run"
  /\ UNCHANGED <<recorderVars, now, io_thread, cancelled, orderVars>>

\* SIGINT or SIGTERM ends the main loop.
signalArrives ==
  /\ Step("up", "stop_dashboard")
  /\ UNCHANGED <<recorderVars, now, strategies, io_thread, cancelled, orderVars>>

\* The dashboard stops the requests of the REST clients it shares with the executors.
stopDashboard ==
  /\ Step("stop_dashboard", "stop_strategies")
  /\ cancelled' = TRUE
  /\ UNCHANGED <<recorderVars, now, strategies, io_thread, orderVars>>

stopStrategies ==
  /\ Step("stop_strategies", "join_strategies")
  /\ strategies' = "stop"
  /\ UNCHANGED <<recorderVars, now, io_thread, cancelled, orderVars>>

joinStrategies ==
  /\ Step("join_strategies", "stop_ws")
  /\ \A o \in Orders : order[o] \notin {"sent", "accepted"}
  /\ strategies' = "joined"
  /\ UNCHANGED <<recorderVars, now, io_thread, cancelled, orderVars>>

\* The clients stop one after the other, that of the futures first.
stopWs(m) ==
  /\ main = "stop_ws" /\ io_thread[m] = "run"
  /\ m = "spot" => io_thread["futures"] = "joined"
  /\ io_thread' = [io_thread EXCEPT ![m] = "stop"]
  /\ UNCHANGED <<recorderVars, now, main, strategies, cancelled, orderVars>>

\* A thread ends between two events, never inside of a handler.
joinWs(m) ==
  /\ main = "stop_ws" /\ io_thread[m] = "stop" /\ ~Booking(m)
  /\ io_thread' = [io_thread EXCEPT ![m] = "joined"]
  /\ UNCHANGED <<recorderVars, now, main, strategies, cancelled, orderVars>>

\* A fault: the database is closed before the clients are stopped.
closeRecorder_Early ==
  /\ Step("stop_ws", "ended")
  /\ close
  /\ UNCHANGED <<now, strategies, io_thread, cancelled, orderVars>>

closeRecorder ==
  /\ \A m \in Markets : io_thread[m] = "joined"
  /\ Step("stop_ws", "ended")
  /\ close
  /\ UNCHANGED <<now, strategies, io_thread, cancelled, orderVars>>

shutdown ==
  \/ stopDashboard \/ stopStrategies \/ joinStrategies \/ closeRecorder
  \/ \E m \in Markets : stopWs(m) \/ joinWs(m)

EngineNext ==
  \/ startWs \/ startStrategies \/ signalArrives \/ shutdown \/ tick
  \/ \E o \in Orders : placeOrder(o) \/ accept(o) \/ orderFails(o) \/ trackOrder(o)
                         \/ completeOrder(o) \/ recordOrder(o)

EngineSpec == EngineInit /\ [][EngineNext]_engineVars

-----------------------------------------------------------------------------
(* Properties                                                              *)

\* What the guard was told is in the database: no handler runs, and an order is missing
\* there only if the database refused to write it, never because it was closed or has a
\* row of another order (the completion handler, main's order of stops).
RecordsMatchTheGuard ==
  /\ (\A o \in Orders : order[o] # "booked") =>
       Total(trades) + SumFunctionOnSet([u \in unrecorded |-> booked_pnl[u[1]]], unrecorded) = m_pnl
  /\ \A u \in unrecorded : u[2] = "TradeRecorderInsertFailed"

Limits == 0 .. MaxTime

\* The questions agree with each other: the days and the strategies each divide the P&L
\* of the summary among them, and the summary of a window counts its trades.
QueriesAgree ==
  /\ \A from_ns, to_ns \in Limits :
       getSummary(from_ns, to_ns).tradeCount = Cardinality(getTrades("", from_ns, to_ns))
  /\ LET starts == {day * kNsPerDay : day \in 0 .. MaxTime \div kNsPerDay}
     IN  SumFunctionOnSet([s \in starts |-> getDailyPnl(s)], starts) = getSummary(0, 0).total_pnl
  /\ LET names == {StrategyOf[o] : o \in Orders}
     IN  SumFunctionOnSet([s \in names |-> Total(getTradesByStrategy(s))], names)
           = getSummary(0, 0).total_pnl

\* An order the exchange accepted is tracked: main stops what is used last first
\* ("Graceful shutdown (reverse order)", main.cpp:1176).
AcceptedOrdersAreTracked ==
  [][\A o \in Orders : order[o] = "accepted" => order'[o] \in {"accepted", "tracked"}]_engineVars
=============================================================================
