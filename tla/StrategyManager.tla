---------------------------- MODULE StrategyManager ----------------------------
(***************************************************************************)
(* The strategy threads (src/strategy/StrategyManager) and the candles they*)
(* poll.  The exchange sends the current candle of a minute again and again*)
(* while its price moves; the feed pushes what it gets, marked closed      *)
(* (src/market/MarketFeed, onKlineUpdate); each strategy has a thread that *)
(* polls the latest candle of the buffer.                                  *)
(*                                                                         *)
(* A candle is its minute and a version, the number of price moves in it.  *)
(***************************************************************************)
EXTENDS Integers, Sequences

CONSTANTS
  Strategies,    \* the registered strategies
  Disabled,      \* those not enabled in the configuration
  WithoutFeed,   \* those without a market feed
  MaxMinutes,    \* bound of a run: minutes
  MaxVersions,   \* bound of a run: versions of a candle
  MaxStarts      \* bound of a run: calls of start

ASSUME StrategiesAssumption ==
  /\ Disabled \subseteq Strategies /\ Disabled # Strategies
  /\ WithoutFeed \subseteq Strategies
  /\ {MaxMinutes, MaxVersions, MaxStarts} \subseteq Nat \ {0}

VARIABLES
  candle,           \* the current candle at the exchange
  latest,           \* the latest candle in the buffer
  active,           \* strategy -> m_active
  stop_requested,   \* strategy -> the stop token of its thread
  thread,           \* strategy -> the step its thread is at
  last_kline_time,  \* strategy -> the minute of the candle it saw last
  manager,          \* the step the caller of start and stop is at
  remaining,        \* the strategies this step has yet to treat
  starts,           \* the number of calls of start
  klines            \* history: strategy -> onKline calls since start

market == <<candle, latest>>
threadVars == <<thread, last_kline_time, klines>>
flags == <<active, stop_requested>>
managerVars == <<manager, remaining, starts>>
strategyVars == <<market, threadVars, flags, managerVars>>

None == [minute |-> 0, version |-> 0, closed |-> FALSE]

ManagerInit ==
  /\ candle = [minute |-> 1, version |-> 1]
  /\ latest = None
  /\ active = [s \in Strategies |-> FALSE]
  /\ stop_requested = [s \in Strategies |-> FALSE]
  /\ thread = [s \in Strategies |-> "none"]
  /\ last_kline_time = [s \in Strategies |-> 0]
  /\ manager = "stopped"
  /\ remaining = {}
  /\ starts = 0
  /\ klines = [s \in Strategies |-> << >>]

-----------------------------------------------------------------------------
(* The market                                                              *)

priceMoves ==
  /\ candle.version < MaxVersions
  /\ candle' = [candle EXCEPT !.version = @ + 1]
  /\ UNCHANGED <<latest, threadVars, flags, managerVars>>

minutePasses ==
  /\ candle.minute < MaxMinutes
  /\ candle' = [minute |-> candle.minute + 1, version |-> 1]
  /\ UNCHANGED <<latest, threadVars, flags, managerVars>>

\* Frames carry the current candle, in order.
onKlineUpdate ==
  /\ latest' = [minute |-> candle.minute, version |-> candle.version, closed |-> TRUE]
  /\ UNCHANGED <<candle, threadVars, flags, managerVars>>

-----------------------------------------------------------------------------
(* start and stop, called by one thread                                    *)

start ==
  /\ manager = "stopped"
  /\ starts < MaxStarts
  /\ starts' = starts + 1
  /\ manager' = "starting"
  /\ remaining' = Strategies \ Disabled
  /\ UNCHANGED <<market, threadVars, flags>>

\* The callback, the flag and a thread for a strategy that is enabled.
spawn ==
  /\ manager = "starting"
  /\ \E s \in remaining :
       /\ active' = [active EXCEPT ![s] = TRUE]
       /\ stop_requested' = [stop_requested EXCEPT ![s] = FALSE]
       /\ thread' = [thread EXCEPT ![s] = "test"]
       /\ last_kline_time' = [last_kline_time EXCEPT ![s] = 0]
       /\ klines' = [klines EXCEPT ![s] = << >>]
       /\ remaining' = remaining \ {s}
  /\ manager' = IF remaining' = {} THEN "started" ELSE "starting"
  /\ UNCHANGED <<market, starts>>

stop ==
  /\ manager = "started"
  /\ manager' = "deactivating"
  /\ remaining' = Strategies
  /\ UNCHANGED <<market, threadVars, flags, starts>>

deactivate ==
  /\ manager = "deactivating"
  /\ \E s \in remaining :
       /\ active' = [active EXCEPT ![s] = FALSE]
       /\ remaining' = IF remaining = {s} THEN Strategies \ Disabled ELSE remaining \ {s}
       /\ manager' = IF remaining = {s} THEN "requesting" ELSE manager
  /\ UNCHANGED <<market, threadVars, stop_requested, starts>>

requestStop ==
  /\ manager = "requesting"
  /\ \E s \in remaining :
       /\ stop_requested' = [stop_requested EXCEPT ![s] = TRUE]
       /\ remaining' = IF remaining = {s} THEN Strategies \ Disabled ELSE remaining \ {s}
       /\ manager' = IF remaining = {s} THEN "joining" ELSE manager
  /\ UNCHANGED <<market, threadVars, active, starts>>

\* Fault: the threads are left to end on their own.
join_Detached ==
  /\ manager = "joining"
  /\ remaining' = {}
  /\ manager' = "stopped"
  /\ UNCHANGED <<market, threadVars, flags, starts>>

\* The vector of threads is cleared, which joins them.
join ==
  /\ manager = "joining"
  /\ \E s \in remaining :
       /\ thread[s] = "done"
       /\ remaining' = remaining \ {s}
  /\ manager' = IF remaining' = {} THEN "stopped" ELSE "joining"
  /\ UNCHANGED <<market, threadVars, flags, starts>>

manage == spawn \/ deactivate \/ requestStop \/ join

-----------------------------------------------------------------------------
(* The thread of a strategy: strategyLoop                                  *)

threadGoes(s, from, to) ==
  /\ thread[s] = from
  /\ thread' = [thread EXCEPT ![s] = to]
  /\ UNCHANGED <<market, flags, managerVars>>

test(s) ==
  /\ threadGoes(s, "test", IF stop_requested[s] \/ ~ active[s] THEN "done" ELSE "feed")
  /\ UNCHANGED <<last_kline_time, klines>>

\* Without a feed the thread ends, and the flag stays as it is.
feed(s) ==
  /\ threadGoes(s, "feed", IF s \in WithoutFeed THEN "done" ELSE "poll")
  /\ UNCHANGED <<last_kline_time, klines>>

\* Fault: the minute is not remembered.
onKline_Forgets(s) ==
  /\ threadGoes(s, "poll", "check")
  /\ klines' = IF latest.closed /\ latest.minute # last_kline_time[s]
               THEN [klines EXCEPT ![s] = Append(@, [kline |-> latest, now |-> candle.minute])]
               ELSE klines
  /\ UNCHANGED last_kline_time

\* Fault: a candle is only taken when the one before was.
onKline_InSequence(s) ==
  /\ threadGoes(s, "poll", "check")
  /\ IF latest.closed /\ latest.minute = last_kline_time[s] + 1
     THEN /\ last_kline_time' = [last_kline_time EXCEPT ![s] = latest.minute]
          /\ klines' = [klines EXCEPT ![s] =
                          Append(@, [kline |-> latest, now |-> candle.minute])]
     ELSE UNCHANGED <<last_kline_time, klines>>

\* Ticker, candle and book are polled; only the candle is followed here.
onKline(s) ==
  /\ threadGoes(s, "poll", "check")
  /\ IF latest.closed /\ latest.minute # last_kline_time[s]
     THEN /\ last_kline_time' = [last_kline_time EXCEPT ![s] = latest.minute]
          /\ klines' = [klines EXCEPT ![s] =
                          Append(@, [kline |-> latest, now |-> candle.minute])]
     ELSE UNCHANGED <<last_kline_time, klines>>

check(s) ==
  /\ threadGoes(s, "check", IF stop_requested[s] THEN "done" ELSE "asleep")
  /\ UNCHANGED <<last_kline_time, klines>>

wake(s) ==
  /\ threadGoes(s, "asleep", "test")
  /\ UNCHANGED <<last_kline_time, klines>>

strategyLoop(s) == test(s) \/ feed(s) \/ onKline(s) \/ check(s) \/ wake(s)

-----------------------------------------------------------------------------

ManagerNext ==
  \/ priceMoves \/ minutePasses \/ onKlineUpdate
  \/ start \/ stop \/ manage
  \/ \E s \in Strategies : strategyLoop(s)

ManagerSpec == ManagerInit /\ [][ManagerNext]_strategyVars

\* Threads are scheduled; start and stop may never be called, and the market
\* may stand still.
FairThreads ==
  /\ WF_strategyVars(manage)
  /\ \A s \in Strategies : WF_strategyVars(strategyLoop(s))

FairManagerSpec == ManagerSpec /\ FairThreads

-----------------------------------------------------------------------------
(* Properties                                                              *)

Running(s) == thread[s] \notin {"none", "done"}

\* Every variable has its type, and a strategy that is disabled no thread.
ManagerTypeOK ==
  /\ candle \in [minute : 1 .. MaxMinutes, version : 1 .. MaxVersions]
  /\ latest \in [minute : 0 .. MaxMinutes, version : 0 .. MaxVersions, closed : BOOLEAN]
  /\ active \in [Strategies -> BOOLEAN]
  /\ stop_requested \in [Strategies -> BOOLEAN]
  /\ thread \in [Strategies -> {"none", "test", "feed", "poll", "check", "asleep", "done"}]
  /\ last_kline_time \in [Strategies -> 0 .. MaxMinutes]
  /\ manager \in {"stopped", "starting", "started", "deactivating", "requesting", "joining"}
  /\ remaining \subseteq Strategies
  /\ starts \in 0 .. MaxStarts
  /\ \A s \in Disabled : thread[s] = "none"

\* Between start and stop onKline is called once for a candle and in the
\* order of the candles, however often the candle is sent again.
CandlesComeOnce ==
  \A s \in Strategies : \A i, j \in 1 .. Len(klines[s]) :
    i < j => klines[s][i].kline.minute < klines[s][j].kline.minute

\* When stop has returned no strategy runs and none is reported running, also
\* after a second start.
StopJoinsStrategies ==
  manager = "stopped" => \A s \in Strategies : ~ Running(s) /\ ~ active[s]

\* A candle that reaches the buffer reaches every running strategy, or a later
\* one does, or the strategy ends.
CandlesReachStrategies ==
  \A s \in Strategies : \A m \in 1 .. MaxMinutes :
    latest.minute = m /\ Running(s) ~> last_kline_time[s] >= m \/ ~ Running(s)

\* onKline gets a candle whose minute is over (StrategyBase.hpp).
KlinesAreClosed ==
  \A s \in Strategies : \A i \in 1 .. Len(klines[s]) :
    klines[s][i].kline.minute < klines[s][i].now

\* A strategy is reported running while its thread runs (StrategyManager.hpp).
RunningMeansThread == \A s \in Strategies : active[s] => Running(s)

=============================================================================
