--------------------------- MODULE ScalpingStrategies ---------------------------
(***************************************************************************)
(* The four scalpers (src/strategy/scalping).  Three are called for a new  *)
(* candle and read the last candles of the feed again, which may have more *)
(* or other candles by then; one is called with the order book.  They      *)
(* share nothing they write: a behavior is that of one of them.            *)
(*                                                                         *)
(* Prices are whole numbers, averages are whole numbers of a small unit,   *)
(* and confidences are left out.                                           *)
(***************************************************************************)
EXTENDS Integers, Sequences, SequencesExt, FiniteSets

CONSTANTS
  Scalpers,               \* those that are run, of the four names below
  Candles,                \* the candles the market may have: high, low, close
  Books,                  \* the order books: quantities of bids and asks, the best first
  Multipliers,            \* values of supertrend_multiplier; analyses move it meanwhile
  supertrend_period, ema_fast_period, ema_slow_period, bb_period, bb_std_dev, ob_depth,
  ob_imbalance_threshold, \* in tenths
  cooldown_seconds,
  Unit,                   \* of an average
  MaxPushes,              \* bound of a run: changes of the candles
  MaxSeconds              \* bound of a run: the clock

ASSUME ScalpersAssumption ==
  /\ Scalpers \subseteq {"supertrend", "momentum", "reversion", "orderbook"}
  /\ \A k \in Candles : {k.high, k.low, k.close} \subseteq Int /\ k.low <= k.high
  /\ \A b \in Books : b.bids \in Seq(Nat) /\ b.asks \in Seq(Nat)
  /\ Multipliers \subseteq Nat
  /\ {supertrend_period, ema_fast_period, ema_slow_period, bb_period, ob_depth, Unit} \subseteq Nat \ {0}
  /\ {bb_std_dev, cooldown_seconds, MaxPushes, MaxSeconds} \subseteq Nat
  /\ ob_imbalance_threshold \in 0 .. 10

VARIABLES
  scalper,   \* the one that runs
  candles,   \* the buffer of the feed, the oldest first
  pushes,    \* history: changes of the candles
  second,
  seen,      \* the number of the candle the thread found last
  begun,     \* the number of candles begun
  calling,   \* onKline is about to read the candles
  bands,     \* SuperTrendScalper: m_prevUpperBand, m_prevLowerBand, m_prevClose, m_isBullish, m_hasPrev
  emas,      \* MomentumScalper: m_prevEmaFast, m_prevEmaSlow, m_hasPrev
  m_lastSignalTimeMs, \* in seconds
  signals    \* history: the types of the signals, in order

feedVars == <<scalper, candles, pushes, begun>>
stateVars == <<bands, emas, m_lastSignalTimeMs, signals>>
scalperVars == <<feedVars, second, seen, calling, stateVars>>

NoBands == [upper |-> 0, lower |-> 0, close |-> 0, bullish |-> FALSE, hasPrev |-> FALSE]
NoEmas == [fast |-> 0, slow |-> 0, hasPrev |-> FALSE]

\* The first signal does not wait: the clock is far from the epoch.
ScalperInit ==
  /\ scalper \in Scalpers
  /\ candles = << >> /\ pushes = 0 /\ begun = 0
  /\ second = 0
  /\ seen = 0 /\ calling = FALSE
  /\ bands = NoBands /\ emas = NoEmas
  /\ m_lastSignalTimeMs = -cooldown_seconds
  /\ signals = << >>

-----------------------------------------------------------------------------
(* Feed and clock                                                          *)

LargestOf(a, b) == IF a >= b THEN a ELSE b
Longest == LargestOf(supertrend_period + 1, LargestOf(ema_slow_period + 1, bb_period))
LastOf(seq, n) == IF Len(seq) <= n THEN seq ELSE SubSeq(seq, Len(seq) - n + 1, Len(seq))

\* A candle begins; the older ones nobody asks for are left out.
newCandle ==
  /\ pushes < MaxPushes /\ pushes' = pushes + 1
  /\ \E k \in Candles : candles' = LastOf(Append(candles, k), Longest)
  /\ begun' = begun + 1
  /\ UNCHANGED <<scalper, second, seen, calling, stateVars>>

\* The latest changes: what it is now is appended too, under the time it began at (see
\* KlinesAreClosed of StrategyManager).
updateCandle ==
  /\ candles # << >>
  /\ pushes < MaxPushes /\ pushes' = pushes + 1
  /\ \E k \in Candles : candles' = LastOf(Append(candles, k), Longest)
  /\ UNCHANGED <<scalper, second, seen, begun, calling, stateVars>>

secondGoes ==
  /\ second < MaxSeconds /\ second' = second + 1
  /\ UNCHANGED <<feedVars, seen, calling, stateVars>>

\* The strategy's thread finds a candle it has not seen.
findsCandle ==
  /\ scalper # "orderbook" /\ ~calling
  /\ begun # seen
  /\ seen' = begun
  /\ calling' = TRUE
  /\ UNCHANGED <<feedVars, second, stateVars>>

Rested == second - m_lastSignalTimeMs >= cooldown_seconds

Emits(type) == m_lastSignalTimeMs' = second /\ signals' = Append(signals, type)
EmitsNothing == UNCHANGED <<m_lastSignalTimeMs, signals>>

-----------------------------------------------------------------------------
(* SuperTrendScalper.  Bands are multiples of 2 * supertrend_period.       *)

TrueRange(k, previous) ==
  LargestOf(k.high - k.low,
            LargestOf(LargestOf(k.high - previous.close, previous.close - k.high),
                      LargestOf(k.low - previous.close, previous.close - k.low)))

\* computeAtr, before the division by the period: a count of the units of all ranges.
SumOfRanges(ks) ==
  Cardinality(UNION {{i} \X (1 .. TrueRange(ks[i], ks[i - 1])) : i \in 2 .. Len(ks)})

Scale(price) == 2 * supertrend_period * price

\* A band moves to the basic band when that is tighter, or the last close was beyond it.
FinalUpper(b, basic) == IF b.hasPrev /\ basic >= b.upper /\ b.close <= b.upper THEN b.upper ELSE basic

\* A fault: the band is reset by a close above it, as the upper one is.
FinalLower_ResetAbove(b, basic) ==
  IF b.hasPrev /\ basic <= b.lower /\ b.close <= b.lower THEN b.lower ELSE basic

FinalLower(b, basic) == IF b.hasPrev /\ basic <= b.lower /\ b.close >= b.lower THEN b.lower ELSE basic

\* The trend turns when the close crosses the band that follows it.
Bullish(b, close, upper, lower, middle) ==
  \/ ~b.hasPrev /\ close >= middle
  \/ b.hasPrev /\ b.bullish /\ close >= lower
  \/ b.hasPrev /\ ~b.bullish /\ close > upper

NextBands(b, basic_upper, basic_lower, close, middle) ==
  LET upper == FinalUpper(b, basic_upper)
      lower == FinalLower(b, basic_lower)
  IN  [upper |-> upper, lower |-> lower, close |-> close,
       bullish |-> Bullish(b, close, upper, lower, middle), hasPrev |-> TRUE]

\* A turn in the cooldown is passed over, and its band kept.
followsTrend(basic_upper, basic_lower, close, middle) ==
  /\ bands' = NextBands(bands, basic_upper, basic_lower, close, middle)
  /\ IF bands.hasPrev /\ bands'.bullish # bands.bullish /\ Rested
     THEN Emits(IF bands'.bullish THEN "Buy" ELSE "Sell")
     ELSE EmitsNothing

\* Nothing is computed of too few candles, or of a flat market.
onKlineSuperTrend ==
  /\ scalper = "supertrend" /\ calling /\ calling' = FALSE
  /\ LET ks == LastOf(candles, supertrend_period + 1)
         latest == ks[Len(ks)]
         middle == supertrend_period * (latest.high + latest.low)
     IN  IF Len(ks) <= supertrend_period \/ SumOfRanges(ks) <= 0
         THEN UNCHANGED bands /\ EmitsNothing
         ELSE \E multiplier \in Multipliers :
                followsTrend(middle + 2 * multiplier * SumOfRanges(ks),
                             middle - 2 * multiplier * SumOfRanges(ks), Scale(latest.close), middle)
  /\ UNCHANGED <<feedVars, second, seen, emas>>

-----------------------------------------------------------------------------
(* MomentumScalper                                                         *)

Sum_(values) == FoldLeft(LAMBDA sum, value : sum + value, 0, values)

\* One step of the average, with a smoothing of 2 / (period + 1).
Smoothed(ema, close, period) == (2 * Unit * close + (period - 1) * ema) \div (period + 1)

\* The first average is seeded by the mean of the first closes; each later one goes
\* through all closes again.
computeEma(closes, period, prev_ema) ==
  LET seeds == prev_ema = 0 /\ Len(closes) >= period
      ema == IF seeds THEN (Unit * Sum_(SubSeq(closes, 1, period))) \div period ELSE prev_ema
      rest == IF seeds THEN SubSeq(closes, period + 1, Len(closes)) ELSE closes
  IN  FoldLeft(LAMBDA e, close : Smoothed(e, close, period), ema, rest)

Closes_(ks) == [i \in DOMAIN ks |-> ks[i].close]

\* A signal where the averages cross; it knows no cooldown.
onKlineMomentum ==
  /\ scalper = "momentum" /\ calling /\ calling' = FALSE
  /\ LET closes == Closes_(LastOf(candles, ema_slow_period + 1))
         fast == computeEma(closes, ema_fast_period, emas.fast)
         slow == computeEma(closes, ema_slow_period, emas.slow)
     IN  IF Len(closes) < ema_slow_period
         THEN UNCHANGED <<emas, signals>>
         ELSE /\ emas' = [fast |-> fast, slow |-> slow, hasPrev |-> TRUE]
              /\ signals' = IF emas.hasPrev /\ emas.fast <= emas.slow /\ fast > slow
                            THEN Append(signals, "Buy")
                            ELSE IF emas.hasPrev /\ emas.fast >= emas.slow /\ fast < slow
                                 THEN Append(signals, "Sell") ELSE signals
  /\ UNCHANGED <<feedVars, second, seen, bands, m_lastSignalTimeMs>>

-----------------------------------------------------------------------------
(* MeanReversionScalper and OrderBookScalper                               *)

Squares(closes) == [i \in DOMAIN closes |-> closes[i] * closes[i]]

\* How far the price is from the mean, and the deviation's square, both times the period.
Distance(closes) == bb_period * closes[Len(closes)] - Sum_(closes)
Variance(closes) == bb_period * Sum_(Squares(closes)) - Sum_(closes) * Sum_(closes)

\* At a band or beyond it, without the square root.
BeyondBand(closes) ==
  Distance(closes) * Distance(closes) >= bb_std_dev * bb_std_dev * Variance(closes)

onKlineReversion ==
  /\ scalper = "reversion" /\ calling /\ calling' = FALSE
  /\ LET closes == Closes_(LastOf(candles, bb_period))
     IN  IF Len(closes) = bb_period /\ BeyondBand(closes) /\ Rested
         THEN Emits(IF Distance(closes) <= 0 THEN "Buy" ELSE "Sell")
         ELSE EmitsNothing
  /\ UNCHANGED <<feedVars, second, seen, bands, emas>>

Volume(quantities) == Sum_(SubSeq(quantities, 1, ob_depth))

\* The difference of the volumes at the top, compared with their sum.
Imbalanced(bid_volume, ask_volume) ==
  /\ bid_volume + ask_volume # 0
  /\ 10 * LargestOf(bid_volume - ask_volume, ask_volume - bid_volume)
       >= ob_imbalance_threshold * (bid_volume + ask_volume)

\* Called with the latest book at each poll.
onOrderbook ==
  /\ scalper = "orderbook"
  /\ \E book \in Books :
       /\ Len(book.bids) >= ob_depth /\ Len(book.asks) >= ob_depth
       /\ Imbalanced(Volume(book.bids), Volume(book.asks)) /\ Rested
       /\ Emits(IF Volume(book.bids) > Volume(book.asks) THEN "Buy" ELSE "Sell")
  /\ UNCHANGED <<feedVars, second, seen, calling, bands, emas>>

ScalperNext ==
  \/ newCandle \/ updateCandle \/ secondGoes \/ findsCandle
  \/ onKlineSuperTrend \/ onKlineMomentum \/ onKlineReversion \/ onOrderbook

ScalperSpec == ScalperInit /\ [][ScalperNext]_scalperVars

-----------------------------------------------------------------------------
(* Properties                                                              *)

\* As long as a trend holds, the band below a rising and above a falling one does not give
\* way, whatever the analyses do to the multiplier, unless the bands have crossed
\* (SuperTrendScalper::onKline).
TrendLineOnlyTightens ==
  [][bands.hasPrev /\ bands.lower <= bands.upper /\ bands'.bullish = bands.bullish =>
       IF bands.bullish THEN bands'.lower >= bands.lower ELSE bands'.upper <= bands.upper]_scalperVars

\* "Final bands are tightened - only move in the direction that favors the current trend"
\* (SuperTrendScalper.hpp:7): the same without the exception.
BandsFavorTheTrend ==
  [][bands.hasPrev /\ bands'.bullish = bands.bullish =>
       IF bands.bullish THEN bands'.lower >= bands.lower ELSE bands'.upper <= bands.upper]_scalperVars

\* Every turn of the trend is a signal (SuperTrendScalper.hpp:9): they alternate.
SignalsAlternate ==
  scalper = "supertrend" => \A i \in 1 .. Len(signals) - 1 : signals[i] # signals[i + 1]

\* "EMA = price * k + prev_ema * (1 - k)" (docs/strategies/momentum-scalper.md:12): a candle
\* moves the average by one step.
EmasTakeOneStep ==
  [][emas.hasPrev /\ emas' # emas =>
       \E k \in Candles : emas'.slow = Smoothed(emas.slow, k.close, ema_slow_period)]_scalperVars

\* A flat market gives no signal.
FlatMarketIsSilent ==
  [][scalper = "reversion" /\ Len(signals') > Len(signals) =>
       \E i, j \in DOMAIN candles : candles[i].close # candles[j].close]_scalperVars
=============================================================================
