\* Two strategies with a feed, one of them disabled, one without feed; two starts.
\* Four candles, of four kinds, for the scalpers.
\* Votes on two symbols, weights 1 and 2, weak and strong.
CONSTANTS
  Strategies = {momentum, books, orphan}
  Disabled = {books}
  WithoutFeed = {orphan}
  MaxMinutes = 2
  MaxVersions = 2
  MaxStarts = 2
  Symbols = {BTC, ETH}
  Weights <- MCWeights
  Markets <- MCMarkets
  Confidences = {3, 9}
  threshold = 5
  cooldown = 2
  MaxVotes = 3
  MaxTime = 3
  Scalpers = {"supertrend", "momentum", "reversion", "orderbook"}
  Candles <- MCCandles
  Books <- MCBooks
  Multipliers = {1, 3}
  supertrend_period = 1
  ema_fast_period = 1
  ema_slow_period = 2
  bb_period = 3
  bb_std_dev = 1
  ob_depth = 2
  ob_imbalance_threshold = 3
  cooldown_seconds = 1
  Unit = 64
  MaxPushes = 4
  MaxSeconds = 1
SPECIFICATION StrategiesSpec
INVARIANTS CandlesComeOnce StopJoinsStrategies VotesCountOnce EmissionsHaveConviction
PROPERTIES CandlesReachStrategies TrendLineOnlyTightens
CHECK_DEADLOCK FALSE
