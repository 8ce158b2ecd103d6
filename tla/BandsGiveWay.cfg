\* A candle so wide that the upper band falls below the lower one.
CONSTANTS
  Strategies = {momentum}
  Disabled = {}
  WithoutFeed = {}
  MaxMinutes = 1
  MaxVersions = 1
  MaxStarts = 1
  Symbols = {BTC, ETH}
  Weights <- MCWeights
  Markets <- MCMarkets
  Confidences = {3, 9}
  threshold = 5
  cooldown = 2
  MaxVotes = 0
  MaxTime = 0
  Scalpers = {"supertrend"}
  Candles <- MCWideCandles
  Books <- MCBooks
  Multipliers = {1}
  supertrend_period = 3
  ema_fast_period = 1
  ema_slow_period = 2
  bb_period = 3
  bb_std_dev = 1
  ob_depth = 2
  ob_imbalance_threshold = 3
  cooldown_seconds = 1
  Unit = 64
  MaxPushes = 7
  MaxSeconds = 0
SPECIFICATION StrategiesSpec
PROPERTY BandsFavorTheTrend
CHECK_DEADLOCK FALSE
