\* Two votes whose sum exceeds the threshold.
CONSTANTS
  Symbols = {BTC}
  Weights <- MCEqualWeights
  Markets <- MCMarkets
  Confidences = {3, 9}
  threshold = 5
  cooldown = 2
  MaxVotes = 4
  MaxTime = 3
SPECIFICATION AggregatorSpec
INVARIANTS ExceedingIsEmitted
CHECK_DEADLOCK FALSE
