-------------------------- MODULE MCSignalAggregator --------------------------
(* A strategy on the spot market and one on futures, of double weight.       *)
EXTENDS SignalAggregator

MCMarkets == [s \in {"momentum", "reversion"} |-> IF s = "momentum" THEN "Spot" ELSE "Futures"]
MCWeights == [s \in {"momentum", "reversion"} |-> IF s = "momentum" THEN 1 ELSE 2]
MCEqualWeights == [s \in {"momentum", "reversion"} |-> 1]

=============================================================================
