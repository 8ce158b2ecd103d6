----------------------------- MODULE MCStrategies -----------------------------
(* The strategy layer: the threads, the scalpers they call, and the          *)
(* aggregator of their signals.  They share no state here: a run is one of   *)
(* them, with the others at rest.                                            *)
EXTENDS StrategyManager, ScalpingStrategies, MCSignalAggregator

Candle(high, low, close) == [high |-> high, low |-> low, close |-> close]

\* A flat candle, a small step up and one down, and a large one.
MCCandles == {Candle(10, 10, 10), Candle(12, 10, 12), Candle(10, 8, 8), Candle(20, 20, 20)}

\* Falling fast, with a candle that recovers.
MCWideCandles == {Candle(10, 10, 10), Candle(11, 11, 11), Candle(9, 0, 9), Candle(20, 20, 20)}

MCSteepCandles == MCWideCandles \cup {Candle(0, 0, 0)}

MCBooks == {[bids |-> <<3, 1>>, asks |-> <<1, 1>>], [bids |-> <<1, 1>>, asks |-> <<1, 3>>],
            [bids |-> <<1, 1>>, asks |-> <<1, 1>>], [bids |-> <<9>>, asks |-> <<0, 0>>]}

VARIABLE part  \* the component that runs: "threads", "scalpers" or "votes"

StrategiesInit ==
  /\ ManagerInit
  /\ ScalperInit
  /\ AggregatorInit
  /\ part \in {"threads", "scalpers", "votes"}
  /\ part # "scalpers" => scalper = CHOOSE s \in Scalpers : TRUE

OnlyThreads == part = "threads" /\ UNCHANGED <<scalperVars, aggregatorVars, part>>

StrategiesNext ==
  \/ ManagerNext /\ OnlyThreads
  \/ part = "scalpers" /\ ScalperNext /\ UNCHANGED <<strategyVars, aggregatorVars, part>>
  \/ part = "votes" /\ AggregatorNext /\ UNCHANGED <<strategyVars, scalperVars, part>>

\* The fairness of the strategy threads (FairThreads); of scalpers and votes nothing is
\* promised.
StrategiesSpec ==
  /\ StrategiesInit
  /\ [][StrategiesNext]_<<strategyVars, scalperVars, aggregatorVars, part>>
  /\ WF_strategyVars(manage /\ OnlyThreads)
  /\ \A s \in Strategies : WF_strategyVars(strategyLoop(s) /\ OnlyThreads)
=============================================================================
