---------------------------- MODULE StrategyProofs ----------------------------
(***************************************************************************)
(* The theorems of the strategies, for any strategies, votes and candles.  *)
(* A strategy gets a candle once and in order, and none runs after stop; a *)
(* vote counts in one signal, and weak votes make none; the SuperTrend line*)
(* does not give way while its trend holds and the bands have not crossed. *)
(***************************************************************************)
EXTENDS StrategyManager, ScalpingStrategies, SignalAggregator, Facts, SequenceTheorems

-----------------------------------------------------------------------------
(* The strategy threads                                                    *)

Enabled == Strategies \ Disabled

AtRest(s) == ~ Running(s) /\ ~ active[s]

\* Which strategies are at rest at the steps of start and stop.
PhaseOK ==
  /\ manager = "stopped" => \A s \in Strategies : AtRest(s)
  /\ manager = "starting" => remaining \subseteq Enabled
  /\ manager = "deactivating" => \A s \in Strategies \ remaining : ~ active[s]
  /\ manager \in {"requesting", "joining"} => \A s \in Strategies : ~ active[s]
  /\ manager = "joining" => \A s \in Enabled \ remaining : thread[s] = "done"

Klines == [kline : [minute : 0 .. MaxMinutes, version : 0 .. MaxVersions, closed : BOOLEAN],
           now : 1 .. MaxMinutes]

\* The candles a strategy got are older than the one it remembers, and that one is not
\* newer than the buffer's, which is not newer than the exchange's.
SeenOK ==
  /\ latest.minute <= candle.minute
  /\ \A s \in Strategies :
       /\ klines[s] \in Seq(Klines)
       /\ last_kline_time[s] <= latest.minute
       /\ \A i \in 1 .. Len(klines[s]) : klines[s][i].kline.minute <= last_kline_time[s]
  /\ CandlesComeOnce

ManagerInv == ManagerTypeOK /\ PhaseOK /\ SeenOK /\ klines \in [Strategies -> Seq(Klines)]

LEMMA ManagerStarts == ManagerInit => ManagerInv
<1> SUFFICES ASSUME ManagerInit PROVE ManagerInv
  OBVIOUS
<1>1. ManagerTypeOK
  BY StrategiesAssumption DEF ManagerInit, ManagerTypeOK, None
<1>2. PhaseOK
  BY DEF ManagerInit, PhaseOK, AtRest, Running
<1>3. \A s \in Strategies : klines[s] = << >> /\ last_kline_time[s] = 0
  BY DEF ManagerInit
<1>4. SeenOK
  BY <1>3 DEF ManagerInit, SeenOK, None, CandlesComeOnce
<1>5. klines \in [Strategies -> Seq(Klines)]
  BY DEF ManagerInit
<1> QED
  BY <1>1, <1>2, <1>4, <1>5 DEF ManagerInv

LEMMA ManagerKeepsTypes ==
  ASSUME ManagerInv, [ManagerNext]_strategyVars
  PROVE  ManagerTypeOK'
<1> USE StrategiesAssumption DEF ManagerInv, ManagerTypeOK, strategyVars, market, threadVars, flags, managerVars
<1>1. CASE priceMoves
  BY <1>1 DEF priceMoves
<1>2. CASE minutePasses
  BY <1>2 DEF minutePasses
<1>3. CASE onKlineUpdate
  BY <1>3 DEF onKlineUpdate
<1>4. CASE start
  BY <1>4 DEF start
<1>5. CASE stop
  BY <1>5 DEF stop
<1>6. CASE spawn
  <2> PICK s \in remaining : 
       /\ active' = [active EXCEPT ![s] = TRUE]
       /\ stop_requested' = [stop_requested EXCEPT ![s] = FALSE]
       /\ thread' = [thread EXCEPT ![s] = "test"]
       /\ last_kline_time' = [last_kline_time EXCEPT ![s] = 0]
       /\ klines' = [klines EXCEPT ![s] = << >>]
       /\ remaining' = remaining \ {s}
    BY <1>6 DEF spawn
  <2>1. s \in Enabled
    BY <1>6 DEF spawn, PhaseOK
  <2>2. \A t \in Disabled : thread'[t] = thread[t]
    BY <2>1 DEF Enabled
  <2> QED
    BY <1>6, <2>2 DEF spawn
<1>7. CASE deactivate
  BY <1>7 DEF deactivate
<1>8. CASE requestStop
  BY <1>8 DEF requestStop
<1>9. CASE join
  BY <1>9 DEF join
<1>10. CASE \E s \in Strategies : strategyLoop(s)
  <2> PICK s \in Strategies : strategyLoop(s)
    BY <1>10
  <2>1. /\ UNCHANGED <<market, flags, managerVars>>
        /\ thread[s] # "none"
        /\ \E to \in {"test", "feed", "poll", "check", "asleep", "done"} :
             thread' = [thread EXCEPT ![s] = to]
    BY DEF strategyLoop, test, feed, onKline, check, wake, threadGoes
  <2>2. last_kline_time' \in [Strategies -> 0 .. MaxMinutes]
    BY DEF strategyLoop, test, feed, onKline, check, wake
  <2>3. PICK to \in {"test", "feed", "poll", "check", "asleep", "done"} :
          thread' = [thread EXCEPT ![s] = to]
    BY <2>1
  <2>4. thread' \in [Strategies -> {"none", "test", "feed", "poll", "check", "asleep", "done"}]
    BY <2>3
  <2>5. s \notin Disabled
    BY <2>1
  <2>6. \A t \in Disabled : thread'[t] = "none"
    BY <2>3, <2>5
  <2> QED
    BY <2>1, <2>2, <2>4, <2>6
<1>11. CASE UNCHANGED strategyVars
  BY <1>11
<1> QED
  BY <1>1, <1>2, <1>3, <1>4, <1>5, <1>6, <1>7, <1>8, <1>9, <1>10, <1>11 DEF ManagerNext, manage

\* A thread that moves belongs to a strategy that is not at rest.
LEMMA ThreadMoves ==
  ASSUME NEW s \in Strategies, strategyLoop(s), ManagerTypeOK
  PROVE  /\ UNCHANGED <<market, flags, managerVars>>
         /\ thread[s] \notin {"none", "done"}
         /\ \A t \in Strategies \ {s} : thread'[t] = thread[t]
  BY DEF strategyLoop, test, feed, onKline, check, wake, threadGoes, ManagerTypeOK

LEMMA ManagerKeepsPhases ==
  ASSUME ManagerInv, [ManagerNext]_strategyVars
  PROVE  PhaseOK'
<1> USE DEF ManagerInv, ManagerTypeOK, PhaseOK, AtRest, Running, Enabled
<1>1. CASE priceMoves \/ minutePasses \/ onKlineUpdate \/ UNCHANGED strategyVars
  BY <1>1 DEF priceMoves, minutePasses, onKlineUpdate, strategyVars, threadVars, flags, managerVars
<1>2. CASE start
  BY <1>2 DEF start, threadVars, flags
<1>3. CASE stop
  BY <1>3 DEF stop, threadVars, flags
<1>4. CASE spawn
  BY <1>4 DEF spawn
<1>5. CASE deactivate
  BY <1>5 DEF deactivate, threadVars
<1>6. CASE requestStop
  BY <1>6 DEF requestStop, threadVars
<1>7. CASE join
  BY <1>7 DEF join, threadVars, flags
<1>8. CASE \E s \in Strategies : strategyLoop(s)
  <2> PICK s \in Strategies : strategyLoop(s)
    BY <1>8
  <2> QED
    BY ThreadMoves DEF flags, managerVars
<1> QED
  BY <1>1, <1>2, <1>3, <1>4, <1>5, <1>6, <1>7, <1>8 DEF ManagerNext, manage

\* What a strategy gets is newer than all it got before.
LEMMA KlinesGrow ==
  ASSUME ManagerInv, NEW s \in Strategies, onKline(s)
  PROVE  SeenOK' /\ klines' \in [Strategies -> Seq(Klines)]
<1> USE DEF ManagerInv
<1>1. UNCHANGED <<candle, latest>>
  BY DEF onKline, threadGoes, market
<1>2. CASE UNCHANGED <<last_kline_time, klines>>
  BY <1>1, <1>2 DEF SeenOK, CandlesComeOnce
<1>3. CASE latest.closed /\ latest.minute # last_kline_time[s]
  <2> PICK k : k = [kline |-> latest, now |-> candle.minute]
    OBVIOUS
  <2>1. k \in Klines /\ latest.minute \in Nat /\ latest.minute = k.kline.minute
    BY StrategiesAssumption DEF Klines, ManagerTypeOK
  <2>2. /\ last_kline_time' = [last_kline_time EXCEPT ![s] = latest.minute]
        /\ klines' = [klines EXCEPT ![s] = Append(klines[s], k)]
    BY <1>3 DEF onKline
  <2> PICK old, new : old = klines[s] /\ new = Append(old, k)
    OBVIOUS
  <2>3. /\ new \in Seq(Klines) /\ old \in Seq(Klines)
        /\ Len(new) = Len(old) + 1
        /\ \A i \in 1 .. Len(old) : new[i] = old[i]
        /\ new[Len(old) + 1] = k
        /\ Len(old) \in Nat
    BY <2>1 DEF SeenOK
  <2>4. \A i \in 1 .. Len(new) : i \in 1 .. Len(old) \/ i = Len(old) + 1
    BY <2>3
  <2>5. klines'[s] = new /\ last_kline_time'[s] = latest.minute
    BY <2>2 DEF ManagerTypeOK
  <2>6. \A t \in Strategies \ {s} : klines'[t] = klines[t] /\ last_kline_time'[t] = last_kline_time[t]
    BY <2>2 DEF ManagerTypeOK
  <2>7. last_kline_time[s] < latest.minute
    BY <1>3, <2>1 DEF SeenOK, ManagerTypeOK
  <2>8. \A i \in 1 .. Len(old) : old[i].kline.minute \in Nat /\ old[i].kline.minute < latest.minute
    <3> SUFFICES ASSUME NEW i \in 1 .. Len(old)
                 PROVE  old[i].kline.minute \in Nat /\ old[i].kline.minute < latest.minute
      OBVIOUS
    <3>1. old[i] \in Klines
      BY <2>3
    <3>2. old[i].kline.minute \in Nat
      BY <3>1, StrategiesAssumption DEF Klines
    <3>3. old[i].kline.minute <= last_kline_time[s] /\ last_kline_time[s] \in Nat
      BY StrategiesAssumption DEF SeenOK, ManagerTypeOK
    <3> QED
      BY <2>1, <2>7, <3>2, <3>3
  <2>9. \A i \in 1 .. Len(new) : new[i].kline.minute <= latest.minute
    BY <2>1, <2>3, <2>4, <2>8
  <2>10. \A i, j \in 1 .. Len(new) : i < j => new[i].kline.minute < new[j].kline.minute
    <3> TAKE i, j \in 1 .. Len(new)
    <3> HAVE i < j
    <3>1. i \in 1 .. Len(old)
      BY <2>3
    <3>2. CASE j \in 1 .. Len(old)
      BY <2>3, <3>1, <3>2 DEF SeenOK, CandlesComeOnce
    <3>3. CASE j = Len(old) + 1
      BY <2>1, <2>3, <2>8, <3>1, <3>3
    <3> QED
      BY <2>4, <3>2, <3>3
  <2>11. SeenOK'
    <3>1. latest'.minute <= candle'.minute
      BY <1>1 DEF SeenOK
    <3>2. CandlesComeOnce'
      BY <2>5, <2>6, <2>10 DEF SeenOK, CandlesComeOnce
    <3>3. \A u \in Strategies : /\ klines'[u] \in Seq(Klines)
                                /\ last_kline_time'[u] <= latest'.minute
                                /\ \A i \in 1 .. Len(klines'[u]) : klines'[u][i].kline.minute <= last_kline_time'[u]
      <4> TAKE u \in Strategies
      <4>1. CASE u = s
        <5>1. klines'[u] = new /\ last_kline_time'[u] = latest.minute /\ latest' = latest
          BY <1>1, <2>5, <4>1
        <5> QED
          BY <2>1, <2>3, <2>9, <5>1
      <4>2. CASE u # s
        <5>1. klines'[u] = klines[u] /\ last_kline_time'[u] = last_kline_time[u] /\ latest' = latest
          BY <1>1, <2>6, <4>2
        <5> QED
          BY <5>1 DEF SeenOK
      <4> QED
        BY <4>1, <4>2
    <3> QED
      BY <3>1, <3>2, <3>3 DEF SeenOK, Klines
  <2>12. klines' \in [Strategies -> Seq(Klines)]
    BY <2>2, <2>3
  <2> QED
    BY <2>11, <2>12
<1> QED
  BY <1>2, <1>3 DEF onKline

LEMMA ManagerKeepsKlines ==
  ASSUME ManagerInv, [ManagerNext]_strategyVars
  PROVE  SeenOK' /\ klines' \in [Strategies -> Seq(Klines)]
<1> USE DEF ManagerInv
<1>1. CASE UNCHANGED <<candle, latest, last_kline_time, klines>>
  BY <1>1 DEF SeenOK, CandlesComeOnce
<1>2. CASE priceMoves \/ minutePasses
  <2>1. candle'.minute >= candle.minute /\ candle.minute \in Nat /\ candle'.minute \in Nat
    BY <1>2 DEF priceMoves, minutePasses, ManagerTypeOK
  <2>2. UNCHANGED <<latest, last_kline_time, klines>>
    BY <1>2 DEF priceMoves, minutePasses, threadVars
  <2>3. latest.minute \in Nat /\ latest.minute <= candle.minute
    BY StrategiesAssumption DEF SeenOK, ManagerTypeOK
  <2>4. latest'.minute <= candle'.minute
    BY <2>1, <2>2, <2>3
  <2>5. CandlesComeOnce'
    BY <2>2 DEF SeenOK, CandlesComeOnce
  <2>6. SeenOK'
    BY <2>2, <2>4, <2>5 DEF SeenOK, Klines
  <2>7. klines' \in [Strategies -> Seq(Klines)]
    BY <2>2 DEF Klines
  <2> QED
    BY <2>6, <2>7
<1>3. CASE onKlineUpdate
  <2>1. latest'.minute = candle.minute /\ latest.minute \in Nat /\ candle.minute \in Nat
    BY <1>3, StrategiesAssumption DEF onKlineUpdate, ManagerTypeOK
  <2>2. UNCHANGED <<candle, last_kline_time, klines>>
    BY <1>3 DEF onKlineUpdate, threadVars
  <2>3. \A s \in Strategies : last_kline_time[s] \in Nat
    BY StrategiesAssumption DEF ManagerTypeOK
  <2>4. latest'.minute <= candle'.minute
    BY <2>1, <2>2
  <2>5. \A s \in Strategies : last_kline_time[s] <= latest'.minute
    BY <2>1, <2>3 DEF SeenOK
  <2>6. CandlesComeOnce'
    BY <2>2 DEF SeenOK, CandlesComeOnce
  <2>7. \A s \in Strategies : /\ klines[s] \in Seq(Klines)
                              /\ \A i \in 1 .. Len(klines[s]) : klines[s][i].kline.minute <= last_kline_time[s]
    BY DEF SeenOK
  <2>8. SeenOK'
    BY <2>2, <2>4, <2>5, <2>6, <2>7 DEF SeenOK, Klines
  <2>9. klines' \in [Strategies -> Seq(Klines)]
    BY <2>2 DEF Klines
  <2> QED
    BY <2>8, <2>9
<1>4. CASE spawn
  <2> PICK s \in remaining :
        /\ last_kline_time' = [last_kline_time EXCEPT ![s] = 0]
        /\ klines' = [klines EXCEPT ![s] = << >>]
    BY <1>4 DEF spawn
  <2>1. s \in Strategies /\ latest.minute \in Nat
    BY StrategiesAssumption DEF ManagerTypeOK
  <2>2. klines'[s] = << >> /\ last_kline_time'[s] = 0
    BY <2>1 DEF ManagerTypeOK
  <2>3. \A t \in Strategies \ {s} : klines'[t] = klines[t] /\ last_kline_time'[t] = last_kline_time[t]
    BY <2>1 DEF ManagerTypeOK
  <2>4. UNCHANGED <<candle, latest>>
    BY <1>4 DEF spawn, market
  <2>5. << >> \in Seq(Klines) /\ Len(<< >>) = 0
    OBVIOUS
  <2> QED
    BY <2>1, <2>2, <2>3, <2>4, <2>5 DEF SeenOK, CandlesComeOnce
<1>5. CASE \E s \in Strategies : strategyLoop(s)
  <2> PICK s \in Strategies : strategyLoop(s)
    BY <1>5
  <2>1. CASE onKline(s)
    BY <2>1, KlinesGrow
  <2>2. CASE test(s) \/ feed(s) \/ check(s) \/ wake(s)
    BY <1>1, <2>2 DEF test, feed, check, wake, threadGoes, market
  <2> QED
    BY <2>1, <2>2 DEF strategyLoop
<1> QED
  BY <1>1, <1>2, <1>3, <1>4, <1>5 DEF ManagerNext, manage, start, stop, deactivate, requestStop,
     join, strategyVars, market, threadVars

LEMMA ManagerInvariant == ManagerSpec => []ManagerInv
<1>1. ManagerInv /\ [ManagerNext]_strategyVars => ManagerInv'
  BY ManagerKeepsTypes, ManagerKeepsPhases, ManagerKeepsKlines DEF ManagerInv
<1> QED
  BY <1>1, ManagerStarts, PTL DEF ManagerSpec

\* Every variable of StrategyManager has its type, and a disabled strategy no thread.
THEOREM ManagerTypeCorrect == ManagerSpec => []ManagerTypeOK
<1>1. ManagerInv => ManagerTypeOK
  BY DEF ManagerInv
<1> QED
  BY <1>1, ManagerInvariant, PTL

\* Between start and stop a strategy is called once for a candle, and in the order of the
\* candles (StrategyManager::strategyLoop, which compares the time of the latest candle).
THEOREM CandlesAreSeenOnce == ManagerSpec => []CandlesComeOnce
<1>1. ManagerInv => CandlesComeOnce
  BY DEF ManagerInv, SeenOK
<1> QED
  BY <1>1, ManagerInvariant, PTL

\* When StrategyManager::stop has returned no strategy runs or is reported running.
THEOREM StopLeavesNoStrategy == ManagerSpec => []StopJoinsStrategies
<1>1. ManagerInv => StopJoinsStrategies
  BY DEF ManagerInv, PhaseOK, StopJoinsStrategies, AtRest
<1> QED
  BY <1>1, ManagerInvariant, PTL

-----------------------------------------------------------------------------
(* The votes                                                               *)

Votes == [strategy : Voters, symbol : Symbols, type : Directions, confidence : Confidences]

MarketNames == {"Spot"} \cup {Markets[s] : s \in Voters}

Emissions == [type : Directions, symbol : Symbols, market : MarketNames, time : Nat, upto : Nat]

SymbolStates == [buy : Nat, sell : Nat, weight : Nat, market : MarketNames,
                 last_signal : Int]

Weighted == [k \in DOMAIN votes |-> votes[k].confidence * Weights[votes[k].strategy]]
Plain == [k \in DOMAIN votes |-> Weights[votes[k].strategy]]

VotesTypeOK ==
  /\ votes \in Seq(Votes)
  /\ emitted \in Seq(Emissions)
  /\ m_symbolStates \in [Symbols -> SymbolStates]
  /\ clock \in Nat

\* An emission is made of votes that were there.
EmittedOK == \A i \in 1 .. Len(emitted) : emitted[i].upto <= Len(votes)

\* The third sum of a symbol is that of the weights of the votes that wait.
WeightsCountOnce ==
  \A y \in Symbols : m_symbolStates[y].weight = SumFunctionOnSet(Plain, Waiting(y))

VotesInv == VotesTypeOK /\ EmittedOK /\ VotesCountOnce /\ WeightsCountOnce

\* With no vote, nothing waits.
LEMMA NothingWaits ==
  ASSUME votes = << >>, \A y \in Symbols : m_symbolStates[y] = NoVotes
  PROVE  VotesCountOnce /\ WeightsCountOnce
<1>1. \A y \in Symbols : Waiting(y) = {}
  BY DEF Waiting
<1>2. \A f : SumFunctionOnSet(f, {}) = 0
  BY SumOfNone
<1>3. \A y \in Symbols, d \in Directions : WeightedSum(Waiting(y), d) = 0
  <2>1. \A d : WeightedSum({}, d) = 0
    <3> TAKE d
    <3>1. {k \in {} : votes[k].type = d} = {}
      OBVIOUS
    <3> QED
      BY <1>2, <3>1 DEF WeightedSum
  <2> QED
    BY <1>1, <2>1
<1>4. VotesCountOnce
  BY <1>3 DEF VotesCountOnce, NoVotes, Directions
<1>5. WeightsCountOnce
  <2>1. SumFunctionOnSet(Plain, {}) = 0
    BY SumOfNone
  <2>2. \A y \in Symbols : m_symbolStates[y].weight = 0
    BY DEF NoVotes
  <2> QED
    BY <1>1, <2>1, <2>2 DEF WeightsCountOnce
<1> QED
  BY <1>4, <1>5

LEMMA NoVotesType == NoVotes \in SymbolStates
  BY AggregatorAssumption DEF NoVotes, SymbolStates, MarketNames

LEMMA VotesStart == AggregatorInit => VotesInv
<1> SUFFICES ASSUME AggregatorInit PROVE VotesInv
  OBVIOUS
<1>1. VotesTypeOK
  BY NoVotesType DEF AggregatorInit, VotesTypeOK
<1>2. EmittedOK
  BY DEF AggregatorInit, EmittedOK
<1>3. VotesCountOnce /\ WeightsCountOnce
  BY NothingWaits DEF AggregatorInit
<1> QED
  BY <1>1, <1>2, <1>3 DEF VotesInv

\* A vote joins those that wait for its symbol; the others wait on.
LEMMA VoteWaits ==
  ASSUME VotesInv, NEW v \in Votes, votes' = Append(votes, v)
  PROVE  /\ votes' \in Seq(Votes) /\ Len(votes') = Len(votes) + 1
         /\ \A k \in 1 .. Len(votes) : votes'[k] = votes[k]
         /\ votes'[Len(votes) + 1] = v
         /\ Len(votes) \in Nat
         /\ DOMAIN votes = 1 .. Len(votes)
         /\ DOMAIN votes' = 1 .. Len(votes) + 1
  BY DEF VotesInv, VotesTypeOK

LEMMA WeightIsNat ==
  ASSUME NEW v \in Votes
  PROVE  /\ Weights[v.strategy] \in Nat /\ v.confidence \in Nat
         /\ v.confidence * Weights[v.strategy] \in Nat
<1>1. Weights[v.strategy] \in Nat /\ v.confidence \in Nat
  <2>1. v.strategy \in DOMAIN Weights /\ v.confidence \in Confidences
    BY DEF Votes, Voters
  <2>2. v.confidence \in 0 .. 10
    BY <2>1, AggregatorAssumption
  <2> QED
    BY <2>1, <2>2, AggregatorAssumption
<1>2. \A a, b \in Nat : a * b \in Nat
  OBVIOUS
<1> QED
  BY <1>1, <1>2

LEMMA WeighedVotes ==
  ASSUME VotesInv
  PROVE  /\ DOMAIN votes = 1 .. Len(votes) /\ Len(votes) \in Nat
         /\ \A k \in 1 .. Len(votes) : /\ votes[k] \in Votes
                                       /\ Weighted[k] = votes[k].confidence * Weights[votes[k].strategy]
                                       /\ Weighted[k] \in Nat
                                       /\ Plain[k] = Weights[votes[k].strategy]
                                       /\ Plain[k] \in Nat
<1>1. DOMAIN votes = 1 .. Len(votes) /\ Len(votes) \in Nat
  BY DEF VotesInv, VotesTypeOK
<1>2. \A k \in 1 .. Len(votes) : votes[k] \in Votes
  BY DEF VotesInv, VotesTypeOK
<1> QED
  BY <1>1, <1>2, WeightIsNat DEF Weighted, Plain

\* A sum of votes that are there is the same with one more vote, which adds its weight.
Adds(v, m, S) ==
  /\ \A d \in Directions : /\ WeightedSum(S, d) \in Nat
                          /\ WeightedSum(S, d)' = WeightedSum(S, d)
                          /\ WeightedSum(S \cup {m}, d)' =
                               WeightedSum(S, d)
                                 + (IF v.type = d THEN v.confidence * Weights[v.strategy] ELSE 0)
  /\ SumFunctionOnSet(Plain, S) \in Nat
  /\ SumFunctionOnSet(Plain', S) = SumFunctionOnSet(Plain, S)
  /\ SumFunctionOnSet(Plain', S \cup {m}) = SumFunctionOnSet(Plain, S) + Weights[v.strategy]

LEMMA VoteAdds ==
  ASSUME VotesInv, NEW v \in Votes, votes' = Append(votes, v),
         NEW n, n = Len(votes), NEW m, m = n + 1, NEW S, S \subseteq DOMAIN votes
  PROVE  Adds(v, m, S)
<1>1. /\ n \in Nat /\ DOMAIN votes = 1 .. n /\ DOMAIN votes' = 1 .. m /\ m \in Nat /\ m \notin 1 .. n
      /\ \A k \in 1 .. n : votes'[k] = votes[k]
      /\ votes'[m] = v
  BY VoteWaits
<1> PICK w, x, p, q : w = Weighted /\ x = Weighted' /\ p = Plain /\ q = Plain'
  OBVIOUS
<1>2. /\ \A k \in 1 .. n : /\ w[k] \in Nat /\ x[k] = w[k]
                           /\ p[k] \in Nat /\ q[k] = p[k]
      /\ x[m] = v.confidence * Weights[v.strategy] /\ x[m] \in Nat
      /\ q[m] = Weights[v.strategy] /\ q[m] \in Nat
  <2>1. \A k \in 1 .. n : w[k] \in Nat /\ p[k] \in Nat
    BY WeighedVotes
  <2>2. \A k \in 1 .. n : x[k] = w[k] /\ q[k] = p[k]
    BY <1>1 DEF Weighted, Plain
  <2>3. m \in 1 .. m
    BY <1>1
  <2>4. x[m] = v.confidence * Weights[v.strategy] /\ q[m] = Weights[v.strategy]
    BY <1>1, <2>3 DEF Weighted, Plain
  <2> QED
    BY <2>1, <2>2, <2>4, WeightIsNat
<1>3. IsFiniteSet(S) /\ \A s \in SUBSET S : IsFiniteSet(s)
  <2>1. IsFiniteSet(1 .. n)
    BY <1>1, FS_Interval
  <2>2. S \in SUBSET (1 .. n)
    BY <1>1
  <2>3. IsFiniteSet(S)
    BY <2>1, <2>2, FS_Subset
  <2> QED
    BY <2>3, FS_Subset
<1>4. m \notin S
  BY <1>1
<1>5. ASSUME NEW d
      PROVE  /\ WeightedSum(S, d) \in Nat
             /\ WeightedSum(S, d)' = WeightedSum(S, d)
             /\ WeightedSum(S \cup {m}, d)' =
                  WeightedSum(S, d) + (IF v.type = d THEN v.confidence * Weights[v.strategy] ELSE 0)
  <2> PICK D, E : D = {k \in S : votes[k].type = d} /\ E = {k \in S \cup {m} : votes'[k].type = d}
    OBVIOUS
  <2>1. D \in SUBSET S /\ D = {k \in S : votes'[k].type = d}
    BY <1>1
  <2>2. E = IF v.type = d THEN D \cup {m} ELSE D
    BY <1>1, <1>4, <2>1
  <2>3. /\ WeightedSum(S, d) = SumFunctionOnSet(w, D)
        /\ WeightedSum(S, d)' = SumFunctionOnSet(x, D)
        /\ WeightedSum(S \cup {m}, d)' = SumFunctionOnSet(x, E)
    BY <2>1 DEF WeightedSum, Weighted
  <2>4. IsFiniteSet(D) /\ m \notin D /\ \A k \in D : w[k] \in Nat /\ x[k] = w[k]
    BY <1>1, <1>2, <1>3, <1>4, <2>1
  <2>5. SumFunctionOnSet(x, D) = SumFunctionOnSet(w, D)
    BY <2>4, SumOfSame
  <2>6. SumFunctionOnSet(w, D) \in Nat
    BY <2>4, SumIsNat
  <2>7. SumFunctionOnSet(x, D \cup {m}) = SumFunctionOnSet(w, D) + x[m]
    <3>1. /\ \A k \in D : w[k] \in Int /\ x[k] = w[k]
          /\ x[m] \in Int
      BY <1>2, <2>4
    <3>2. IsFiniteSet(D) /\ m \notin D
      BY <2>4
    <3>3. \A k \in D : w[k] \in Int /\ x[k] = w[k]
      BY <3>1
    <3>4. x[m] \in Int /\ m \notin D
      BY <3>1, <3>2
    <3>5. IsFiniteSet(D)
      BY <3>2
    <3>6. SumFunctionOnSet(x, D \cup {m}) = SumFunctionOnSet(w, D) + x[m]
      BY ONLY <3>3, <3>4, <3>5, SumOfAdded
    <3> QED
      BY <3>6
  <2>8. WeightedSum(S, d) \in Nat /\ WeightedSum(S, d)' = WeightedSum(S, d)
    BY <2>3, <2>5, <2>6
  <2>9. CASE v.type = d
    <3>1. E = D \cup {m}
      BY <2>2, <2>9
    <3>2. SumFunctionOnSet(x, E) = SumFunctionOnSet(w, D) + x[m]
      BY <2>7, <3>1
    <3>3. WeightedSum(S \cup {m}, d)' = WeightedSum(S, d) + v.confidence * Weights[v.strategy]
      BY <1>2, <2>3, <3>2
    <3> QED
      BY <2>8, <2>9, <3>3
  <2>10. CASE v.type # d
    <3>1. E = D
      BY <2>2, <2>10
    <3>2. WeightedSum(S \cup {m}, d)' = WeightedSum(S, d)
      BY <2>3, <2>5, <3>1
    <3> QED
      BY <2>8, <2>10, <3>2
  <2> QED
    BY <2>9, <2>10
<1>6. \A k \in S : p[k] \in Nat /\ q[k] = p[k]
  BY <1>1, <1>2
<1>7. SumFunctionOnSet(p, S) \in Nat
  BY <1>3, <1>6, SumIsNat
<1>8. SumFunctionOnSet(q, S) = SumFunctionOnSet(p, S)
  BY <1>3, <1>6, SumOfSame
<1>9. SumFunctionOnSet(q, S \cup {m}) = SumFunctionOnSet(p, S) + q[m]
  <2>1. \A k \in S : p[k] \in Int /\ q[k] = p[k]
    BY <1>6
  <2>2. q[m] \in Int
    BY <1>2
  <2>3. IsFiniteSet(S)
    BY <1>3
  <2> QED
    BY ONLY <1>4, <2>1, <2>2, <2>3, SumOfAdded
<1>10. \A d : /\ WeightedSum(S, d) \in Nat
              /\ WeightedSum(S, d)' = WeightedSum(S, d)
              /\ WeightedSum(S \cup {m}, d)' =
                   WeightedSum(S, d) + (IF v.type = d THEN v.confidence * Weights[v.strategy] ELSE 0)
  BY ONLY <1>5
<1>11. /\ SumFunctionOnSet(Plain, S) \in Nat
       /\ SumFunctionOnSet(Plain', S) = SumFunctionOnSet(Plain, S)
       /\ SumFunctionOnSet(Plain', S \cup {m}) =
            SumFunctionOnSet(Plain, S) + Weights[v.strategy]
  BY <1>2, <1>7, <1>8, <1>9
<1> QED
  BY <1>10, <1>11 DEF Adds

\* What addSignal does to the sums of the symbol: the vote is added to them.
LEMMA CountedSums ==
  ASSUME NEW state \in SymbolStates, NEW v \in Votes
  PROVE  LET counted == Counted(state, v)
             weighted == v.confidence * Weights[v.strategy]
         IN  /\ counted \in SymbolStates
             /\ counted.buy = state.buy + (IF v.type = "Buy" THEN weighted ELSE 0)
             /\ counted.sell = state.sell + (IF v.type = "Sell" THEN weighted ELSE 0)
             /\ counted.weight = state.weight + Weights[v.strategy]
             /\ Cleared(counted).buy = 0 /\ Cleared(counted).sell = 0 /\ Cleared(counted).weight = 0
             /\ clock \in Nat => Cleared(counted) \in SymbolStates
<1> PICK weighted, weight : weighted = v.confidence * Weights[v.strategy] /\ weight = Weights[v.strategy]
  OBVIOUS
<1>1. weighted \in Nat /\ weight \in Nat
  BY WeightIsNat
<1>2. v.strategy \in Voters
  BY DEF Votes
<1>3. Counted(state, v) = [state EXCEPT !.buy = IF v.type = "Buy" THEN @ + weighted ELSE @,
                                        !.sell = IF v.type = "Sell" THEN @ + weighted ELSE @,
                                        !.weight = @ + weight,
                                        !.market = Markets[v.strategy]]
  BY DEF Counted
<1> PICK buy, sell, all, last : buy = state.buy /\ sell = state.sell /\ all = state.weight /\ last = state.last_signal
  OBVIOUS
<1>6. /\ buy \in Nat /\ sell \in Nat /\ all \in Nat /\ last \in Int
      /\ Markets[v.strategy] \in MarketNames
  BY <1>2 DEF SymbolStates, MarketNames
<1>7. Counted(state, v) = [buy |-> IF v.type = "Buy" THEN buy + weighted ELSE buy,
                           sell |-> IF v.type = "Sell" THEN sell + weighted ELSE sell,
                           weight |-> all + weight, market |-> Markets[v.strategy], last_signal |-> last]
  BY <1>3 DEF SymbolStates
<1>4. /\ Counted(state, v) \in SymbolStates
      /\ Counted(state, v).buy = state.buy + (IF v.type = "Buy" THEN weighted ELSE 0)
      /\ Counted(state, v).sell = state.sell + (IF v.type = "Sell" THEN weighted ELSE 0)
      /\ Counted(state, v).weight = state.weight + weight
  BY <1>1, <1>6, <1>7 DEF SymbolStates
<1> PICK counted : counted = Counted(state, v)
  OBVIOUS
<1>5. /\ Cleared(counted).buy = 0 /\ Cleared(counted).sell = 0 /\ Cleared(counted).weight = 0
      /\ clock \in Nat => Cleared(counted) \in SymbolStates
  <2>1. counted.market \in MarketNames
    BY <1>4 DEF SymbolStates
  <2> PICK k : k = Cleared(counted)
    OBVIOUS
  <2>2. k = [buy |-> 0, sell |-> 0, weight |-> 0, market |-> counted.market, last_signal |-> clock]
    <3>1. counted \in SymbolStates
      BY <1>4
    <3>2. k = [counted EXCEPT !.buy = 0, !.sell = 0, !.weight = 0, !.last_signal = clock]
      BY DEF Cleared
    <3> QED
      BY ONLY <3>1, <3>2 DEF SymbolStates
  <2> QED
    BY <2>1, <2>2 DEF SymbolStates
<1> QED
  BY <1>4, <1>5

\* A vote that emits takes all that wait for its symbol; another one waits with them.
LEMMA VoteIsAdded ==
  ASSUME VotesInv, NEW s \in Voters, NEW y \in Symbols, NEW d \in Directions, NEW c \in Confidences,
         addSignal(s, y, d, c), NEW n, n = Len(votes),
         NEW v, v = [strategy |-> s, symbol |-> y, type |-> d, confidence |-> c],
         NEW state, state = Counted(m_symbolStates[y], v)
  PROVE  /\ v \in Votes
         /\ votes' = Append(votes, v)
         /\ \A z \in Symbols \ {y} : /\ m_symbolStates'[z] = m_symbolStates[z]
                                     /\ Waiting(z)' = Waiting(z)
         /\ \/ /\ ReachesThreshold(state) /\ CooledDown(state)
               /\ m_symbolStates' = [m_symbolStates EXCEPT ![y] = Cleared(state)]
               /\ emitted' = Append(emitted, Emission(y, state))
               /\ Waiting(y)' = {}
            \/ /\ m_symbolStates' = [m_symbolStates EXCEPT ![y] = state]
               /\ emitted' = emitted
               /\ Waiting(y)' = Waiting(y) \cup {n + 1}
<1>1. v \in Votes
  BY DEF Votes
<1>2. votes' = Append(votes, v)
  BY DEF addSignal
<1>3. /\ n \in Nat /\ DOMAIN votes = 1 .. n /\ DOMAIN votes' = 1 .. n + 1
      /\ \A k \in 1 .. n : votes'[k] = votes[k]
      /\ votes'[n + 1] = v
      /\ \A k \in 1 .. n + 1 : k \in 1 .. n \/ k = n + 1
  BY <1>1, <1>2, VoteWaits
<1>4. /\ m_symbolStates \in [Symbols -> SymbolStates]
      /\ Len(emitted) \in Nat /\ DOMAIN emitted = 1 .. Len(emitted)
      /\ \A i \in 1 .. Len(emitted) : emitted[i].upto \in Nat /\ emitted[i].upto <= n
  <2>1. \A i \in 1 .. Len(emitted) : emitted[i] \in Emissions
    BY DEF VotesInv, VotesTypeOK
  <2>2. \A i \in 1 .. Len(emitted) : emitted[i].upto \in Nat
    BY <2>1 DEF Emissions
  <2> QED
    BY <2>2 DEF VotesInv, VotesTypeOK, EmittedOK
<1>5. CASE ReachesThreshold(state) /\ CooledDown(state)
  <2> PICK e : e = Emission(y, state)
    OBVIOUS
  <2>1. e.symbol = y /\ e.upto = n + 1
    BY DEF Emission
  <2>2. /\ m_symbolStates' = [m_symbolStates EXCEPT ![y] = Cleared(state)]
        /\ emitted' = Append(emitted, e)
    BY <1>5 DEF addSignal
  <2>3. /\ DOMAIN emitted' = 1 .. Len(emitted) + 1
        /\ \A i \in 1 .. Len(emitted) : emitted'[i] = emitted[i]
        /\ emitted'[Len(emitted) + 1] = e
        /\ \A i \in 1 .. Len(emitted) + 1 : i \in 1 .. Len(emitted) \/ i = Len(emitted) + 1
        /\ Len(emitted) + 1 \in 1 .. Len(emitted) + 1
    BY <1>4, <2>2 DEF VotesInv, VotesTypeOK
  <2>4. Waiting(y)' = {}
    <3>1. \A k \in 1 .. n + 1 : ~ (n + 1 < k)
      BY <1>3
    <3> QED
      BY <1>3, <2>1, <2>3, <3>1 DEF Waiting
  <2>5. ASSUME NEW z \in Symbols \ {y}
        PROVE  Waiting(z)' = Waiting(z)
    BY <1>3, <1>4, <2>1, <2>3 DEF Waiting
  <2> QED
    BY <1>1, <1>2, <1>4, <1>5, <2>2, <2>4, <2>5
<1>6. CASE ~ (ReachesThreshold(state) /\ CooledDown(state))
  <2>1. /\ m_symbolStates' = [m_symbolStates EXCEPT ![y] = state]
        /\ emitted' = emitted
    BY <1>6 DEF addSignal
  <2>2. \A j \in DOMAIN emitted : emitted[j].upto < n + 1
    BY <1>3, <1>4
  <2>3. Waiting(y)' = Waiting(y) \cup {n + 1}
    BY <1>3, <2>1, <2>2 DEF Waiting
  <2>4. ASSUME NEW z \in Symbols \ {y}
        PROVE  Waiting(z)' = Waiting(z)
    BY <1>3, <2>1 DEF Waiting
  <2> QED
    BY <1>1, <1>2, <1>4, <2>1, <2>3, <2>4
<1> QED
  BY <1>5, <1>6

\* The sums of the symbol with the vote counted are those of what waits and the vote.
LEMMA CountedIsSum ==
  ASSUME VotesInv, NEW y \in Symbols, NEW v \in Votes, votes' = Append(votes, v),
         NEW T, T = Waiting(y) \cup {Len(votes) + 1},
         NEW state, state = Counted(m_symbolStates[y], v)
  PROVE  /\ state \in SymbolStates
         /\ state.buy = WeightedSum(T, "Buy")'
         /\ state.sell = WeightedSum(T, "Sell")'
         /\ state.weight = SumFunctionOnSet(Plain', T)
<1> PICK X, n, m : X = Waiting(y) /\ n = Len(votes) /\ m = n + 1
  OBVIOUS
<1>1. m_symbolStates[y] \in SymbolStates
  BY DEF VotesInv, VotesTypeOK
<1>2. /\ state \in SymbolStates
      /\ state.buy = m_symbolStates[y].buy + (IF v.type = "Buy" THEN v.confidence * Weights[v.strategy] ELSE 0)
      /\ state.sell = m_symbolStates[y].sell + (IF v.type = "Sell" THEN v.confidence * Weights[v.strategy] ELSE 0)
      /\ state.weight = m_symbolStates[y].weight + Weights[v.strategy]
  BY <1>1, CountedSums
<1>3. /\ m_symbolStates[y].buy = WeightedSum(X, "Buy")
      /\ m_symbolStates[y].sell = WeightedSum(X, "Sell")
      /\ m_symbolStates[y].weight = SumFunctionOnSet(Plain, X)
  BY DEF VotesInv, VotesCountOnce, WeightsCountOnce
<1>4. X \subseteq DOMAIN votes
  BY DEF Waiting
<1>5. Adds(v, m, X)
  BY <1>4, VoteAdds
<1>6. T = X \cup {m}
  OBVIOUS
<1>7. /\ state.buy = WeightedSum(X \cup {m}, "Buy")'
      /\ state.sell = WeightedSum(X \cup {m}, "Sell")'
      /\ state.weight = SumFunctionOnSet(Plain', X \cup {m})
  BY <1>2, <1>3, <1>5 DEF Adds, Directions
<1> QED
  BY <1>2, <1>6, <1>7

LEMMA VotesStayCounted ==
  ASSUME VotesInv, NEW s \in Voters, NEW y \in Symbols, NEW d \in Directions, NEW c \in Confidences,
         addSignal(s, y, d, c)
  PROVE  VotesInv'
<1> PICK n, v, state :
      /\ n = Len(votes)
      /\ v = [strategy |-> s, symbol |-> y, type |-> d, confidence |-> c]
      /\ state = Counted(m_symbolStates[y], v)
  OBVIOUS
<1>1. /\ v \in Votes /\ votes' = Append(votes, v)
      /\ \A z \in Symbols \ {y} : /\ m_symbolStates'[z] = m_symbolStates[z]
                                  /\ Waiting(z)' = Waiting(z)
  BY VoteIsAdded
<1> PICK W : W = [z \in Symbols |-> Waiting(z)]
  OBVIOUS
<1>2. \A z \in Symbols : W[z] = Waiting(z) /\ W[z] \subseteq DOMAIN votes
  BY DEF Waiting
<1>3. m_symbolStates[y] \in SymbolStates /\ m_symbolStates \in [Symbols -> SymbolStates] /\ clock \in Nat
  BY DEF VotesInv, VotesTypeOK
<1>4. /\ state \in SymbolStates
      /\ state.buy = m_symbolStates[y].buy + (IF d = "Buy" THEN v.confidence * Weights[v.strategy] ELSE 0)
      /\ state.sell = m_symbolStates[y].sell + (IF d = "Sell" THEN v.confidence * Weights[v.strategy] ELSE 0)
      /\ state.weight = m_symbolStates[y].weight + Weights[v.strategy]
      /\ Cleared(state) \in SymbolStates
      /\ Cleared(state).buy = 0 /\ Cleared(state).sell = 0 /\ Cleared(state).weight = 0
  BY <1>1, <1>3, CountedSums
<1>5. \A z \in Symbols :
        /\ \A t \in Directions : WeightedSum(W[z], t)' = WeightedSum(W[z], t)
        /\ SumFunctionOnSet(Plain', W[z]) = SumFunctionOnSet(Plain, W[z])
  <2> TAKE z \in Symbols
  <2> PICK X : X = W[z]
    OBVIOUS
  <2> PICK m : m = n + 1
    OBVIOUS
  <2>1. X \subseteq DOMAIN votes
    BY <1>2
  <2>2. Adds(v, m, X)
    BY <1>1, <2>1, VoteAdds
  <2>3. \A t \in Directions : WeightedSum(X, t)' = WeightedSum(W[z], t)'
    BY DEF WeightedSum
  <2> QED
    BY <2>2, <2>3 DEF Adds
<1>7. \A z \in Symbols : /\ m_symbolStates[z].buy = WeightedSum(W[z], "Buy")
                         /\ m_symbolStates[z].sell = WeightedSum(W[z], "Sell")
                         /\ m_symbolStates[z].weight = SumFunctionOnSet(Plain, W[z])
  BY <1>2 DEF VotesInv, VotesCountOnce, WeightsCountOnce
<1>8. \A z \in Symbols \ {y} : /\ m_symbolStates'[z].buy = WeightedSum(Waiting(z), "Buy")'
                               /\ m_symbolStates'[z].sell = WeightedSum(Waiting(z), "Sell")'
                               /\ m_symbolStates'[z].weight = SumFunctionOnSet(Plain', Waiting(z)')
  <2> SUFFICES ASSUME NEW z \in Symbols \ {y}
               PROVE  /\ m_symbolStates'[z].buy = WeightedSum(Waiting(z), "Buy")'
                      /\ m_symbolStates'[z].sell = WeightedSum(Waiting(z), "Sell")'
                      /\ m_symbolStates'[z].weight = SumFunctionOnSet(Plain', Waiting(z)')
    OBVIOUS
  <2>1. Waiting(z)' = W[z] /\ m_symbolStates'[z] = m_symbolStates[z]
    BY <1>1, <1>2
  <2>2. \A t : WeightedSum(Waiting(z), t)' = WeightedSum(W[z], t)'
    BY <2>1 DEF WeightedSum
  <2> QED
    BY <1>5, <1>7, <2>1, <2>2 DEF Directions
<1>9. CASE /\ ReachesThreshold(state) /\ CooledDown(state)
           /\ m_symbolStates' = [m_symbolStates EXCEPT ![y] = Cleared(state)]
           /\ emitted' = Append(emitted, Emission(y, state))
           /\ Waiting(y)' = {}
  <2> PICK e : e = Emission(y, state)
    OBVIOUS
  <2>1. e \in Emissions /\ e.upto = n + 1
    <3>1. Direction(state) \in Directions /\ state.market \in MarketNames /\ n + 1 \in Nat
      BY <1>4 DEF Direction, Directions, SymbolStates, VotesInv, VotesTypeOK
    <3> QED
      BY <1>3, <3>1 DEF Emission, Emissions
  <2>2. m_symbolStates' \in [Symbols -> SymbolStates] /\ m_symbolStates'[y] = Cleared(state)
    BY <1>3, <1>4, <1>9
  <2>3. VotesTypeOK'
    BY <1>1, <1>9, <2>1, <2>2 DEF VotesInv, VotesTypeOK, addSignal
  <2>4. EmittedOK'
    <3>1. /\ Len(votes') = n + 1 /\ n \in Nat
          /\ Len(emitted') = Len(emitted) + 1 /\ emitted'[Len(emitted) + 1] = e
          /\ \A i \in 1 .. Len(emitted) : emitted'[i] = emitted[i]
          /\ Len(emitted) \in Nat
      BY <1>1, <1>9, <2>1 DEF VotesInv, VotesTypeOK
    <3>2. \A i \in 1 .. Len(emitted) + 1 : i \in 1 .. Len(emitted) \/ i = Len(emitted) + 1
      BY <3>1
    <3>3. \A i \in 1 .. Len(emitted) : emitted[i].upto <= n /\ emitted[i].upto \in Nat
      <4>1. \A i \in 1 .. Len(emitted) : emitted[i] \in Emissions
        BY DEF VotesInv, VotesTypeOK
      <4> QED
        BY <4>1 DEF VotesInv, EmittedOK, Emissions
    <3> QED
      BY <2>1, <3>1, <3>2, <3>3 DEF EmittedOK
  <2>5. \A t : WeightedSum(Waiting(y), t)' = 0
    <3> TAKE t
    <3>1. {k \in {} : votes'[k].type = t} = {}
      OBVIOUS
    <3>2. \A f : SumFunctionOnSet(f, {}) = 0
      BY SumOfNone
    <3> QED
      BY <1>9, <3>1, <3>2 DEF WeightedSum
  <2>6. SumFunctionOnSet(Plain', Waiting(y)') = 0
    BY <1>9, SumOfNone
  <2>7. VotesCountOnce'
    BY <1>4, <1>8, <2>2, <2>5 DEF VotesCountOnce
  <2>8. WeightsCountOnce'
    BY <1>4, <1>8, <2>2, <2>6 DEF WeightsCountOnce
  <2> QED
    BY <2>3, <2>4, <2>7, <2>8 DEF VotesInv
<1>10. CASE /\ m_symbolStates' = [m_symbolStates EXCEPT ![y] = state]
            /\ emitted' = emitted
            /\ Waiting(y)' = Waiting(y) \cup {n + 1}
  <2>1. m_symbolStates' \in [Symbols -> SymbolStates] /\ m_symbolStates'[y] = state
    BY <1>3, <1>4, <1>10
  <2>2. VotesTypeOK'
    BY <1>1, <1>10, <2>1 DEF VotesInv, VotesTypeOK, addSignal
  <2>3. EmittedOK'
    <3>1. Len(votes') = n + 1 /\ n \in Nat
      BY <1>1 DEF VotesInv, VotesTypeOK
    <3>2. \A i \in 1 .. Len(emitted) : emitted[i].upto <= n /\ emitted[i].upto \in Nat
      <4>1. \A i \in 1 .. Len(emitted) : emitted[i] \in Emissions
        BY DEF VotesInv, VotesTypeOK
      <4> QED
        BY <4>1 DEF VotesInv, EmittedOK, Emissions
    <3> QED
      BY <1>10, <3>1, <3>2 DEF EmittedOK
  <2> PICK T : T = Waiting(y) \cup {n + 1}
    OBVIOUS
  <2>4. \A t : WeightedSum(Waiting(y), t)' = WeightedSum(T, t)'
    BY <1>10 DEF WeightedSum
  <2>5. /\ state.buy = WeightedSum(T, "Buy")'
        /\ state.sell = WeightedSum(T, "Sell")'
        /\ state.weight = SumFunctionOnSet(Plain', T)
    BY <1>1, CountedIsSum
  <2>6. /\ m_symbolStates'[y].buy = WeightedSum(Waiting(y), "Buy")'
        /\ m_symbolStates'[y].sell = WeightedSum(Waiting(y), "Sell")'
    BY <2>1, <2>4, <2>5
  <2>7. m_symbolStates'[y].weight = SumFunctionOnSet(Plain', Waiting(y)')
    BY <1>10, <2>1, <2>5
  <2>8. VotesCountOnce'
    BY <1>8, <2>6 DEF VotesCountOnce
  <2>9. WeightsCountOnce'
    BY <1>8, <2>7 DEF WeightsCountOnce
  <2> QED
    BY <2>2, <2>3, <2>8, <2>9 DEF VotesInv
<1>11. \/ /\ ReachesThreshold(state) /\ CooledDown(state)
          /\ m_symbolStates' = [m_symbolStates EXCEPT ![y] = Cleared(state)]
          /\ emitted' = Append(emitted, Emission(y, state))
          /\ Waiting(y)' = {}
       \/ /\ m_symbolStates' = [m_symbolStates EXCEPT ![y] = state]
          /\ emitted' = emitted
          /\ Waiting(y)' = Waiting(y) \cup {n + 1}
  BY VoteIsAdded
<1> QED
  BY <1>9, <1>10, <1>11

LEMMA VotesStep == VotesInv /\ [AggregatorNext]_aggregatorVars => VotesInv'
<1> SUFFICES ASSUME VotesInv, [AggregatorNext]_aggregatorVars PROVE VotesInv'
  OBVIOUS
<1>1. ASSUME NEW s \in Voters, NEW y \in Symbols, NEW d \in Directions, NEW c \in Confidences,
             addSignal(s, y, d, c)
      PROVE  VotesInv'
  BY <1>1, VotesStayCounted
<1>2. CASE reset
  <2>1. VotesTypeOK'
    BY <1>2, NoVotesType DEF reset, VotesInv, VotesTypeOK
  <2>2. EmittedOK'
    BY <1>2 DEF reset, EmittedOK
  <2>3. votes' = << >> /\ \A y \in Symbols : m_symbolStates'[y] = NoVotes
    BY <1>2 DEF reset
  <2>4. \A y \in Symbols : Waiting(y)' = {}
    BY <2>3 DEF Waiting
  <2>5. \A f : SumFunctionOnSet(f, {}) = 0
    BY SumOfNone
  <2>6. \A y \in Symbols, t \in Directions : WeightedSum(Waiting(y), t)' = 0
    <3> TAKE y \in Symbols, t \in Directions
    <3>1. {k \in {} : votes'[k].type = t} = {}
      OBVIOUS
    <3> QED
      BY <2>4, <2>5, <3>1 DEF WeightedSum
  <2>7. SumFunctionOnSet(Plain', {}) = 0
    BY SumOfNone
  <2>8. VotesCountOnce'
    BY <2>3, <2>6 DEF VotesCountOnce, NoVotes, Directions
  <2>9. WeightsCountOnce'
    <3>1. \A y \in Symbols : m_symbolStates'[y].weight = 0
      BY <2>3 DEF NoVotes
    <3> QED
      BY <2>4, <2>7, <3>1 DEF WeightsCountOnce
  <2> QED
    BY <2>1, <2>2, <2>8, <2>9 DEF VotesInv
<1>3. CASE secondPasses \/ UNCHANGED aggregatorVars
  <2>1. UNCHANGED <<m_symbolStates, votes, emitted>> /\ clock' \in Nat
    BY <1>3 DEF secondPasses, aggregatorVars, VotesInv, VotesTypeOK
  <2>2. VotesTypeOK'
    BY <2>1 DEF VotesInv, VotesTypeOK
  <2>3. EmittedOK'
    BY <2>1 DEF VotesInv, EmittedOK
  <2>4. \A y \in Symbols : Waiting(y)' = Waiting(y)
    BY <2>1 DEF Waiting
  <2>5. Plain' = Plain /\ \A y \in Symbols : \A t : WeightedSum(Waiting(y), t)' = WeightedSum(Waiting(y), t)
    BY <2>1, <2>4 DEF Plain, WeightedSum
  <2>6. VotesCountOnce'
    BY <2>1, <2>5 DEF VotesInv, VotesCountOnce
  <2>7. WeightsCountOnce'
    BY <2>1, <2>4, <2>5 DEF VotesInv, WeightsCountOnce
  <2> QED
    BY <2>2, <2>3, <2>6, <2>7 DEF VotesInv
<1> QED
  BY <1>1, <1>2, <1>3 DEF AggregatorNext

LEMMA VotesInvariant == AggregatorSpec => []VotesInv
  BY VotesStart, VotesStep, PTL DEF AggregatorSpec

\* The sums of a symbol are those of the votes since its last signal: a vote counts in one
\* signal and none is forgotten (SignalAggregator::addSignal and evaluateAndEmit).
THEOREM EachVoteCountsOnce == AggregatorSpec => []VotesCountOnce
<1>1. VotesInv => VotesCountOnce
  BY DEF VotesInv
<1> QED
  BY <1>1, VotesInvariant, PTL

\* When the mean of a symbol reaches the threshold, so does a vote for the direction that
\* prevails.
LEMMA MeanHasAVote ==
  ASSUME threshold # 0, VotesInv, VotesInv', NEW y \in Symbols, NEW v \in Votes, votes' = Append(votes, v),
         NEW state, state = Counted(m_symbolStates[y], v), ReachesThreshold(state)
  PROVE  \E k \in Waiting(y) \cup {Len(votes) + 1} :
           votes'[k].type = Direction(state) /\ votes'[k].confidence >= threshold
<1> PICK T : T = Waiting(y) \cup {Len(votes) + 1}
  OBVIOUS
<1> PICK way, sum, weight : way = Direction(state) /\ sum = aggregatedConfidence(state) /\ weight = state.weight
  OBVIOUS
<1> PICK f, w, S : f = Weighted' /\ w = Plain' /\ S = {k \in T : votes'[k].type = way}
  OBVIOUS
<1>0. ASSUME \E k \in S : votes'[k].confidence >= threshold
      PROVE  \E k \in Waiting(y) \cup {Len(votes) + 1} :
               votes'[k].type = Direction(state) /\ votes'[k].confidence >= threshold
  BY <1>0
<1> SUFFICES ASSUME \A k \in S : ~ (votes'[k].confidence >= threshold)
             PROVE  FALSE
  BY <1>0
<1>1. /\ state \in SymbolStates
      /\ state.buy = WeightedSum(T, "Buy")'
      /\ state.sell = WeightedSum(T, "Sell")'
      /\ weight = SumFunctionOnSet(w, T)
  BY CountedIsSum
<1>2. sum = SumFunctionOnSet(f, S)
  <2>1. \A t : WeightedSum(T, t)' = SumFunctionOnSet(f, {k \in T : votes'[k].type = t})
    BY DEF WeightedSum, Weighted
  <2>2. WeightedSum(T, way)' = SumFunctionOnSet(f, S)
    BY <2>1
  <2>3. CASE state.buy >= state.sell
    <3>1. way = "Buy" /\ sum = state.buy
      BY <2>3 DEF Direction, aggregatedConfidence
    <3>2. WeightedSum(T, way)' = WeightedSum(T, "Buy")'
      BY <3>1 DEF WeightedSum
    <3> QED
      BY <1>1, <2>2, <3>1, <3>2
  <2>4. CASE ~ (state.buy >= state.sell)
    <3>1. way = "Sell" /\ sum = state.sell
      BY <2>4 DEF Direction, aggregatedConfidence
    <3>2. WeightedSum(T, way)' = WeightedSum(T, "Sell")'
      BY <3>1 DEF WeightedSum
    <3> QED
      BY <1>1, <2>2, <3>1, <3>2
  <2> QED
    BY <2>3, <2>4
<1>3. T \subseteq 1 .. Len(votes')
  BY VoteWaits DEF Waiting
<1>4. IsFiniteSet(T) /\ S \in SUBSET T
  <2>1. IsFiniteSet(1 .. Len(votes'))
    BY VoteWaits, FS_Interval
  <2> QED
    BY <1>3, <2>1, FS_Subset
<1> PICK c : c = threshold - 1
  OBVIOUS
<1>5. threshold \in Nat /\ c \in Nat /\ threshold = c + 1
  BY AggregatorAssumption
<1>6. \A k \in T : /\ w[k] \in Nat /\ f[k] \in Nat
                   /\ votes'[k] \in Votes
                   /\ f[k] = votes'[k].confidence * w[k]
                   /\ votes'[k].confidence \in Nat
  <2>1. \A k \in 1 .. Len(votes') : votes'[k] \in Votes
    BY DEF VotesInv, VotesTypeOK
  <2>2. \A k \in 1 .. Len(votes') : /\ f[k] = votes'[k].confidence * Weights[votes'[k].strategy]
                                   /\ w[k] = Weights[votes'[k].strategy]
    BY VoteWaits DEF Weighted, Plain
  <2>3. ASSUME NEW k \in T
        PROVE  /\ w[k] \in Nat /\ f[k] \in Nat /\ votes'[k] \in Votes
               /\ f[k] = votes'[k].confidence * w[k] /\ votes'[k].confidence \in Nat
    <3>1. k \in 1 .. Len(votes')
      BY <1>3
    <3>2. PICK x \in Votes : x = votes'[k]
      BY <2>1, <3>1
    <3>3. Weights[x.strategy] \in Nat /\ x.confidence \in Nat /\ x.confidence * Weights[x.strategy] \in Nat
      BY WeightIsNat
    <3>4. f[k] = x.confidence * Weights[x.strategy] /\ w[k] = Weights[x.strategy]
      BY <2>2, <3>1, <3>2
    <3> QED
      BY ONLY <3>2, <3>3, <3>4
  <2> QED
    BY <2>3
<1>7. ASSUME NEW k \in S
      PROVE  f[k] \in Int /\ f[k] <= c * w[k]
  <2>1. k \in T
    OBVIOUS
  <2>0. PICK a, b : a = votes'[k].confidence /\ b = w[k]
    OBVIOUS
  <2>2. a \in Nat /\ b \in Nat /\ f[k] = a * b
    BY <1>6, <2>0, <2>1
  <2>3. ~ (a >= threshold)
    BY <2>0
  <2>10. PICK e : e = c - a
    OBVIOUS
  <2>4. e \in Nat /\ c = a + e
    BY ONLY <1>5, <2>2, <2>3, <2>10
  <2>5. (a + e) * b = a * b + e * b
    BY ONLY <2>2, <2>4
  <2>6. \A i, j \in Nat : i * j \in Nat
    OBVIOUS
  <2>7. a * b \in Nat /\ e * b \in Nat
    BY ONLY <2>2, <2>4, <2>6
  <2>8. c * b = a * b + e * b
    BY <2>4, <2>5
  <2>9. f[k] <= c * b
    BY ONLY <2>2, <2>7, <2>8
  <2>11. f[k] \in Int
    BY ONLY <2>2, <2>7
  <2> QED
    BY ONLY <2>0, <2>9, <2>11
<1>8. /\ SumFunctionOnSet(w, T) \in Nat
      /\ SumFunctionOnSet(f, S) <= c * SumFunctionOnSet(w, T)
  <2>1. \A k \in S : f[k] \in Int /\ f[k] <= c * w[k]
    BY <1>7
  <2>2. \A k \in T : w[k] \in Nat
    BY <1>6
  <2> QED
    BY <1>4, <1>5, <2>1, <2>2, SumIsBounded
<1>9. weight \in Nat /\ sum \in Nat /\ sum <= c * weight
  BY <1>1, <1>2, <1>8 DEF aggregatedConfidence, SymbolStates
<1>10. sum >= threshold * (IF weight > 0 THEN weight ELSE 1)
  BY DEF ReachesThreshold
<1>11. CASE weight = 0
  <2>1. c * 0 = 0 /\ threshold * 1 = threshold
    BY <1>5
  <2> QED
    BY <1>5, <1>9, <1>10, <1>11, <2>1
<1>12. CASE weight > 0
  <2>1. threshold * weight = c * weight + weight /\ c * weight \in Nat
    BY <1>5, <1>9
  <2> QED
    BY <1>9, <1>10, <1>12, <2>1
<1> QED
  BY <1>9, <1>11, <1>12

Convinced(i) == \E k \in VotesOf(i) : votes[k].type = emitted[i].type /\ votes[k].confidence >= threshold

\* The votes of a signal stay what they were.
LEMMA SignalsStay ==
  ASSUME VotesInv, NEW v \in Votes, votes' = Append(votes, v), NEW i \in 1 .. Len(emitted),
         \A j \in 1 .. i : emitted'[j] = emitted[j], Convinced(i)
  PROVE  Convinced(i)'
<1>1. /\ Len(votes) \in Nat /\ DOMAIN votes = 1 .. Len(votes) /\ DOMAIN votes' = 1 .. Len(votes) + 1
      /\ \A k \in 1 .. Len(votes) : votes'[k] = votes[k]
  BY VoteWaits
<1>2. PICK k \in VotesOf(i) : votes[k].type = emitted[i].type /\ votes[k].confidence >= threshold
  BY DEF Convinced
<1>3. k \in 1 .. Len(votes) /\ k \in DOMAIN votes' /\ votes'[k] = votes[k] /\ emitted'[i] = emitted[i]
  BY <1>1, <1>2 DEF VotesOf
<1>4. k \in VotesOf(i)'
  <2>1. /\ votes[k].symbol = emitted[i].symbol /\ k <= emitted[i].upto
        /\ \A j \in 1 .. i - 1 : emitted[j].symbol = emitted[i].symbol => emitted[j].upto < k
    BY <1>2 DEF VotesOf
  <2>2. \A j \in 1 .. i - 1 : emitted'[j] = emitted[j]
    OBVIOUS
  <2> QED
    BY <1>3, <2>1, <2>2 DEF VotesOf
<1> QED
  BY <1>2, <1>3, <1>4 DEF Convinced

LEMMA ConvictionStep ==
  ASSUME threshold # 0, VotesInv, VotesInv', EmissionsHaveConviction, [AggregatorNext]_aggregatorVars
  PROVE  EmissionsHaveConviction'
<1>1. /\ Len(emitted) \in Nat /\ DOMAIN emitted = 1 .. Len(emitted)
      /\ \A i \in 1 .. Len(emitted) : Convinced(i)
  BY DEF VotesInv, VotesTypeOK, EmissionsHaveConviction, Convinced
<1>2. ASSUME NEW s \in Voters, NEW y \in Symbols, NEW d \in Directions, NEW c \in Confidences,
             addSignal(s, y, d, c)
      PROVE  EmissionsHaveConviction'
  <2> PICK n, v, state :
        /\ n = Len(votes)
        /\ v = [strategy |-> s, symbol |-> y, type |-> d, confidence |-> c]
        /\ state = Counted(m_symbolStates[y], v)
    OBVIOUS
  <2> PICK e, l : e = Emission(y, state) /\ l = Len(emitted)
    OBVIOUS
  <2>1. /\ v \in Votes /\ votes' = Append(votes, v)
        /\ \/ ReachesThreshold(state) /\ emitted' = Append(emitted, e)
           \/ emitted' = emitted
    BY <1>2, VoteIsAdded
  <2>2. CASE emitted' = emitted
    <3>1. \A i \in 1 .. l : Convinced(i)'
      BY <1>1, <2>1, <2>2, SignalsStay
    <3> QED
      BY <1>1, <2>2, <3>1 DEF EmissionsHaveConviction, Convinced
  <2>3. CASE ReachesThreshold(state) /\ emitted' = Append(emitted, e)
    <3>1. /\ l \in Nat /\ DOMAIN emitted' = 1 .. l + 1
          /\ \A j \in 1 .. l : emitted'[j] = emitted[j]
          /\ emitted'[l + 1] = e
      BY <1>1, <2>3 DEF VotesInv, VotesTypeOK
    <3>2. \A i \in 1 .. l : Convinced(i)'
      <4> TAKE i \in 1 .. l
      <4>1. \A j \in 1 .. i : j \in 1 .. l
        BY <3>1
      <4> QED
        BY <1>1, <2>1, <3>1, <4>1, SignalsStay
    <3>3. Convinced(l + 1)'
      <4>0. state = Counted(m_symbolStates[y], v) /\ ReachesThreshold(state) /\ n = Len(votes)
        BY <2>3
      <4>1. PICK k \in Waiting(y) \cup {n + 1} :
              votes'[k].type = Direction(state) /\ votes'[k].confidence >= threshold
        BY <2>1, <4>0, MeanHasAVote
      <4>2. e.type = Direction(state) /\ e.symbol = y /\ e.upto = n + 1
        BY DEF Emission
      <4>3. /\ n \in Nat /\ DOMAIN votes = 1 .. n /\ DOMAIN votes' = 1 .. n + 1
            /\ \A h \in 1 .. n : votes'[h] = votes[h]
            /\ votes'[n + 1] = v
        BY <2>1, VoteWaits
      <4>4. /\ k \in 1 .. n + 1 /\ votes'[k].symbol = y
            /\ \A j \in 1 .. l : emitted[j].symbol = y => emitted[j].upto < k
        <5>1. CASE k = n + 1
          <6>1. \A j \in 1 .. l : emitted[j].upto <= n /\ emitted[j].upto \in Nat
            <7>1. \A j \in 1 .. l : emitted[j] \in Emissions
              BY DEF VotesInv, VotesTypeOK
            <7> QED
              BY <7>1 DEF VotesInv, EmittedOK, Emissions
          <6> QED
            BY <4>3, <5>1, <6>1
        <5>2. CASE k \in Waiting(y)
          BY <1>1, <4>3, <4>0, <5>2 DEF Waiting
        <5> QED
          BY <4>1, <5>1, <5>2
      <4>5. k \in VotesOf(l + 1)'
        <5>1. \A j \in 1 .. (l + 1) - 1 : j \in 1 .. l
          BY <3>1
        <5>2. k <= n + 1
          BY <4>3, <4>4
        <5> QED
          BY <3>1, <4>2, <4>3, <4>4, <5>1, <5>2 DEF VotesOf
      <4> QED
        BY <3>1, <4>1, <4>2, <4>5 DEF Convinced
    <3>4. \A i \in 1 .. l + 1 : i \in 1 .. l \/ i = l + 1
      BY <3>1
    <3>5. \A i \in 1 .. l + 1 : Convinced(i)'
      BY <3>2, <3>3, <3>4
    <3> QED
      BY <3>1, <3>5 DEF EmissionsHaveConviction, Convinced
  <2> QED
    BY <2>1, <2>2, <2>3
<1>3. CASE reset
  BY <1>3 DEF reset, EmissionsHaveConviction
<1>4. CASE secondPasses \/ UNCHANGED aggregatorVars
  BY <1>4 DEF secondPasses, aggregatorVars, EmissionsHaveConviction, VotesOf
<1> QED
  BY <1>2, <1>3, <1>4 DEF AggregatorNext

\* Without a vote as strong as the threshold there is no signal, unless the threshold is 0
\* (evaluateAndEmit compares the mean of the votes, not their sum).
THEOREM SignalsHaveConviction ==
  ASSUME threshold # 0
  PROVE  AggregatorSpec => []EmissionsHaveConviction
<1>1. AggregatorInit => EmissionsHaveConviction
  BY DEF AggregatorInit, EmissionsHaveConviction
<1>2. /\ VotesInv /\ VotesInv' /\ EmissionsHaveConviction
      /\ [AggregatorNext]_aggregatorVars
      => EmissionsHaveConviction'
  BY ConvictionStep
<1> QED
  BY <1>1, <1>2, VotesInvariant, PTL DEF AggregatorSpec

-----------------------------------------------------------------------------
(* The SuperTrend line                                                     *)

\* The variables SuperTrendScalper computes with have their types.
TrendTypeOK ==
  /\ candles \in Seq(Candles)
  /\ bands \in [upper : Int, lower : Int, close : Int, bullish : BOOLEAN, hasPrev : BOOLEAN]

\* The last close is on the side of the trend: what keeps a band that does not tighten.
CloseIsWithTheTrend ==
  bands.hasPrev /\ bands.lower <= bands.upper =>
    IF bands.bullish THEN bands.close >= bands.lower ELSE bands.close <= bands.upper

TrendInv == TrendTypeOK /\ CloseIsWithTheTrend

-----------------------------------------------------------------------------
(* Operators of the scalpers                                               *)

LEMMA LongestType == Longest \in Nat \ {0}
BY ScalpersAssumption DEF Longest, LargestOf

\* The last candles are candles.
LEMMA LastOfType ==
  ASSUME NEW seq \in Seq(Candles), NEW n \in Nat
  PROVE  LastOf(seq, n) \in Seq(Candles)
<1>1. CASE Len(seq) <= n
  BY <1>1 DEF LastOf
<1>2. CASE Len(seq) > n
  <2>1. \A i \in Len(seq) - n + 1 .. Len(seq) : seq[i] \in Candles
    BY <1>2
  <2>2. SubSeq(seq, Len(seq) - n + 1, Len(seq)) \in Seq(Candles)
    BY <2>1, SubSeqProperties
  <2> QED BY <1>2, <2>2 DEF LastOf
<1> QED BY <1>1, <1>2

LEMMA TrueRangeType ==
  ASSUME NEW k \in Candles, NEW previous \in Candles
  PROVE  TrueRange(k, previous) \in Int
<1>1. k.high \in Int /\ k.low \in Int /\ previous.close \in Int
  BY ScalpersAssumption
<1>2. \A a, b \in Int : LargestOf(a, b) \in Int
  BY DEF LargestOf
<1>3. \A a, b \in Int : a - b \in Int
  OBVIOUS
<1> QED BY <1>1, <1>2, <1>3 DEF TrueRange

\* The ranges have finitely many units, which can be counted.
LEMMA SumOfRangesType ==
  ASSUME NEW ks \in Seq(Candles)
  PROVE  SumOfRanges(ks) \in Nat
<1> DEFINE U(i) == {i} \X (1 .. TrueRange(ks[i], ks[i - 1]))
           I == 2 .. Len(ks)
           T == {U(i) : i \in I}
<1>1. IsFiniteSet(I)
  BY FS_Interval
<1>2. \A i \in I : IsFiniteSet(U(i))
  <2> TAKE i \in I
  <2>1. ks[i] \in Candles /\ ks[i - 1] \in Candles
    OBVIOUS
  <2>2. IsFiniteSet(1 .. TrueRange(ks[i], ks[i - 1]))
    <3>1. TrueRange(ks[i], ks[i - 1]) \in Int
      BY <2>1, TrueRangeType
    <3>2. \A n \in Int : IsFiniteSet(1 .. n)
      BY FS_Interval
    <3> QED BY <3>1, <3>2
  <2>3. IsFiniteSet({i})
    BY FS_Singleton
  <2> QED BY <2>2, <2>3, FS_Product
<1>3. IsFiniteSet(T)
  <2> DEFINE f == [i \in I |-> U(i)]
  <2>1. f \in Surjection(I, T)
    BY DEF Surjection
  <2>2. IsFiniteSet(T)
    <3> HIDE DEF T, f
    <3> QED BY <1>1, <2>1, FS_Surjection
  <2> QED BY <2>2
<1>4. \A S \in T : IsFiniteSet(S)
  BY <1>2
<1>5. IsFiniteSet(UNION T)
  <2> HIDE DEF T
  <2> QED BY <1>3, <1>4, FS_UNION
<1> QED BY <1>5, FS_CardinalityType DEF SumOfRanges

-----------------------------------------------------------------------------
(* The bands                                                               *)

\* New bands are where they were, or basic; uncrossed they have the close on the side of
\* the trend.
LEMMA NextBandsKeep ==
  ASSUME TrendInv, NEW basic_upper \in Int, NEW basic_lower \in Int, NEW close \in Int,
         NEW middle \in Int, basic_lower <= middle, middle <= basic_upper,
         bands' = NextBands(bands, basic_upper, basic_lower, close, middle)
  PROVE  /\ bands' \in [upper : Int, lower : Int, close : Int, bullish : BOOLEAN, hasPrev : BOOLEAN]
         /\ CloseIsWithTheTrend'
<1> DEFINE upper == FinalUpper(bands, basic_upper)
           lower == FinalLower(bands, basic_lower)
           bullish == Bullish(bands, close, upper, lower, middle)
<1>1. upper \in Int /\ lower \in Int
  BY DEF FinalUpper, FinalLower, TrendInv, TrendTypeOK
<1>2. bullish \in BOOLEAN
  BY Zenon DEF Bullish
<1>3. bands' = [upper |-> upper, lower |-> lower, close |-> close, bullish |-> bullish,
                hasPrev |-> TRUE]
  BY DEF NextBands
<1>4. ~bands.hasPrev => upper = basic_upper /\ lower = basic_lower
  BY DEF FinalUpper, FinalLower
<1>5. lower <= upper => IF bullish THEN close >= lower ELSE close <= upper
  <2> SUFFICES ASSUME lower <= upper PROVE IF bullish THEN close >= lower ELSE close <= upper
    OBVIOUS
  <2>1. CASE ~bands.hasPrev
    BY <1>1, <1>4, <2>1 DEF Bullish
  <2>2. CASE bands.hasPrev /\ bands.bullish
    BY <1>1, <2>2 DEF Bullish
  <2>3. CASE bands.hasPrev /\ ~bands.bullish
    BY <1>1, <2>3 DEF Bullish
  <2> QED BY <2>1, <2>2, <2>3
<1> HIDE DEF upper, lower, bullish
<1>6. bands' \in [upper : Int, lower : Int, close : Int, bullish : BOOLEAN, hasPrev : BOOLEAN]
  BY <1>1, <1>2, <1>3
<1>7. CloseIsWithTheTrend'
  BY <1>3, <1>5 DEF CloseIsWithTheTrend
<1> QED BY <1>6, <1>7

\* The band that follows the trend moves with it or stays.
LEMMA NextBandsTighten ==
  ASSUME TrendInv, NEW basic_upper \in Int, NEW basic_lower \in Int, NEW close, NEW middle,
         bands' = NextBands(bands, basic_upper, basic_lower, close, middle),
         bands.hasPrev, bands.lower <= bands.upper
  PROVE  IF bands.bullish THEN bands'.lower >= bands.lower ELSE bands'.upper <= bands.upper
<1>1. /\ bands'.upper = FinalUpper(bands, basic_upper)
      /\ bands'.lower = FinalLower(bands, basic_lower)
  BY DEF NextBands
<1>2. CASE bands.bullish
  BY <1>1, <1>2 DEF FinalLower, TrendInv, TrendTypeOK, CloseIsWithTheTrend
<1>3. CASE ~bands.bullish
  BY <1>1, <1>3 DEF FinalUpper, TrendInv, TrendTypeOK, CloseIsWithTheTrend
<1> QED BY <1>2, <1>3 DEF TrendInv, TrendTypeOK

\* What onKline computes of the candles are basic bands around the middle.
LEMMA BasicBands ==
  ASSUME TrendInv, onKlineSuperTrend, bands' # bands
  PROVE  \E basic_upper, basic_lower, close, middle \in Int :
           /\ basic_lower <= middle /\ middle <= basic_upper
           /\ bands' = NextBands(bands, basic_upper, basic_lower, close, middle)
<1> DEFINE ks == LastOf(candles, supertrend_period + 1)
           newest == ks[Len(ks)]
           middle == supertrend_period * (newest.high + newest.low)
           sum == SumOfRanges(ks)
<1>1. ~(Len(ks) <= supertrend_period \/ sum <= 0)
  BY DEF onKlineSuperTrend
<1>2. PICK multiplier \in Multipliers :
        bands' = NextBands(bands, middle + 2 * multiplier * sum, middle - 2 * multiplier * sum,
                           Scale(newest.close), middle)
  BY <1>1 DEF onKlineSuperTrend, followsTrend
<1>3. ks \in Seq(Candles)
  <2>1. supertrend_period + 1 \in Nat
    BY ScalpersAssumption
  <2> QED BY <2>1, LastOfType DEF TrendInv, TrendTypeOK
<1>4. sum \in Nat
  BY <1>3, SumOfRangesType
<1>5. newest \in Candles
  <2> HIDE DEF ks
  <2> QED BY <1>1, <1>3, ScalpersAssumption
<1>6. newest.high \in Int /\ newest.low \in Int /\ newest.close \in Int
  BY <1>5, ScalpersAssumption
<1> HIDE DEF ks, newest, sum
<1>7. \A a, b \in Int : a * b \in Int
  OBVIOUS
<1>8. \A a, b \in Nat : a * b \in Nat
  OBVIOUS
<1>9. middle \in Int
  BY <1>6, <1>7, ScalpersAssumption
<1>10. Scale(newest.close) \in Int
  <2>1. 2 * supertrend_period \in Int
    BY ScalpersAssumption
  <2> QED BY <1>6, <1>7, <2>1 DEF Scale
<1>11. 2 * multiplier * sum \in Nat
  <2>1. 2 * multiplier \in Nat
    BY ScalpersAssumption
  <2> QED BY <1>4, <1>8, <2>1
<1> DEFINE width == 2 * multiplier * sum
<1>12. /\ middle + width \in Int /\ middle - width \in Int
       /\ middle - width <= middle /\ middle <= middle + width
  <2> HIDE DEF width, middle
  <2>1. width \in Nat
    BY <1>11 DEF width
  <2> QED BY <1>9, <2>1
<1> QED BY <1>2, <1>9, <1>10, <1>12

-----------------------------------------------------------------------------

LEMMA TrendStarts == ScalperInit => TrendInv
BY DEF ScalperInit, TrendInv, TrendTypeOK, CloseIsWithTheTrend, NoBands

LEMMA TrendStep == TrendInv /\ [ScalperNext]_scalperVars => TrendInv'
<1> SUFFICES ASSUME TrendInv, [ScalperNext]_scalperVars PROVE TrendInv'
  OBVIOUS
<1>1. candles' \in Seq(Candles)
  <2>1. CASE newCandle
    <3>1. PICK k \in Candles : candles' = LastOf(Append(candles, k), Longest)
      BY <2>1 DEF newCandle
    <3>2. Append(candles, k) \in Seq(Candles)
      BY DEF TrendInv, TrendTypeOK
    <3> QED BY <3>1, <3>2, LastOfType, LongestType
  <2>2. CASE updateCandle
    <3>1. PICK k \in Candles : candles' = LastOf(Append(candles, k), Longest)
      BY <2>2 DEF updateCandle
    <3>2. Append(candles, k) \in Seq(Candles)
      BY DEF TrendInv, TrendTypeOK
    <3> QED BY <3>1, <3>2, LastOfType, LongestType
  <2>3. CASE UNCHANGED candles
    BY <2>3 DEF TrendInv, TrendTypeOK
  <2> QED
    BY <2>1, <2>2, <2>3 DEF ScalperNext, scalperVars, feedVars, secondGoes, findsCandle,
       onKlineSuperTrend, onKlineMomentum, onKlineReversion, onOrderbook
<1>2. /\ bands' \in [upper : Int, lower : Int, close : Int, bullish : BOOLEAN, hasPrev : BOOLEAN]
      /\ CloseIsWithTheTrend'
  <2>1. CASE bands' = bands
    BY <2>1 DEF TrendInv, TrendTypeOK, CloseIsWithTheTrend
  <2>2. CASE onKlineSuperTrend /\ bands' # bands
    <3>1. PICK basic_upper, basic_lower, close, middle \in Int :
            /\ basic_lower <= middle /\ middle <= basic_upper
            /\ bands' = NextBands(bands, basic_upper, basic_lower, close, middle)
      BY <2>2, BasicBands
    <3> QED BY <3>1, NextBandsKeep
  <2> QED
    BY <2>1, <2>2 DEF ScalperNext, scalperVars, stateVars, newCandle, updateCandle, secondGoes,
       findsCandle, onKlineMomentum, onKlineReversion, onOrderbook
<1> QED BY <1>1, <1>2 DEF TrendInv, TrendTypeOK

\* The lower band does not fall in a rising trend, and the upper one does not rise in a
\* falling one, as long as they have not crossed (SuperTrendScalper::onKline).
THEOREM TrendLineTightens == ScalperSpec => TrendLineOnlyTightens
<1> DEFINE Tightens ==
      bands.hasPrev /\ bands.lower <= bands.upper /\ bands'.bullish = bands.bullish =>
        IF bands.bullish THEN bands'.lower >= bands.lower ELSE bands'.upper <= bands.upper
<1>1. TrendInv /\ [ScalperNext]_scalperVars => [Tightens]_scalperVars
  <2> SUFFICES ASSUME TrendInv, [ScalperNext]_scalperVars,
                      bands.hasPrev, bands.lower <= bands.upper
               PROVE  IF bands.bullish THEN bands'.lower >= bands.lower ELSE bands'.upper <= bands.upper
    OBVIOUS
  <2>1. CASE bands' = bands
    BY <2>1 DEF TrendInv, TrendTypeOK
  <2>2. CASE onKlineSuperTrend /\ bands' # bands
    <3>1. PICK basic_upper, basic_lower, close, middle \in Int :
            /\ basic_lower <= middle /\ middle <= basic_upper
            /\ bands' = NextBands(bands, basic_upper, basic_lower, close, middle)
      BY <2>2, BasicBands
    <3> QED BY <3>1, NextBandsTighten
  <2> QED
    BY <2>1, <2>2 DEF ScalperNext, scalperVars, stateVars, newCandle, updateCandle, secondGoes,
       findsCandle, onKlineMomentum, onKlineReversion, onOrderbook
<1>2. ScalperSpec => []TrendInv
  BY TrendStarts, TrendStep, PTL DEF ScalperSpec
<1> QED BY <1>1, <1>2, PTL DEF ScalperSpec, TrendLineOnlyTightens
=============================================================================
