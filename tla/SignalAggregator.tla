--------------------------- MODULE SignalAggregator ---------------------------
(***************************************************************************)
(* Weighted voting (src/strategy/signal/SignalAggregator): strategies add  *)
(* signals, and the votes for a symbol are emitted as one signal when their*)
(* weighted mean reaches a threshold and the cooldown is over.  A mutex is *)
(* held through each call, the output callback included, so a call is one  *)
(* step.                                                                   *)
(*                                                                         *)
(* Confidences and the threshold are whole tenths, weights whole numbers,  *)
(* and the clock counts seconds; it does not go back.                      *)
(***************************************************************************)
EXTENDS Integers, Sequences, Functions

CONSTANTS
  Symbols,
  Weights,              \* strategy -> weight; 1 unless setWeight was called
  Markets,              \* strategy -> the market of its configuration
  Confidences,          \* the confidences strategies vote with
  threshold,            \* signal_aggregator_threshold
  cooldown,             \* signal_cooldown_sec
  MaxVotes,             \* bound of a run: votes
  MaxTime               \* bound of a run: seconds

Voters == DOMAIN Weights

ASSUME AggregatorAssumption ==
  /\ DOMAIN Markets = DOMAIN Weights
  /\ \A s \in DOMAIN Weights : Weights[s] \in Nat
  /\ Confidences \subseteq 0 .. 10
  /\ threshold \in 0 .. 10
  /\ {cooldown, MaxVotes, MaxTime} \subseteq Nat

VARIABLES
  m_symbolStates,  \* symbol -> sums, market of the last vote, last emission
  m_signalCount,
  clock,
  votes,           \* history: votes that counted, in order, since a reset
  emitted          \* history: the consolidated signals since a reset

aggregatorVars == <<m_symbolStates, m_signalCount, clock, votes, emitted>>

Directions == {"Buy", "Sell"}

\* last_signal is -cooldown where the code has 0, the epoch: long ago.
NoVotes == [buy |-> 0, sell |-> 0, weight |-> 0, market |-> "Spot",
            last_signal |-> -cooldown]

AggregatorInit ==
  /\ m_symbolStates = [y \in Symbols |-> NoVotes]
  /\ m_signalCount = 0
  /\ clock = 0
  /\ votes = << >>
  /\ emitted = << >>

-----------------------------------------------------------------------------

\* A vote is added to the sums of its symbol.
Counted(state, v) ==
  LET weighted == v.confidence * Weights[v.strategy]
  IN [state EXCEPT !.buy = IF v.type = "Buy" THEN @ + weighted ELSE @,
                   !.sell = IF v.type = "Sell" THEN @ + weighted ELSE @,
                   !.weight = @ + Weights[v.strategy],
                   !.market = Markets[v.strategy]]

Direction(state) == IF state.buy >= state.sell THEN "Buy" ELSE "Sell"

\* What aggregatedConfidence reports: a sum.
aggregatedConfidence(state) == IF state.buy >= state.sell THEN state.buy ELSE state.sell

\* Fault: the sum is compared, not the mean.
ReachesThreshold_Sum(state) == aggregatedConfidence(state) >= threshold

\* The mean weighted by all votes of the symbol, compared without a division.
ReachesThreshold(state) ==
  aggregatedConfidence(state) >=
    threshold * (IF state.weight > 0 THEN state.weight ELSE 1)

CooledDown(state) == clock - state.last_signal >= cooldown

\* Fault: the votes of the losing side stay.
Cleared_Dominant(state) ==
  [state EXCEPT !.buy = IF Direction(state) = "Buy" THEN 0 ELSE @,
                !.sell = IF Direction(state) = "Sell" THEN 0 ELSE @,
                !.weight = 0, !.last_signal = clock]

Cleared(state) == [state EXCEPT !.buy = 0, !.sell = 0, !.weight = 0,
                                !.last_signal = clock]

Emission(y, state) ==
  [type |-> Direction(state), symbol |-> y, market |-> state.market,
   time |-> clock, upto |-> Len(votes) + 1]

\* addSignal with evaluateAndEmit; a Flat signal returns at once.
addSignal(s, y, d, c) ==
  LET v == [strategy |-> s, symbol |-> y, type |-> d, confidence |-> c]
      state == Counted(m_symbolStates[y], v)
      emits == ReachesThreshold(state) /\ CooledDown(state)
  IN /\ m_signalCount < MaxVotes
     /\ m_signalCount' = m_signalCount + 1
     /\ votes' = Append(votes, v)
     /\ m_symbolStates' = [m_symbolStates EXCEPT
                             ![y] = IF emits THEN Cleared(state) ELSE state]
     /\ emitted' = IF emits THEN Append(emitted, Emission(y, state)) ELSE emitted
     /\ UNCHANGED clock

reset ==
  /\ m_signalCount > 0
  /\ m_symbolStates' = [y \in Symbols |-> NoVotes]
  /\ m_signalCount' = 0
  /\ votes' = << >>
  /\ emitted' = << >>
  /\ UNCHANGED clock

secondPasses ==
  /\ clock < MaxTime
  /\ clock' = clock + 1
  /\ UNCHANGED <<m_symbolStates, m_signalCount, votes, emitted>>

AggregatorNext ==
  \/ \E s \in Voters, y \in Symbols, d \in Directions, c \in Confidences :
       addSignal(s, y, d, c)
  \/ reset
  \/ secondPasses

AggregatorSpec == AggregatorInit /\ [][AggregatorNext]_aggregatorVars

-----------------------------------------------------------------------------
(* Properties                                                              *)

\* The votes an emission was made of: those of its symbol after the emission
\* before it.
VotesOf(i) ==
  {k \in DOMAIN votes :
     /\ votes[k].symbol = emitted[i].symbol
     /\ k <= emitted[i].upto
     /\ \A j \in 1 .. i - 1 : emitted[j].symbol = emitted[i].symbol => emitted[j].upto < k}

\* The votes of a symbol no emission was made of yet.
Waiting(y) ==
  {k \in DOMAIN votes :
     /\ votes[k].symbol = y
     /\ \A j \in DOMAIN emitted : emitted[j].symbol = y => emitted[j].upto < k}

\* What the votes at some places weigh for a direction.
WeightedSum(S, d) ==
  SumFunctionOnSet([k \in DOMAIN votes |-> votes[k].confidence * Weights[votes[k].strategy]],
                   {k \in S : votes[k].type = d})

\* The sums of a symbol are those of the votes that wait: a vote counts in one
\* emission, and none is forgotten.
VotesCountOnce ==
  \A y \in Symbols :
    /\ m_symbolStates[y].buy = WeightedSum(Waiting(y), "Buy")
    /\ m_symbolStates[y].sell = WeightedSum(Waiting(y), "Sell")

\* No crowd of weak votes makes a signal: one of the votes an emission is made
\* of has its direction and reaches the threshold alone.
EmissionsHaveConviction ==
  \A i \in DOMAIN emitted :
    \E k \in VotesOf(i) : votes[k].type = emitted[i].type /\ votes[k].confidence >= threshold

\* A symbol whose aggregated confidence exceeds the threshold has emitted, once
\* the cooldown is over (SignalAggregator.hpp).
ExceedingIsEmitted ==
  \A y \in Symbols :
    aggregatedConfidence(m_symbolStates[y]) > threshold => ~ CooledDown(m_symbolStates[y])

\* An emission goes to the market of a strategy that voted for it
\* (StrategyManager.cpp).
RoutedToAVoter ==
  \A i \in DOMAIN emitted :
    \E k \in VotesOf(i) :
      votes[k].type = emitted[i].type /\ Markets[votes[k].strategy] = emitted[i].market

=============================================================================
