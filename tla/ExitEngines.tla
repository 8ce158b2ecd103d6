----------------------------- MODULE ExitEngines -----------------------------
(***************************************************************************)
(* The engines that decide when a position is left (src/risk): stop losses *)
(* of three modes (StopLossEngine) and a ladder of take-profit targets     *)
(* (TakeProfitEngine).  Their owner registers a position with each, calls  *)
(* evaluate with the positions that are open at the time, and removes a    *)
(* position it closed; the marks move between evaluations.                 *)
(*                                                                         *)
(* Prices are integers, distances are percents.                            *)
(***************************************************************************)
EXTENDS Integers, Sequences

CONSTANTS
  Trades,            \* the positions that may be opened
  Marks,             \* prices the market may be at
  fixed_pct,         \* distance of a fixed stop from the entry
  trailing_pct,      \* distance of a trailing stop from the best price
  max_hold_seconds,  \* age at which a time-based stop triggers
  targets_pct,       \* distances of the targets from the entry, in order
  fractions,         \* what to close at each target, in percent
  MaxTime            \* bound of a run: the last second of the clock

ASSUME ExitAssumption ==
  /\ Marks \subseteq Nat /\ Marks # {}
  /\ {fixed_pct, trailing_pct} \subseteq 1 .. 99
  /\ max_hold_seconds \in Nat /\ MaxTime \in Nat
  /\ targets_pct \in Seq(Nat) /\ fractions \in Seq(0 .. 100)

Sides == {"Buy", "Sell"}
StopModes == {"Fixed", "Trailing", "TimeBased"}

VARIABLES
  mark,       \* the mark of the market
  clock,
  positions,  \* the open positions: a function from some Trades
  m_stops,    \* m_tracked of the stop engine: a function from some Trades
  m_targets,  \* m_tracked of the target engine: a function from some Trades
  stopped,    \* positions the last evaluation of the stops returned
  signals,    \* history: trade -> <<target index, percent>> signalled for it
  seen,       \* history: trade -> the marks its stop was evaluated at, and its entry
  used        \* history: trades that were opened

exitVars == <<mark, clock, positions, m_stops, m_targets, stopped, signals, seen, used>>

With(f, x, v) == [y \in DOMAIN f \cup {x} |-> IF y = x THEN v ELSE f[y]]
Without(f, x) == [y \in DOMAIN f \ {x} |-> f[y]]

ExitInit ==
  /\ mark = CHOOSE m \in Marks : TRUE
  /\ clock = 0
  /\ positions = << >>
  /\ m_stops = << >>
  /\ m_targets = << >>
  /\ stopped = {}
  /\ signals = [t \in Trades |-> << >>]
  /\ seen = [t \in Trades |-> {}]
  /\ used = {}

-----------------------------------------------------------------------------
(* The market and the owner of the engines                                 *)

priceMoves ==
  /\ mark' \in Marks \ {mark}
  /\ UNCHANGED <<clock, positions, m_stops, m_targets, stopped, signals, seen, used>>

secondPasses ==
  /\ clock < MaxTime
  /\ clock' = clock + 1
  /\ UNCHANGED <<mark, positions, m_stops, m_targets, stopped, signals, seen, used>>

open(t, side) ==
  /\ t \notin used
  /\ positions' = With(positions, t, [side |-> side, entry_price |-> mark, open_time |-> clock])
  /\ used' = used \cup {t}
  /\ UNCHANGED <<mark, clock, m_stops, m_targets, stopped, signals, seen>>

close(t) ==
  /\ t \in DOMAIN positions
  /\ positions' = Without(positions, t)
  /\ UNCHANGED <<mark, clock, m_stops, m_targets, stopped, signals, seen, used>>

-----------------------------------------------------------------------------
(* StopLossEngine                                                          *)

\* registerPosition: the best mark begins at the entry, wherever the mark is now, and a
\* stop the position had is forgotten.
registerStop(t, mode) ==
  /\ t \in DOMAIN positions
  /\ m_stops' = With(m_stops, t, [mode |-> mode, side |-> positions[t].side,
                                  entry_price |-> positions[t].entry_price,
                                  open_time |-> positions[t].open_time,
                                  best_price |-> positions[t].entry_price])
  /\ seen' = [seen EXCEPT ![t] = {positions[t].entry_price}]
  /\ UNCHANGED <<mark, clock, positions, m_targets, stopped, signals, used>>

removeStop(t) ==
  /\ t \in DOMAIN m_stops \ DOMAIN positions
  /\ m_stops' = Without(m_stops, t)
  /\ UNCHANGED <<mark, clock, positions, m_targets, stopped, signals, seen, used>>

Better(side, p, best) == IF side = "Buy" THEN p > best ELSE p < best

\* Fault: the best mark is the last one.
Best_Last(stop) == mark

\* The best mark of a stop after an evaluation at the current mark.
Best(stop) == IF Better(stop.side, mark, stop.best_price) THEN mark ELSE stop.best_price

\* Whether the mark is pct percent or more on the losing side of a price.
Lost(side, from, pct) ==
  IF side = "Buy" THEN 100 * mark <= (100 - pct) * from ELSE 100 * mark >= (100 + pct) * from

Triggers(stop) ==
  CASE stop.mode = "Fixed"     -> Lost(stop.side, stop.entry_price, fixed_pct)
    [] stop.mode = "Trailing"  -> Lost(stop.side, Best(stop), trailing_pct)
    [] stop.mode = "TimeBased" -> clock - stop.open_time >= max_hold_seconds

\* One evaluation of all stops.  A position that is no longer open is skipped, its
\* best mark stays; one that triggers stays registered and triggers again.
evaluateStops ==
  LET current == DOMAIN m_stops \cap DOMAIN positions
  IN  /\ m_stops' = [t \in DOMAIN m_stops |->
                       IF t \in current THEN [m_stops[t] EXCEPT !.best_price = Best(m_stops[t])]
                       ELSE m_stops[t]]
      /\ stopped' = {t \in current : Triggers(m_stops[t])}
      /\ seen' = [t \in Trades |-> IF t \in current THEN seen[t] \cup {mark} ELSE seen[t]]
      /\ UNCHANGED <<mark, clock, positions, m_targets, signals, used>>

-----------------------------------------------------------------------------
(* TakeProfitEngine                                                        *)

\* registerPosition: a ladder the position had begins again.
registerTarget(t) ==
  /\ t \in DOMAIN positions
  /\ m_targets' = With(m_targets, t, [side |-> positions[t].side,
                                      entry_price |-> positions[t].entry_price,
                                      next_target_idx |-> 0])
  /\ signals' = [signals EXCEPT ![t] = << >>]
  /\ UNCHANGED <<mark, clock, positions, m_stops, stopped, seen, used>>

removeTarget(t) ==
  /\ t \in DOMAIN m_targets \ DOMAIN positions
  /\ m_targets' = Without(m_targets, t)
  /\ UNCHANGED <<mark, clock, positions, m_stops, stopped, signals, seen, used>>

Reached(side, entry, pct) ==
  IF side = "Buy" THEN 100 * mark >= (100 + pct) * entry ELSE 100 * mark <= (100 - pct) * entry

\* Whether the next target of a position is reached; none is left after the last.
Hit(target) ==
  /\ target.next_target_idx < Len(targets_pct)
  /\ Reached(target.side, target.entry_price, targets_pct[target.next_target_idx + 1])

\* The share to close at a target: everything when the fractions are too few.
Fraction(i) == IF i < Len(fractions) THEN fractions[i + 1] ELSE 100

\* Fault: the next target is looked for from the first one again.
NextTarget_Kept(target) == target.next_target_idx

NextTarget(target) == target.next_target_idx + 1

\* One evaluation of all ladders: at most one target of each position.
evaluateTargets ==
  LET hit == {t \in DOMAIN m_targets \cap DOMAIN positions : Hit(m_targets[t])}
  IN  /\ m_targets' = [t \in DOMAIN m_targets |->
                         IF t \in hit
                         THEN [m_targets[t] EXCEPT !.next_target_idx = NextTarget(m_targets[t])]
                         ELSE m_targets[t]]
      /\ signals' = [t \in Trades |->
                       IF t \in hit /\ Len(signals[t]) <= Len(targets_pct)
                       THEN Append(signals[t], <<m_targets[t].next_target_idx,
                                                 Fraction(m_targets[t].next_target_idx)>>)
                       ELSE signals[t]]
      /\ UNCHANGED <<mark, clock, positions, m_stops, stopped, seen, used>>

-----------------------------------------------------------------------------
ExitNext ==
  \/ priceMoves \/ secondPasses
  \/ \E t \in Trades, side \in Sides : open(t, side)
  \/ \E t \in Trades : close(t) \/ removeStop(t) \/ registerTarget(t) \/ removeTarget(t)
  \/ \E t \in Trades, mode \in StopModes : registerStop(t, mode)
  \/ evaluateStops \/ evaluateTargets

ExitSpec == ExitInit /\ [][ExitNext]_exitVars

-----------------------------------------------------------------------------
(* Properties                                                              *)

\* A trailing stop hangs on the best mark it was ever evaluated at: whatever the
\* market does in between, no stop is loosened, and marks of the time after the
\* position was closed do not count.
StopsFollowTheBest ==
  \A t \in DOMAIN m_stops :
    LET stop == m_stops[t]
    IN  stop.best_price \in seen[t] /\ \A p \in seen[t] : ~ Better(stop.side, p, stop.best_price)

\* From its registration on, the ladder of a position is climbed once: its targets
\* are signalled in order, none twice and none left out, even when the mark crosses
\* several at once or goes back and forth over one.
TargetsComeOnce ==
  \A t \in Trades : \A i \in DOMAIN signals[t] : signals[t][i] = <<i - 1, Fraction(i - 1)>>
=============================================================================
