---------------------------- MODULE DrawdownGuard ----------------------------
(***************************************************************************)
(* The circuit breaker of the risk layer (src/risk/DrawdownGuard) and the  *)
(* account it watches.  recordPnl, updateEquity and resetDaily run under   *)
(* one lock; the halt flag and its reason are two atomics, stored one      *)
(* after the other, which clearHalt stores without the lock.               *)
(*                                                                         *)
(* Thresholds are percentages of an equity that is a natural number.  What *)
(* is accumulated per strategy is never read and left out.                 *)
(***************************************************************************)
EXTENDS Integers

CONSTANTS
  Threads,           \* the threads that call the guard
  Profits, Losses,   \* what trades gain and lose
  StartEquity,       \* what is in the account at first
  MaxEquity,         \* bound of a run: the most that is ever in it
  maxDailyDrawdown,  \* the loss of a day, in percent of its start, that halts
  maxDrawdown,       \* the loss from the peak, in percent of it, that halts
  ReportsEquity      \* whether anyone calls updateEquity

ASSUME GuardAssumption ==
  /\ Profits \subseteq Nat /\ Losses \subseteq Nat
  /\ MaxEquity \in Nat /\ StartEquity \in 0 .. MaxEquity
  /\ maxDailyDrawdown \in 1 .. 100 /\ maxDrawdown \in 1 .. 100
  /\ ReportsEquity \in BOOLEAN

VARIABLES
  account,             \* the money in the account
  opening,             \* history: what was in it when the day began
  m_peakEquity,
  m_dailyStartEquity,
  m_currentEquity,
  m_dailyPnl,
  m_halted,
  m_haltReason,        \* "Ok" or "DrawdownLimitHit"
  call,                \* thread -> the store its call makes next, or "idle"
  cleared              \* history: a halt was cleared since the last equity update

equity == <<m_peakEquity, m_dailyStartEquity, m_currentEquity>>
guardVars == <<account, opening, equity, m_dailyPnl, m_halted, m_haltReason, call, cleared>>

GuardInit ==
  /\ account = StartEquity
  /\ opening = StartEquity
  /\ m_peakEquity = 0
  /\ m_dailyStartEquity = 0
  /\ m_currentEquity = 0
  /\ m_dailyPnl = 0
  /\ m_halted = FALSE
  /\ m_haltReason = "Ok"
  /\ call = [t \in Threads |-> "idle"]
  /\ cleared = FALSE

\* The lock is held by the call that stores a halt.
Unlocked == \A t \in Threads : call[t] \notin {"halt", "reason"}

-----------------------------------------------------------------------------
(* Operations under the lock                                               *)

\* A trade changes the account, and what it realized is recorded.
recordPnl(t, pnl) ==
  /\ call[t] = "idle" /\ Unlocked
  /\ account + pnl \in 0 .. MaxEquity
  /\ account' = account + pnl
  /\ m_dailyPnl' = m_dailyPnl + pnl
  /\ UNCHANGED <<opening, equity, m_halted, m_haltReason, call, cleared>>

\* The drawdown from a reference exceeds its limit.
Exceeds(from, to, limit) == from > 0 /\ (from - to) * 100 > limit * from

\* Fault: the peak of all days is forgotten when the day is checked.
Breach_DailyOnly(peak, start, current) == Exceeds(start, current, maxDailyDrawdown)

Breach(peak, start, current) ==
  \/ Exceeds(start, current, maxDailyDrawdown)
  \/ Exceeds(peak, current, maxDrawdown)

updateEquity(t) ==
  /\ ReportsEquity
  /\ call[t] = "idle" /\ Unlocked
  /\ m_currentEquity' = account
  /\ m_peakEquity' = IF account > m_peakEquity THEN account ELSE m_peakEquity
  /\ m_dailyStartEquity' = IF m_dailyStartEquity = 0 THEN account ELSE m_dailyStartEquity
  /\ call' = [call EXCEPT ![t] = IF Breach(m_peakEquity', m_dailyStartEquity', m_currentEquity')
                                 THEN "halt" ELSE "idle"]
  /\ cleared' = FALSE
  /\ UNCHANGED <<account, opening, m_dailyPnl, m_halted, m_haltReason>>

storeHalt(t) ==
  /\ call[t] = "halt"
  /\ m_halted' = TRUE
  /\ call' = [call EXCEPT ![t] = "reason"]
  /\ UNCHANGED <<account, opening, equity, m_dailyPnl, m_haltReason, cleared>>

storeReason(t) ==
  /\ call[t] = "reason"
  /\ m_haltReason' = "DrawdownLimitHit"
  /\ call' = [call EXCEPT ![t] = "idle"]
  /\ UNCHANGED <<account, opening, equity, m_dailyPnl, m_halted, cleared>>

resetDaily(t) ==
  /\ call[t] = "idle" /\ Unlocked
  /\ m_dailyStartEquity' = m_currentEquity
  /\ m_dailyPnl' = 0
  /\ opening' = account
  /\ UNCHANGED <<account, m_peakEquity, m_currentEquity, m_halted, m_haltReason, call, cleared>>

-----------------------------------------------------------------------------
(* clearHalt: two stores without the lock                                  *)

clearHalt(t) ==
  /\ call[t] = "idle"
  /\ m_halted' = FALSE
  /\ cleared' = TRUE
  /\ call' = [call EXCEPT ![t] = "clear"]
  /\ UNCHANGED <<account, opening, equity, m_dailyPnl, m_haltReason>>

clearReason(t) ==
  /\ call[t] = "clear"
  /\ m_haltReason' = "Ok"
  /\ call' = [call EXCEPT ![t] = "idle"]
  /\ UNCHANGED <<account, opening, equity, m_dailyPnl, m_halted, cleared>>

-----------------------------------------------------------------------------
GuardNext ==
  \E t \in Threads :
    \/ \E pnl \in Profits \cup {-loss : loss \in Losses} : recordPnl(t, pnl)
    \/ updateEquity(t) \/ storeHalt(t) \/ storeReason(t)
    \/ resetDaily(t)
    \/ clearHalt(t) \/ clearReason(t)

GuardSpec == GuardInit /\ [][GuardNext]_guardVars

-----------------------------------------------------------------------------
(* Properties                                                              *)

\* Equities are in range, none is above the peak, one call at a time is between
\* its stores of a halt, and the day's profit and loss is what the account
\* gained or lost since the day began.
GuardTypeOK ==
  /\ account \in 0 .. MaxEquity /\ opening \in 0 .. MaxEquity
  /\ m_peakEquity \in 0 .. MaxEquity
  /\ m_currentEquity \in 0 .. m_peakEquity
  /\ m_dailyStartEquity \in 0 .. m_peakEquity
  /\ m_halted \in BOOLEAN /\ cleared \in BOOLEAN
  /\ m_haltReason \in {"Ok", "DrawdownLimitHit"}
  /\ call \in [Threads -> {"idle", "halt", "reason", "clear"}]
  /\ \A t, u \in Threads : call[t] \in {"halt", "reason"} /\ call[u] \in {"halt", "reason"} => t = u
  /\ m_dailyPnl = account - opening

\* Less is left of a reference than a limit allows.
Below(equityLeft, limit, reference) == equityLeft * 100 < (100 - limit) * reference

\* Trading is halted while the equity last reported breaks a limit, in spite of
\* recoveries and daily resets in between, unless the halt was cleared since.
BreachesHalt ==
  (/\ Unlocked
   /\ \/ Below(m_currentEquity, maxDailyDrawdown, m_dailyStartEquity)
      \/ Below(m_currentEquity, maxDrawdown, m_peakEquity))
  => m_halted \/ cleared

-----------------------------------------------------------------------------
(* Claims of the repository's comments and documents that the code breaks  *)

\* haltReason() is Ok exactly when trading is not halted, as seen when no call
\* is under way.
HaltsHaveAReason ==
  (\A t \in Threads : call[t] = "idle") => (m_halted <=> m_haltReason # "Ok")

\* A loss of the day at the limit halts trading.
DailyLossHalts ==
  (/\ \A t \in Threads : call[t] = "idle"
   /\ opening - account > 0
   /\ (opening - account) * 100 >= maxDailyDrawdown * opening)
  => m_halted \/ cleared
=============================================================================
