----------------------------- MODULE TradeRecorder -----------------------------
(***************************************************************************)
(* The trades in the database (src/trade_recorder/TradeRecorder.cpp): one  *)
(* row for each order, and the questions asked about them.  Every call     *)
(* holds the recorder's lock from its first to its last statement.         *)
(*                                                                         *)
(* A row is its order's id, its time, symbol, strategy and P&L.            *)
(***************************************************************************)
EXTENDS Integers, FiniteSets, Functions

CONSTANT kNsPerDay  \* in units of time

ASSUME RecorderAssumption == kNsPerDay \in Nat \ {0}

VARIABLES
  m_db,   \* whether the database is open
  trades  \* the rows of its table

recorderVars == <<m_db, trades>>

RecorderInit == m_db = TRUE /\ trades = {}

\* The table has one row for an order id: UNIQUE.
Duplicate(row) == \E old \in trades : old.order_id = row.order_id

\* What recordTrade returns of a row: the database may refuse to write.
Outcomes(row) ==
  IF ~m_db THEN {"TradeRecorderNotOpen"}
  ELSE IF Duplicate(row) THEN {"TradeRecorderDuplicate"} ELSE {"Ok", "TradeRecorderInsertFailed"}

recordTrade(row, outcome) ==
  /\ outcome \in Outcomes(row)
  /\ trades' = IF outcome = "Ok" THEN trades \cup {row} ELSE trades
  /\ UNCHANGED m_db

close ==
  /\ m_db' = FALSE
  /\ UNCHANGED trades

-----------------------------------------------------------------------------
(* Questions, asked while the database is open.  A limit of 0 is none.     *)

Total(rows) == SumFunctionOnSet([row \in rows |-> row.pnl], rows)

\* Both limits belong to the window.
InWindow(row, from_ns, to_ns) ==
  /\ from_ns > 0 => row.timestamp >= from_ns
  /\ to_ns > 0 => row.timestamp <= to_ns

getTrades(symbol, from_ns, to_ns) ==
  {row \in trades : InWindow(row, from_ns, to_ns) /\ (symbol # "" => row.symbol = symbol)}

getTradesByStrategy(strategy_name) == {row \in trades : row.strategy_name = strategy_name}

getSummary(from_ns, to_ns) ==
  LET rows == {row \in trades : InWindow(row, from_ns, to_ns)}
  IN  [tradeCount |-> Cardinality(rows), total_pnl |-> Total(rows),
       wins |-> Cardinality({row \in rows : row.pnl > 0})]

\* A fault: the first instant of the next day counts twice.
InDay_BothEnds(row, date_ns) ==
  LET day_start == (date_ns \div kNsPerDay) * kNsPerDay
  IN  row.timestamp >= day_start /\ row.timestamp <= day_start + kNsPerDay

\* The day a time is in: from its first instant to before the first of the next.
InDay(row, date_ns) ==
  LET day_start == (date_ns \div kNsPerDay) * kNsPerDay
  IN  row.timestamp >= day_start /\ row.timestamp < day_start + kNsPerDay

getDailyPnl(date_ns) == Total({row \in trades : InDay(row, date_ns)})

tradeCount == IF m_db THEN Cardinality(trades) ELSE 0
=============================================================================
