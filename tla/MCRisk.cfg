\* Ledger: two symbols, three lots of budget for each and four in all, two slots.
\* Prices include 0, the price of a symbol never quoted, and 2, a mark above
\* the price an order was reserved at.
\* Bucket: two threads; an order costs two units, a tick refills one, it holds three.
\* Guard: two threads, of which one may clear a halt while the other stores one. A loss
\* of two from five breaks the daily limit only, two of them the peak limit too.
\* Exits: one position, which nothing relates to others; marks below the fixed and
\* the trailing stop, at the first target and at both.
CONSTANTS
  Symbols = {BTC, ETH}
  Quantities = {0, 1, 3}
  Prices = {0, 1, 2}
  maxPositionNotional = 4
  maxSymbolNotional = 3
  maxOpenPositions = 2
  MaxIds = 3
  Callers = {c1, c2}
  Token = 2
  m_maxRate = 1
  m_burstCapacity = 3
  MaxNow = 3
  MaxResets = 1
  Threads = {t1, t2}
  Profits = {1}
  Losses = {2}
  StartEquity = 5
  MaxEquity = 6
  maxDailyDrawdown = 20
  maxDrawdown = 40
  ReportsEquity = TRUE
  Trades = {trade}
  Marks = {8, 10, 11, 13}
  fixed_pct = 10
  trailing_pct = 20
  max_hold_seconds = 1
  MaxTime = 1
  targets_pct <- MCTargets
  fractions <- MCFractions
SYMMETRY Symmetry
SPECIFICATION RiskSpec
INVARIANTS PendingWithinLimits GrantsAreMaximal GrantsArePaid BreachesHalt StopsFollowTheBest TargetsComeOnce
PROPERTIES GrantsRespectCommitments
CHECK_DEADLOCK FALSE
