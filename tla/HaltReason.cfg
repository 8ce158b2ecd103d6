\* Two threads: one clears a halt while the other stores one.
CONSTANTS
  Threads = {t1, t2}
  Profits = {2}
  Losses = {1, 3}
  StartEquity = 8
  MaxEquity = 10
  maxDailyDrawdown = 20
  maxDrawdown = 40
  ReportsEquity = TRUE
SPECIFICATION GuardSpec
INVARIANT HaltsHaveAReason
CHECK_DEADLOCK FALSE
