\* One thread, as in the application, where signals arrive one at a time.
CONSTANTS
  Callers = {c1}
  Token = 2
  m_maxRate = 1
  m_burstCapacity = 3
  MaxNow = 6
  MaxResets = 1
SPECIFICATION LimiterSpec
INVARIANTS RefillsFollowTheClock
CHECK_DEADLOCK FALSE
