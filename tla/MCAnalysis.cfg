\* The clock: three beats, of the timer or by hand.
\* The cycle: three analyses, feeds of three messages with windows of two that answer up
\* to two at once, malformed ones among them; two strategies with two parameters; one
\* retry.  One provider with one backend, the other with the other.
CONSTANTS
  Callers = {main_thread, io_thread}
  Stopper = main_thread
  IoThread = io_thread
  MaxTasks = 3
  first = first
  second = second
  fast = fast
  slow = slow
  Messages = {m1, m2, m3}
  Malformed = bad
  feeds_enabled = {"twitter", "news"}
  max_window = 2
  max_shown = 1
  maxRetries = 1
  allParams <- MCParams
  ParamNames <- MCNames
  m_bounds <- MCBounds
  Configured <- MCConfigured
  Answers <- MCAnswers
  MaxBatch = 2
  MaxCycles = 3
SPECIFICATION BothSpec
INVARIANTS TasksAreInOnePlace NormalTasksInOrder BeatsAreTasks NoAnalysisAfterStop WindowsHoldEachOnce CyclesMoveLittle PublishedIsApplied
PROPERTIES TasksAreExecuted CyclesEnd
CHECK_DEADLOCK FALSE
