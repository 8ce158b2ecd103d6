\* One beat of the timer.
CONSTANTS
  Callers = {main_thread, io_thread}
  Stopper = main_thread
  IoThread = io_thread
  MaxTasks = 1
SPECIFICATION SchedulerSpec
INVARIANT StopJoinsIoThread
CHECK_DEADLOCK FALSE
