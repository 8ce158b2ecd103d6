\* One caller, no task: the worker goes to sleep while it is asked to stop.
CONSTANTS
  Callers = {main}
  Stopper = main
  MaxTasks = 0
SPECIFICATION FairQueueSpec
PROPERTY StopReturns
CHECK_DEADLOCK FALSE
