SPECIFICATION Spec
CONSTANTS
  Producer = {p, q}
  TasksEach = 2
  MaxWorkers = 2
  InitialSize = 2
  InitialLimit = 2
  MaxChanges = 2
INVARIANT NoWakeupLost
PROPERTY EnqueuedRun
CHECK_DEADLOCK FALSE
