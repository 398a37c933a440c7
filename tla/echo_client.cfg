SPECIFICATION FairClientSpec
CONSTANTS
  Workers <- OneWorker
  InitWorkers <- OneWorker
  Tasks <- OneSocket
  PriorityTasks <- NoTasks
  BlockingTasks <- NoTasks
  MinThreads = 1
  MaxThreads = 1
  ExitActions <- Never
  TimeoutResults <- Never
  SpawnResults <- Always
  Sockets <- OneSocket
  Fds <- TwoNumbers
  Manager = Manager
  Stopper = Stopper
  Free = Free
  None = None
  c1 = c1
INVARIANTS ClientTypeOK NoSocketLost
PROPERTIES ClientStops
CHECK_DEADLOCK FALSE
