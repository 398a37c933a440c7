SPECIFICATION FairServerSpec
CONSTANTS
  Workers <- OneWorker
  InitWorkers <- OneWorker
  Tasks <- OneConnection
  PriorityTasks <- NoTasks
  BlockingTasks <- NoTasks
  MinThreads = 1
  MaxThreads = 1
  ExitActions <- Never
  TimeoutResults <- Never
  SpawnResults <- Always
  Sockets <- ServerAndOne
  Fds <- TwoNumbers
  Server = Server
  Manager = Manager
  Stopper = Stopper
  Free = Free
  None = None
  c1 = c1
  c2 = c2
PROPERTIES ServerStops
CHECK_DEADLOCK FALSE
