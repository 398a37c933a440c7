SPECIFICATION ServerSpec
CONSTANTS
  Workers <- OneWorker
  InitWorkers <- OneWorker
  Tasks <- TwoConnections
  PriorityTasks <- NoTasks
  BlockingTasks <- NoTasks
  MinThreads = 1
  MaxThreads = 1
  ExitActions <- Never
  TimeoutResults <- Never
  SpawnResults <- Always
  Sockets <- ServerAndTwo
  Fds <- ThreeNumbers
  Server = Server
  Manager = Manager
  Stopper = Stopper
  Free = Free
  None = None
  c1 = c1
  c2 = c2
INVARIANTS ServerTypeOK NumbersNotMixedUp OneLostAtMost
CHECK_DEADLOCK FALSE
