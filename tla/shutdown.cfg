SPECIFICATION Spec
CONSTANTS
  Workers <- TwoWorkers
  InitWorkers <- OneWorker
  Tasks <- OneTask
  PriorityTasks <- NoTasks
  BlockingTasks <- OneTask
  MinThreads = 0
  MaxThreads = 2
  ExitActions <- Either
  TimeoutResults <- Either
  SpawnResults <- Either
  Manager = Manager
  Stopper = Stopper
  Free = Free
  None = None
  t1 = t1
  t2 = t2
  p1 = p1
INVARIANTS EachThreadInOneMap GoneMeansDeleted MapInv
CHECK_DEADLOCK FALSE
