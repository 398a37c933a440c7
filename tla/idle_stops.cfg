SPECIFICATION FairSpec
CONSTANTS
  Workers <- TwoWorkers
  InitWorkers <- TwoWorkers
  Tasks <- NoTasks
  PriorityTasks <- NoTasks
  BlockingTasks <- NoTasks
  MinThreads = 0
  MaxThreads = 2
  ExitActions <- Either
  TimeoutResults <- Either
  SpawnResults <- Always
  Manager = Manager
  Stopper = Stopper
  Free = Free
  None = None
  t1 = t1
  t2 = t2
  p1 = p1
PROPERTIES IdlePoolStops
CHECK_DEADLOCK FALSE
