SPECIFICATION FairSteadySpec
CONSTANTS
  Workers <- TwoWorkers
  InitWorkers <- OneWorker
  Tasks <- TwoTasks
  PriorityTasks <- NoTasks
  BlockingTasks <- NoTasks
  MinThreads = 1
  MaxThreads = 1
  ExitActions <- Never
  TimeoutResults <- Never
  SpawnResults <- Always
  Manager = Manager
  Stopper = Stopper
  Free = Free
  None = None
  t1 = t1
  t2 = t2
  p1 = p1
PROPERTIES EveryTaskServed
CHECK_DEADLOCK FALSE
