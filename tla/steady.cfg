SPECIFICATION FairSteadySpec
CONSTANTS
  Workers <- TwoWorkers
  InitWorkers <- OneWorker
  Tasks <- MixedTasks
  PriorityTasks <- OnePriority
  BlockingTasks <- NoTasks
  MinThreads = 1
  MaxThreads = 2
  ExitActions <- Never
  TimeoutResults <- Either
  SpawnResults <- Either
  Manager = Manager
  Stopper = Stopper
  Free = Free
  None = None
  t1 = t1
  t2 = t2
  p1 = p1
INVARIANTS TypeOK TaskConservation WorkingMeansRunning NoLostWakeup TrimInterruptsNobody
PROPERTIES ExitIsFinal ImplementsService NormalTasksServed TickEnds
CHECK_DEADLOCK FALSE
