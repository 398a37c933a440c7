SPECIFICATION Spec
CONSTANTS
  Workers <- OneWorker
  InitWorkers <- OneWorker
  Tasks <- OneTask
  PriorityTasks <- NoTasks
  BlockingTasks <- NoTasks
  MinThreads = 1
  MaxThreads = 1
  ExitActions <- Always
  TimeoutResults <- Never
  SpawnResults <- Always
  Manager = Manager
  Stopper = Stopper
  Free = Free
  None = None
  t1 = t1
  t2 = t2
  p1 = p1
PROPERTIES WaitEndsWithTasksDone
CHECK_DEADLOCK FALSE
