SPECIFICATION Spec
CONSTANTS
  Tasks <- AllTasks
  PriorityTasks <- OnePriority
  Consumers <- TwoConsumers
  Free = Free
  Null = Null
  t1 = t1
  t2 = t2
  t3 = t3
  p1 = p1
  c1 = c1
  c2 = c2
INVARIANTS TypeOK NodesMatchLists SizeWithinOne DestroyLeavesTheLast
PROPERTIES ImplementsService
CHECK_DEADLOCK FALSE
