CONSTANTS
  good1 = good1
  good2 = good2
  good3 = good3
  bad1 = bad1
  bad2 = bad2
  NoTask = NoTask
  Tasks <- MCTasks
  Authentic <- MCAuthentic
  MaxWorkers = 2
  MaxQueue = 1
SPECIFICATION PoolSpec
INVARIANT AcceptedIsAuthentic
CHECK_DEADLOCK FALSE
