SPECIFICATION FairSpec
CONSTANTS
  Tasks = {t1}
  NoTask = NoTask
  MaxWorkers = 3
  PoolSize = 2
  Batch = 1
  MaxBlocks = 2
CHECK_DEADLOCK FALSE
INVARIANT NoLostWakeup
PROPERTY RemovedWorkerStops
PROPERTY ServedWhilePoolKept
