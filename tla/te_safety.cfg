SPECIFICATION Spec
CONSTANTS
  Tasks = {t1, t2}
  NoTask = NoTask
  MaxWorkers = 2
  PoolSize = 1
  Batch = 1
  MaxBlocks = 2
CHECK_DEADLOCK FALSE
SYMMETRY TaskSymmetry
INVARIANT RunExclusive
INVARIANT RefCountExact
INVARIANT NoForgottenData
INVARIANT CanCloseMeansQuiet
PROPERTY DealtInOrder
PROPERTY DeliverySpec
