SPECIFICATION TableSpec
CONSTANTS
  Tasks = {t1, t2}
  NoTask = NoTask
  MaxWorkers = 1
  PoolSize = 1
  Batch = 1
  MaxBlocks = 2
  Socks = {s1, s2}
  Users = {u1}
  NoUser = NoUser
  NullEntry = NullEntry
CHECK_DEADLOCK FALSE
SYMMETRY TableSymmetry
INVARIANT NoUseAfterDelete
