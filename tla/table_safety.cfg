SPECIFICATION TableSpec
CONSTANTS
  Tasks = {t1, t2}
  NoTask = NoTask
  MaxWorkers = 2
  PoolSize = 2
  Batch = 1
  MaxBlocks = 1
  Socks = {s1, s2}
  Users = {u1, u2}
  NoUser = NoUser
  NullEntry = NullEntry
CHECK_DEADLOCK FALSE
SYMMETRY TableSymmetry
INVARIANT TableTypeOK
INVARIANT LoggedInKnown
INVARIANT LifeCycle
PROPERTY NewerLoginSurvives
 
