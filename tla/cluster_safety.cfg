SPECIFICATION Spec
CONSTANTS
  Servers = {1, 2}
  Tables = {2}
  Joins <- JoinLowerAndSelf
  MaxConns = 2
  NoEnd = NoEnd
  MaxFaults = 1
CHECK_DEADLOCK FALSE
INVARIANT RegisteredPeer
INVARIANT OpenMeansRegistered
INVARIANT TableTold
PROPERTY FirstKept
