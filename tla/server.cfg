SPECIFICATION Spec
CONSTANTS
  Names = {db}
  Account = db
  Threads = {1, 2}
  PoolSize = 1
  p1 = p1
  p2 = p2
  Paras = {p1, p2}
  Tested = {p1, p2}
  NoPara = NoPara
  Users = {u1}
  NoUser = NoUser
  f1 = f1
  f2 = f2
  Friends = {f1, f2}
  Lists <- OneByOne
  TermName = "Term 001"
  MayBeInUse = {"cluster"}
  MaxFaults = 1
  MaxRequests = 3
SYMMETRY ServerSymmetry
INVARIANT RemovedStaysRemoved
INVARIANT CloneAccounted
INVARIANT AckedKept
INVARIANT StartedListens
