SPECIFICATION Spec
CONSTANTS
  Servers = {s1, s2, s3}
  s1 = s1
  s2 = s2
  s3 = s3
  Peers <- Star
  Hosts <- Tellers
  Users = {u1}
  Sessions = {c1, c2}
  NoSession = NoSession
  NoServer = NoServer
  NoMessage = NoMessage
  MaxFaults = 1
SYMMETRY DirectorySymmetry
CHECK_DEADLOCK FALSE
INVARIANT LatestKnown
INVARIANT NoGhost
INVARIANT EntryAccounted
