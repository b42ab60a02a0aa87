SPECIFICATION FairSpec
CONSTANTS
  MaxThreads = 3
  MaxClients = 2
  Listeners <- OnePlain
  Secure = {}
  Kinds <- OnlyPlain
CHECK_DEADLOCK FALSE
INVARIANT PoolSound
INVARIANT ServedToTheEnd
INVARIANT OnlyClosingLeft
PROPERTY ExitMeansEmpty
PROPERTY ShutdownEnds
