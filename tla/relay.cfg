SPECIFICATION Spec
CONSTANTS
  Senders = {a, b}
  Receivers = {r}
  NoReceiver = NoReceiver
  MaxPieces = 2
  MaxMessages = 2
  MaxBad = 1
  MaxMoves = 2
SYMMETRY SenderSymmetry
CHECK_DEADLOCK FALSE
INVARIANT Continuous
INVARIANT ShortIntact
INVARIANT KeptForReceiver
