SPECIFICATION FairSpec
CONSTANTS
  MaxMessages = 2
  Sizes <- PieceAndMore
  m_nPayLoad = 2
  MaxArrivals = 1
CHECK_DEADLOCK FALSE
INVARIANT InOrder
INVARIANT Settled
PROPERTY LastWord
PROPERTY EverythingWritten
