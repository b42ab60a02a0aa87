SPECIFICATION Spec
CONSTANTS
  MaxMessages = 2
  DataLengths <- NoneShortAndLong
  HeaderSize = 4
  HeartBeatSize = 5
  MaxBlock = 4
  HeartBeatsWhole = FALSE
CHECK_DEADLOCK FALSE
INVARIANT UsedWithinBlock
