SPECIFICATION Spec
CONSTANTS
  MaxMessages = 2
  DataLengths <- NoneShortAndLong
  HeaderSize = 4
  HeartBeatSize = 5
  MaxBlock = 9
  HeartBeatsWhole = TRUE
CHECK_DEADLOCK FALSE
INVARIANT Conserved
INVARIANT InStep
INVARIANT Prompt
