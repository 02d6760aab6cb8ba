\* Lines of every type, odd ones and too long ones among them, in three buffers.
SPECIFICATION LineSpec
CONSTANTS
  NBuf = 3
  BufLen = 46
  MaxLines = 4
  Protos <- SomeProtos
  Numerals <- AllNumerals
CHECK_DEADLOCK FALSE
INVARIANTS
  RoundTrip
  RecentIntact
