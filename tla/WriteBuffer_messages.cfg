SPECIFICATION Spec
CONSTANTS
  SizeField = 2
  HeaderSize = 3
  BlockSize = 4
  ChecksumSize = 2
  Smallest = 6
  N = 6
  Eof = 3
  Header <- MCHeader
  Size <- MCSize
  Written <- MCWritten
  Checksummed <- MCChecksummed
  Capacity = 9
  SingleBytes = {3}
  SocketFails = TRUE
  FlushChecks = TRUE
INVARIANTS TypeOK OnlyWholeMessages SentIsOnWire FailureIsFinal NothingUndefined FirstIsSent
