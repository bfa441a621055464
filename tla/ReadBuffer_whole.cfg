SPECIFICATION FairSpec
CONSTANTS
  HeaderSize = 2
  BlockSize = 4
  CompressedHeader = 1
  ChecksumSize = 2
  N = 3
  Kind <- MCKindMixed
  Checksummed <- MCChecksummed
  Size <- MCSize
  WireSize <- MCWireMixed
  Start <- MCStart
  WireStart <- MCWireStart
  MaxSize = 10
  MaxRequest = 11
  PartialArrivals = FALSE
  Cuts <- MCOutside
INVARIANTS TypeOK DeliveredAsSent FailsOnlyWhenCut NoRawChecksum
PROPERTIES EventuallyAll ImplementsReplyStream
