SPECIFICATION Spec
CONSTANTS
  HeaderSize = 2
  BlockSize = 4
  CompressedHeader = 1
  ChecksumSize = 2
  N = 3
  Kind <- MCKindPlain
  Checksummed <- MCChecksummed
  Size <- MCSize
  WireSize <- MCSize
  Start <- MCStart
  WireStart <- MCStart
  MaxSize = 10
  MaxRequest = 11
  PartialArrivals = TRUE
  Cuts = {}
INVARIANTS DeliveredAsSent
