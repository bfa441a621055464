SPECIFICATION Spec
CONSTANTS
  HeaderSize = 2
  BlockSize = 4
  CompressedHeader = 1
  ChecksumSize = 2
  N = 4
  Kind <- MCKindAll
  Checksummed <- MCChecksumAll
  Size <- MCSizeAll
  WireSize <- MCWireAll
  Start <- MCStartAll
  WireStart <- MCWireStartAll
  MaxSize = 9
  MaxRequest = 10
  PartialArrivals = TRUE
  Cuts <- MCAnywhereAll
INVARIANTS GetAreaInMessage Framed PositionIsDelivered ZeroCheckMeansIntact
