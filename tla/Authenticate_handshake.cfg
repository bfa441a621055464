SPECIFICATION FairSpec
CONSTANTS
  Mechanisms <- MCMechanisms
  Registered <- MCRegistered
  Offers <- MCOffers
  Compressions <- MCCompressions
  MaxUses = 2
  Faults = {"error", "lost", "garbled", "unfinished"}
INVARIANTS TypeOK ReadyIsAuthenticated CommandsFollowHandshake CompressedIsAgreed
PROPERTIES ThrownIsFinal HandshakeEnds
