SPECIFICATION FairSpec
CONSTANTS
  Connections = {c1, c2}
  MaxCalls = 2
  IdSpace = 4
  Flags <- SomeFlags
  Faults = {"error", "corrupt", "unsendable", "lost"}
INVARIANTS TypeOK OwnAnswer FailureIsFinal InStep
PROPERTIES CommandReturns ImplementsRemoteCall
