SPECIFICATION Spec
CONSTANTS
  r1 = r1
  r2 = r2
  Ranges <- MCRanges
  NoCursor = NoCursor
  Docs <- MCDocs
  MaxBatch = 2
  MaxCopies = 2
  Listings = FALSE
  EmptyBatches = FALSE
  Faults = {}
INVARIANTS CompleteIsOk
