SPECIFICATION FairSpec
CONSTANTS
  r1 = r1
  r2 = r2
  Ranges <- MCRanges
  NoCursor = NoCursor
  Docs <- MCDocs
  MaxBatch = 2
  MaxCopies = 2
  Listings = TRUE
  EmptyBatches = FALSE
  Faults = {"error", "reap", "lost", "rejected"}
INVARIANTS TypeOK SeenInOrder OkEndIsComplete NoCursorLeft IdIsLive
PROPERTIES LoopsEnd
