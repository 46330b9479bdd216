\* Two runs, every fault and every interleaving of the threads, the second run
\* resuming or starting afresh on an input that may have grown.
SPECIFICATION FairSpec
CONSTANTS
  NRows = 3
  GroupRows = 1
  ChunkSizes = {2}
  Configs <- RunConfigs
  MaxRuns = 2
  Capacity = 1
INVARIANTS
  TypeOK
  OutputGoesWithResult
  DrainedRowsPublished
  FrameBeforeEnd
  StateHasItsFiles
  NoClosedGroupLost
  LearnedOnce
  NoLitter
PROPERTIES
  KeepsPromise
  RunReturns
