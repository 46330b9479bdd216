\* A drift fires in the run in which the ring passed its budget.
SPECIFICATION Spec
CONSTANTS
  Settings <- DriftSettings
  ChunkRows = 3
  RunRows = 3
INVARIANT OverrunStops
CHECK_DEADLOCK FALSE
