\* Rings of every cadence, edge and budget, over every chunking of the rows.
SPECIFICATION Spec
CONSTANTS
  Settings <- MCSettings
  ChunkRows = 3
  RunRows = 2
INVARIANTS
  TypeOK
  BudgetHolds
  WindowKept
  PrepassExact
CHECK_DEADLOCK FALSE
