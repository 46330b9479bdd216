\* Four rows in chunks of two, over every kind of clock and session setting.
SPECIFICATION Spec
CONSTANTS
  Values <- MCValues
  Sessions = {1, 2}
  Configs <- MCConfigs
  ChunkRows = 2
  MaxRows = 4
INVARIANTS
  NothingRefusedLate
  DroppedAcrossGap
  ForwardIsStep
PROPERTY StampsAddUp
CHECK_DEADLOCK FALSE
