\* Labels one delay behind their rows, read as the embargo of that delay.
SPECIFICATION Spec
CONSTANTS
  Settings <- LabelSettings
  Values <- MCValues
  Sessions = {1, 2}
  ChunkRows = 1
INVARIANT LabelIsEmbargo
CHECK_DEADLOCK FALSE
