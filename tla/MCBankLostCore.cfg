\* A loaded bank and a chunk whose columns its core cannot be resumed with.
CONSTANTS
  Setups <- UnreadSetup
  Keys <- MCKeys
  TextRank <- MCTextRank
  Sessions = {1, 2}
  RefitRoom = 1
SPECIFICATION Spec
INVARIANT CoresOutliveRefusal
CHECK_DEADLOCK FALSE
