\* Five rows in chunks of up to two, held by each kind of delay.
SPECIFICATION Spec
CONSTANTS
  Settings <- MCSettings
  Values <- MCValues
  Sessions = {1, 2}
  ChunkRows = 2
INVARIANTS
  TypeOK
  LearnsAsUndelayed
  ScoredAsUndelayed
  LearnedWhenDue
  EachRowAccounted
  RecordsInStep
CHECK_DEADLOCK FALSE
