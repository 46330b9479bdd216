\* Both ways of looking, however rows, stretches and groups fall.
SPECIFICATION Spec
CONSTANT Settings <- MCSettings
INVARIANTS
  TypeOK
  AsDefined
  ReadyWhenSettled
CHECK_DEADLOCK FALSE
