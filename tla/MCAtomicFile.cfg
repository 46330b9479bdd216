\* Two processes of two threads replace one file twice between them; a process
\* may die, its pid be taken again, and the power fail.
SPECIFICATION Spec
CONSTANTS
  Pids = {1, 2}
  Threads = {1, 2}
  Parts = 2
  MaxAttempts = 3
INVARIANTS
  DestWhole
  ModeStays
  TempsRemoved
  TempsDiffer
