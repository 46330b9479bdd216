\* Groups that close by key and by session under a refit budget, calls that
\* refuse at each step, over cores that load or do not, and calls that fail
\* once their rows are learned, with notices to say.
CONSTANTS
  Setups <- BankSetups
  Keys <- MCKeys
  TextRank <- MCTextRank
  Sessions = {1, 2}
  RefitRoom = 1
SPECIFICATION Spec
INVARIANTS TypeOK RefitsAccounted CoresInStep NoticesSaidOnce
PROPERTIES RefusalRestores KeepsPromise
CHECK_DEADLOCK FALSE
