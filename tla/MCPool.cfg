\* Two callers, two sizes, each asking twice.
SPECIFICATION FairSpec
CONSTANTS
  a = a
  b = b
  p1 = p1
  p2 = p2
  p3 = p3
  p4 = p4
  p5 = p5
  Callers <- MCCallers
  Pools <- MCPools
  Sizes = {1, 2}
  NoPool = NoPool
  NoCaller = NoCaller
  MaxAsks = 2
INVARIANTS
  OnePoolPerSize
  OneDefault
PROPERTIES
  AskReturns
