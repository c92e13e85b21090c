SPECIFICATION FairSpec
CONSTANTS
  None = None
  p1 = p1
  p2 = p2
  p3 = p3
  Procs = {p1, p2, p3}
  MaxGen = 4
  MaxClears = 1
  ClearRaces = FALSE
INVARIANT TypeOK
INVARIANT FrontierExact
INVARIANT FrontierSafe
INVARIANT NoneLost
PROPERTY FinishReturns
