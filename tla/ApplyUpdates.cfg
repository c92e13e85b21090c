SPECIFICATION FairSpec
CONSTANTS
  None = None
  p1 = p1
  p2 = p2
  Procs = {p1, p2}
  Shapes <- AllShapes
  Cap = 2
  MaxTickets = 2
  MaxFlushes = 1
  MaxImports = 1
  MaxMissed = 1
INVARIANT PacketsResolved
PROPERTY OpsReturn
