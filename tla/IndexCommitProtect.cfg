SPECIFICATION PoliciesSpec
CONSTANTS
  p1 = p1
  p2 = p2
  Procs = {p1, p2}
  Keep = 1
  MaxSegments = 2
  MaxGen = 1
  MaxCrashes = 0
  MaxPrepares = 1
  MaxFailures = 0
  Drops = TRUE
  Closes = FALSE
  PowerLoss = FALSE
SYMMETRY Symmetry
INVARIANT PendingProtected
