SPECIFICATION PoliciesSpec
CONSTANTS
  p1 = p1
  p2 = p2
  Procs = {p1}
  Keep = 1
  MaxSegments = 2
  MaxGen = 3
  MaxCrashes = 1
  MaxPrepares = 1
  MaxFailures = 2
  Drops = TRUE
  Closes = FALSE
  PowerLoss = FALSE
INVARIANT CommitsComplete
INVARIANT AckedSurvives
INVARIANT HeldFilesOnDisk
INVARIANT FilesCounted
INVARIANT RollbackRestores
PROPERTY NamesFresh
