SPECIFICATION ServicesSpec
CONSTANTS
  a1 = a1
  a2 = a2
  b1 = b1
  b2 = b2
  A = A
  B = B
  w1 = w1
  w2 = w2
  w3 = w3
  c1 = c1
  c2 = c2
  m1 = m1
  m2 = m2
  m3 = m3
  p1 = p1
  p2 = p2
  None = None
  NoMerge = None
  Nobody = None
  Callers = {c1, c2}
  Offered = {m1, m2}
  Given = {m3}
  MaxThreads = 1
  MaxMerges = 2
  Closes = TRUE
  Writers = {a1, a2, b1, b2}
  Processes = {A, B}
  SimpleWriters = {w1, w2, w3}
  MaxStamp = 4
  ProcessOf <- TwoByTwo
  Takers = {p1, p2}
  Primary = "all"
  MaxCommits = 2
  MaxFiles = 4
  MaxRefs = 2
  MaxRestarts = 2
  MaxFaultyRestarts = 0
CHECK_DEADLOCK FALSE
INVARIANTS
  LocksValid
  MergeOnce
  ClosedIsQuiet
  SnapshotsHeld
PROPERTIES
  LocksExclude
