SPECIFICATION SearchSpec
CONSTANTS
  s1 = s1
  s2 = s2
  p1 = p1
  p2 = p2
  g1 = g1
  g2 = g2
  r1 = r1
  None = None
  Searchers = {s1, s2}
  Refreshers = {p1, p2}
  MaxReaders = 3
  MaxCommits = 1
  Waiters = {g1, g2}
  Reopeners = {r1}
  MaxGen = 2
  Closes = TRUE
  Timed = TRUE
CHECK_DEADLOCK FALSE
INVARIANTS
  OpenIffOwned
  WaitTruthful
PROPERTIES
  Woken
