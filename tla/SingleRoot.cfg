SPECIFICATION Spec
CONSTANTS
  work = work
  issue = issue
  stray = stray
  pr = pr
  other = other
  ann = ann
  bob = bob
  boss = boss
  h1 = h1
  h2 = h2
  x1 = x1
  x2 = x2
  Work = work
  Tasks = {issue, stray}
  Requester = boss
  Scenarios <- WorkScenario
  Events = {"e1", "e2", "e3"}
  Workers = {w1, w2}
  None = None
  MaxLeases = 2
  Overlaps = FALSE
  MaxMishaps = 0
SYMMETRY Symmetry
INVARIANTS
  SingleRoot
CHECK_DEADLOCK FALSE
