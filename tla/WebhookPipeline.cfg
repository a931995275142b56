SPECIFICATION Spec
CONSTANTS
  work = work
  issue = issue
  stray = stray
  pr = pr
  other = other
  ann = ann
  bob = bob
  boss = boss
  h1 = h1
  h2 = h2
  x1 = x1
  x2 = x2
  Work = work
  Tasks = {issue, stray}
  Requester = boss
  Scenarios <- AllScenarios
  Events = {"e1", "e2", "e3"}
  Workers = {w1, w2}
  None = None
  MaxLeases = 2
  Overlaps = TRUE
  MaxMishaps = 1
SYMMETRY Symmetry
INVARIANTS
  TypeOK
  RepliesShareRoot
  
  OverviewFirst
  
PROPERTIES
  RootIsFinal
CHECK_DEADLOCK FALSE
