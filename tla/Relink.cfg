SPECIFICATION Spec
CONSTANTS
  u1 = u1
  u2 = u2
  a1 = a1
  a2 = a2
  Handlers = {h1, h2}
  Users = {u1, u2}
  Accounts = {a1, a2}
  Urls = {n1, n2}
  Subjects = {s1, s2}
  Channel = Channel
  Shared = Shared
  All = All
  None = None
  MaxMishaps = 0
  Commands <- MCCommands
  Scenarios <- MCScenarios
INVARIANT
  RelinkRevokes
CHECK_DEADLOCK FALSE
