SPECIFICATION Spec
CONSTANTS
  w = w
  t = t
  alice = alice
  bob = bob
  carol = carol
  dave = dave
  f1 = f1
  f2 = f2
  Handlers = {h1}
  Users = {alice, bob, carol, dave}
  Linked = {alice, bob, carol}
  None = None
  Items = {w, t}
  Order <- MCOrder
  RootOf <- MCRootOf
  Owner <- MCOwner
  LeadDays = 1
  Author = alice
  Planned = {carol}
  Rules <- MCRules
  Files = {f1, f2}
  Reminder = 1
  Tasks <- MCTasks
  Actors = {}
  Scenarios <- MCAgain
INVARIANT
  ToldAgain
CHECK_DEADLOCK FALSE
