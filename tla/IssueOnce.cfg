SPECIFICATION Spec
CONSTANTS
  alice = alice
  bob = bob
  carol = carol
  Requests = {r1}
  Users = {alice, bob, carol}
  Requester <- MCRequester
  Approvers = {bob, carol}
  SelfApprovers = {}
  Handlers = {h1, h2}
  Relations <- MCRelations
  Fields <- MCFields
  None = None
  MaxMishaps = 1
SYMMETRY Symmetry
INVARIANTS
  IssueOnce
CHECK_DEADLOCK FALSE
