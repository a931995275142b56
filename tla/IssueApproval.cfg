SPECIFICATION Spec
CONSTANTS
  alice = alice
  bob = bob
  carol = carol
  Requests = {r1}
  Users = {alice, bob, carol}
  Requester <- MCRequester
  Approvers = {bob, carol}
  SelfApprovers = {alice}
  Handlers = {h1, h2, h3}
  Relations <- MCRelations
  Fields <- MCFields
  None = None
  MaxMishaps = 2
SYMMETRY Symmetry
INVARIANTS
  TypeOK
  OneCreator
  CreatedByRight
  ApprovedIsTrue
PROPERTIES
  DecisionIsFinal
  
CHECK_DEADLOCK FALSE
