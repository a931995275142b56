SPECIFICATION Spec
CONSTANTS
  Intents = {i1}
  Threaded = {}
  Workers = {w1, w2}
  Operators = {o1, o2}
  None = None
  StaleAfter = 1
  SearchBefore = 1
  SearchAfter = 1
  MaxTime = 3
  MaxAttempts = 2
SYMMETRY Symmetry
INVARIANTS
  TypeOK
  AutomaticSendsOnce
  
  SentIsTrue
  ReplayAuditedFirst
PROPERTIES
  SentIsFinal
  
CHECK_DEADLOCK FALSE
