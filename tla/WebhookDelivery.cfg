SPECIFICATION FairSpec
CONSTANTS
  Deliveries = {d1}
  Workers = {w1, w2, w3}
  None = None
  Overlaps = TRUE
  MaxMishaps = 5
INVARIANTS
  TypeOK
  EffectsExclusive
  RecordIsTrue
PROPERTIES
  RerunOnlyAfterRetryable
  Answered
CHECK_DEADLOCK FALSE
