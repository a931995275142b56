SPECIFICATION Spec
CONSTANTS
  Deliveries = {d1}
  Workers = {w1, w2}
  None = None
  Overlaps = TRUE
  MaxMishaps = 2
INVARIANTS
  RetryIsQueued
CHECK_DEADLOCK FALSE
