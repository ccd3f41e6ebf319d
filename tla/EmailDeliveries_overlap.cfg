SPECIFICATION Spec
CONSTANTS
  w1 = w1
  w2 = w2
  d1 = d1
  Workers = {w1, w2}
  Deliveries = {d1}
  Limit = 1
  MaxAttempts = 3
  Overlap = TRUE
  MaxMishaps = 0
INVARIANTS
  NoOtherWorker
