CONSTANTS
  None = None
  Jobs = {j1}
  Studio = {j1}
  Workers = {w1, w2}
  Dispatchers = {d1, d2}
  Messages = {m1, m2}
  MaxAttempts = 2
  MaxReceives = 2
  BatchLimit = 1
  MaxCharges = 2
  SlowHandling = FALSE
SPECIFICATION Spec
SYMMETRY Interchangeable
INVARIANTS
  OwnerCanComplete
CHECK_DEADLOCK FALSE
