CONSTANTS
  None = None
  Jobs = {j1, j2}
  Studio = {j1}
  Workers = {w1, w2}
  Dispatchers = {d1}
  Messages = {m1, m2}
  MaxAttempts = 2
  MaxReceives = 1
  BatchLimit = 2
  MaxCharges = 2
  SlowHandling = FALSE
SPECIFICATION Spec
SYMMETRY Interchangeable
INVARIANTS
  VehicleFollowsJobs
  ExclusiveClaim
  AttemptHistory
  ChargesWithinAttempts
PROPERTIES
  KeepsPromise
CHECK_DEADLOCK FALSE
