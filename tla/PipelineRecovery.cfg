CONSTANTS
  None = None
  Jobs = {j1}
  Studio = {j1}
  Workers = {w1, w2}
  Dispatchers = {d1}
  Messages = {m1}
  MaxAttempts = 2
  MaxReceives = 3
  BatchLimit = 1
  MaxCharges = 2
  SlowHandling = TRUE
SPECIFICATION LiveSpec
INVARIANTS
  NeverStranded
PROPERTIES
  RecoversAfterFaults
CHECK_DEADLOCK FALSE
