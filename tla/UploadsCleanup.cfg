CONSTANTS
  None = None
  Assets = {a1, a2}
  Unsound = {a2}
  Commits = {c1}
  Removals = {r1}
  Cleaners = {k1}
  Reserver = Reserver
  MaxAttempts = 2
  BatchSize = 1
  MaxFlying = 1
  LatePuts = FALSE
SPECIFICATION LiveSpec
INVARIANTS
  DeletionIsOwed
PROPERTIES
  CleanupSettles
CHECK_DEADLOCK FALSE
