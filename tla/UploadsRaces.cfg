CONSTANTS
  None = None
  Assets = {a1}
  Unsound = {}
  Commits = {c1, c2}
  Removals = {r1, r2}
  Cleaners = {k1, k2}
  Reserver = Reserver
  MaxAttempts = 2
  BatchSize = 1
  MaxFlying = 1
  LatePuts = TRUE
SPECIFICATION Spec
SYMMETRY Interchangeable
INVARIANTS
  UploadedIsStored
  ReservedIsKept
PROPERTIES
  DeletedIsFinal
CHECK_DEADLOCK FALSE
