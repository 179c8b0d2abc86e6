CONSTANTS
  None = None
  Photos = {e1, p1, p2}
  Originals = {e1}
  Broken = {e1}
  Uploads = {a1, a2}
  Calls = {c1, c2}
  Vehicles = {v0, v1, v2}
  Existing = v0
  Details = {d1, d2}
  Concurrency = 1
  MaxPhotos = 2
  MaxSessions = 2
  MaxTroubled = 1
  LeftWith = {d1}
  MaxUnheard = 1
SPECIFICATION Spec
SYMMETRY Interchangeable
INVARIANTS
  SlotsMatch
  UploadsAreWanted
  ContinuesWithStoredPhotos
  VehicleOfSession
  OncePerSession
CHECK_DEADLOCK FALSE
