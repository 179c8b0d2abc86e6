CONSTANTS
  None = None
  Photos = {p1}
  Originals = {}
  Broken = {}
  Uploads = {a1}
  Calls = {c1}
  Vehicles = {v0, v1}
  Existing = v0
  Details = {d1}
  Concurrency = 1
  MaxPhotos = 1
  MaxSessions = 1
  MaxTroubled = 1
  LeftWith = {}
  MaxUnheard = 0
SPECIFICATION FairSpec
PROPERTIES
  AbortedUploadsEnd
CHECK_DEADLOCK FALSE
