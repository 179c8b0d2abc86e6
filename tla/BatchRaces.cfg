CONSTANTS
  None = None
  Requests = {"r1", "r2", "r3", "r4", "r5"}
  Ask <- Races
  Keys = {"k1", "k2", "k3"}
  LongKeys = {}
  Assets = {"a1", "a2", "b1"}
  Vehicles = {"v1", "v2"}
  Tenants = {"t1"}
  VehicleOf <- Garage
  TenantOf <- OneTenant
  Capacity = 3
  MaxImages = 2
  Lifetime = TRUE
  MaxPeriod = 1
  LateRequests = FALSE
SPECIFICATION Spec
INVARIANTS
  ProcessingIffActive
  AttentionFollowsNewest
  AcceptedIsRecorded
  OneBatchPerKey
PROPERTIES
  BatchesRunAsPromised
CHECK_DEADLOCK FALSE
