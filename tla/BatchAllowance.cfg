CONSTANTS
  None = None
  Requests = {"r1", "r2", "r3"}
  Ask <- Rivals
  Keys = {"k1", "k2", "k3"}
  LongKeys = {"k3"}
  Assets = {"a1", "a2", "b1"}
  Vehicles = {"v1", "v2"}
  Tenants = {"t1"}
  VehicleOf <- Garage
  TenantOf <- OneTenant
  Capacity = 2
  MaxImages = 2
  Lifetime = FALSE
  MaxPeriod = 2
  LateRequests = FALSE
SPECIFICATION FairSpec
INVARIANTS
  AllowanceRespected
PROPERTIES
  KeepsLedger
  EveryRequestAnswered
  VehicleSettles
CHECK_DEADLOCK FALSE
