----------------------------- MODULE BatchLedger -----------------------------
(***************************************************************************)
(* What the reservation of batches promises a tenant, without locks,        *)
(* transactions and retries: a request is answered once and in one step, a  *)
(* batch is accepted as a whole or not at all and only while the allowance  *)
(* covers it, and a vehicle shows what became of its newest batch.          *)
(***************************************************************************)
EXTENDS Naturals, FiniteSets

CONSTANTS Requests, Ask, Keys, Assets, Vehicles, VehicleOf, TenantOf,
          Capacity, MaxImages, Lifetime, MaxPeriod, None

VARIABLES job,      \* what became of each key's images
          newest,   \* the request whose batch is the vehicle's newest
          vehicle,  \* what the owner of the vehicle sees
          period,   \* the billing period
          answer    \* what each request was told

vars == <<job, newest, vehicle, period, answer>>
-----------------------------------------------------------------------------
JobIds == Keys \X Assets
NoJob  == [status |-> "NONE", by |-> None, billed |-> 0]

Vehicle(id) == VehicleOf[id[2]]
Owner(id)   == TenantOf[Vehicle(id)]

Batch(t, k) == {id \in JobIds : id[1] = k /\ Owner(id) = t /\ job[id].status # "NONE"}

(* Images charged to the tenant's allowance, and images that may yet be.   *)
Charged(t)  == {id \in JobIds : /\ Owner(id) = t /\ job[id].billed # 0
                                /\ Lifetime \/ job[id].billed = period}
InFlight(t) == {id \in JobIds : Owner(id) = t /\ job[id].status = "ACTIVE"}

Covers(t, n) == Cardinality(Charged(t)) + Cardinality(InFlight(t)) + n <= Capacity

Init ==
  /\ job = [id \in JobIds |-> NoJob]
  /\ newest = [v \in Vehicles |-> None]
  /\ vehicle = [v \in Vehicles |-> "DRAFT"]
  /\ period = 1
  /\ answer = [r \in Requests |-> "NONE"]
-----------------------------------------------------------------------------
Waits(r)      == answer[r] = "NONE"
Reply(r, why) == answer' = [answer EXCEPT ![r] = why]

Accept(r) ==
  LET ask == Ask[r] IN
  /\ Waits(r) /\ Batch(ask.tenant, ask.key) = {} /\ vehicle[ask.vehicle] # "PROCESSING"
  /\ \A a \in ask.assets : VehicleOf[a] = ask.vehicle
  /\ Cardinality(ask.assets) <= MaxImages /\ Covers(ask.tenant, Cardinality(ask.assets))
  /\ job' = [id \in JobIds |-> IF id[1] = ask.key /\ id[2] \in ask.assets
                                 THEN [status |-> "ACTIVE", by |-> r, billed |-> 0] ELSE job[id]]
  /\ newest' = [newest EXCEPT ![ask.vehicle] = r]
  /\ vehicle' = [vehicle EXCEPT ![ask.vehicle] = "PROCESSING"]
  /\ Reply(r, "CREATED")
  /\ UNCHANGED period

(* The batch is what the request asks for.                                 *)
Repeats(r, batch) ==
  /\ {id[2] : id \in batch} = Ask[r].assets
  /\ \A id \in batch : LET first == Ask[job[id].by] IN
       /\ first.vehicle = Ask[r].vehicle /\ first.assets = Ask[r].assets
       /\ first.options = Ask[r].options

Replay(r) ==
  LET batch == Batch(Ask[r].tenant, Ask[r].key) IN
  /\ Waits(r) /\ batch # {}
  /\ Reply(r, IF Repeats(r, batch) THEN "EXISTING" ELSE "IDEMPOTENCY_CONFLICT")
  /\ UNCHANGED <<job, newest, vehicle, period>>

Refusals == {"BATCH_LIMIT_EXCEEDED", "ALLOWANCE_EXHAUSTED", "VEHICLE_UNAVAILABLE",
             "ASSETS_NOT_READY", "SERVICE_UNAVAILABLE", "LOST"}

(* A refusal is true when it is given, and leaves nothing behind.          *)
Refuse(r, why) ==
  LET ask == Ask[r] IN
  /\ Waits(r)
  /\ why = "BATCH_LIMIT_EXCEEDED" => Cardinality(ask.assets) > MaxImages
  /\ why = "ALLOWANCE_EXHAUSTED" => ~Covers(ask.tenant, Cardinality(ask.assets))
  /\ why = "VEHICLE_UNAVAILABLE" => Batch(ask.tenant, ask.key) = {}
  /\ Reply(r, why)
  /\ UNCHANGED <<job, newest, vehicle, period>>

(* The vehicle's status, once the jobs are what they are said to be.       *)
Seen(v, jobs) ==
  IF \E id \in JobIds : Vehicle(id) = v /\ jobs[id].status = "ACTIVE" THEN "PROCESSING"
  ELSE IF \E id \in JobIds : jobs[id].status = "FAILED" /\ jobs[id].by = newest[v]
         THEN "PARTIALLY_FAILED"
  ELSE "READY"

(* A job ends once: delivered and charged to a month, or failed and free.  *)
Settle(id) ==
  /\ job[id].status = "ACTIVE"
  /\ \/ \E month \in 1..period :
          job' = [job EXCEPT ![id] = [@ EXCEPT !.status = "COMPLETED", !.billed = month]]
     \/ job' = [job EXCEPT ![id] = [@ EXCEPT !.status = "FAILED"]]
  /\ vehicle' = [vehicle EXCEPT ![Vehicle(id)] = Seen(Vehicle(id), job')]
  /\ UNCHANGED <<newest, period, answer>>

NextMonth ==
  /\ period < MaxPeriod /\ period' = period + 1
  /\ UNCHANGED <<job, newest, vehicle, answer>>

Next ==
  \/ \E r \in Requests : Accept(r) \/ Replay(r) \/ \E why \in Refusals : Refuse(r, why)
  \/ \E id \in JobIds : Settle(id)
  \/ NextMonth

Spec == Init /\ [][Next]_vars
=============================================================================
