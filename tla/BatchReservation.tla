--------------------------- MODULE BatchReservation ---------------------------
(***************************************************************************)
(* The reservation of processing batches against a tenant's allowance, and  *)
(* the transactions by which workers finish their jobs and settle the       *)
(* vehicle.  Requests carry a client's Idempotency-Key; a retry is another  *)
(* request with the same key.                                               *)
(*                                                                          *)
(* PostgreSQL runs at READ COMMITTED: every statement sees what is          *)
(* committed when it starts, so a transaction is one step per statement     *)
(* whose outcome another transaction can change.  Between a job's           *)
(* reservation and its end the job is just active: ProcessingPipeline       *)
(* models what happens then.  The locks on the originals are in             *)
(* OriginalUploads.                                                         *)
(***************************************************************************)
EXTENDS Naturals, FiniteSets

CONSTANTS Requests,    \* POST /api/jobs requests
          Ask,         \* what each asks: tenant, key, vehicle, assets, options
          Keys,        \* Idempotency-Keys clients choose
          LongKeys,    \* those over 107 of the 128 characters a key may have
          Assets, Vehicles, Tenants,
          VehicleOf,   \* the vehicle an asset belongs to
          TenantOf,    \* the tenant a vehicle belongs to
          Capacity,    \* imageCapacity of the plan
          MaxImages,   \* maxImagesPerBatch of the plan
          Lifetime,    \* allowanceScope is LIFETIME, else BILLING_PERIOD
          MaxPeriod,   \* bound: billing periods
          LateRequests,\* TRUE: the month may turn while a request is under way
          None

Period == 1..MaxPeriod

ASSUME ConstantsAssumption ==
  /\ Ask \in [Requests -> [tenant: Tenants, key: Keys, vehicle: Vehicles,
                           assets: SUBSET Assets, options: STRING]]
  /\ \A r \in Requests : TenantOf[Ask[r].vehicle] = Ask[r].tenant
  /\ \A r \in Requests : Ask[r].assets # {} /\ IsFiniteSet(Ask[r].assets)
  /\ LongKeys \subseteq Keys
  /\ VehicleOf \in [Assets -> Vehicles]
  /\ TenantOf \in [Vehicles -> Tenants]
  /\ Capacity \in Nat /\ MaxImages \in Nat /\ MaxPeriod \in Nat \ {0}
  /\ Lifetime \in BOOLEAN /\ LateRequests \in BOOLEAN
  /\ None \notin Requests \cup Assets

VARIABLES job,         \* ProcessingJob rows, by key and asset
          session,     \* keys of the upload-session usage events
          newest,      \* the request whose batch is the vehicle's newest
          vehicle,     \* Vehicle.status
          ready,       \* the assets that are UPLOADED
          period,      \* the current billing period
          request,     \* requests
          tenantLock,  \* holder of the tenant's allowance lock
          finish,      \* the worker transaction finishing a job
          vehicleLock  \* the asset whose job holds the vehicle's completion lock

rows  == <<job, session, newest, vehicle, ready>>
vars  == <<job, session, newest, vehicle, ready, period, request, tenantLock,
           finish, vehicleLock>>
-----------------------------------------------------------------------------
Processable == {"DRAFT", "READY", "PARTIALLY_FAILED"}
Answers == {"NONE", "CREATED", "EXISTING", "IDEMPOTENCY_CONFLICT",
            "VEHICLE_UNAVAILABLE", "BATCH_LIMIT_EXCEEDED", "ALLOWANCE_EXHAUSTED",
            "ASSETS_NOT_READY", "SERVICE_UNAVAILABLE", "LOST"}

JobIds == Keys \X Assets
NoJob  == [status |-> "NONE", by |-> None, billed |-> 0]
NewJob(r) == [status |-> "ACTIVE", by |-> r, billed |-> 0]
Unfinished == [pc |-> "idle", outcome |-> "NONE", billed |-> 0, settles |-> "NONE"]

TypeOK ==
  /\ job \in [JobIds -> [status: {"NONE", "ACTIVE", "COMPLETED", "FAILED"},
                         by: Requests \cup {None}, billed: 0..MaxPeriod]]
  /\ session \subseteq Keys
  /\ newest \in [Vehicles -> Requests \cup {None}]
  /\ vehicle \in [Vehicles -> Processable \cup {"PROCESSING"}]
  /\ ready \subseteq Assets
  /\ period \in Period
  /\ request \in [Requests -> [pc: {"new", "lock", "count", "assets", "write", "recheck", "done"},
                               period: 0..MaxPeriod, answer: Answers]]
  /\ tenantLock \in [Tenants -> Requests \cup {None}]
  /\ finish \in [JobIds -> [pc: {"idle", "written", "counted"},
                            outcome: {"NONE", "COMPLETED", "FAILED", "INVALID"},
                            billed: 0..MaxPeriod,
                            settles: {"NONE", "READY", "PARTIALLY_FAILED"}]]
  /\ vehicleLock \in [Vehicles -> Assets \cup {None}]

Init ==
  /\ job = [id \in JobIds |-> NoJob]
  /\ session = {}
  /\ newest = [v \in Vehicles |-> None]
  /\ vehicle = [v \in Vehicles |-> "DRAFT"]
  /\ ready = Assets
  /\ period = 1
  /\ request = [r \in Requests |-> [pc |-> "new", period |-> 0, answer |-> "NONE"]]
  /\ tenantLock = [t \in Tenants |-> None]
  /\ finish = [id \in JobIds |-> Unfinished]
  /\ vehicleLock = [v \in Vehicles |-> None]
-----------------------------------------------------------------------------
Vehicle(id) == VehicleOf[id[2]]
Owner(id)   == TenantOf[Vehicle(id)]

(* findBatch: the jobs recorded for a tenant's key.                        *)
Found(t, k) == {id \in JobIds : id[1] = k /\ Owner(id) = t /\ job[id].status # "NONE"}

Same(r, q) == /\ Ask[r].vehicle = Ask[q].vehicle
              /\ Ask[r].assets = Ask[q].assets
              /\ Ask[r].options = Ask[q].options

(* Variant: a key that is known is taken for a replay.                     *)
ReplayAnswerAlways(r, batch) == "EXISTING"

(* resolveReplay: all of the batch asks what the request asks.             *)
ReplayAnswer(r, batch) ==
  IF /\ {id[2] : id \in batch} = Ask[r].assets
     /\ \A id \in batch : Same(job[id].by, r)
    THEN "EXISTING" ELSE "IDEMPOTENCY_CONFLICT"

At(r, pc) == request[r].pc = pc
Go(r, pc) == request' = [request EXCEPT ![r].pc = pc]
Reply(r, answer) ==
  request' = [request EXCEPT ![r] = [@ EXCEPT !.pc = "done", !.answer = answer]]

(* Variant: the lock outlives its transaction.                             *)
ReleaseTenantNever(r) == UNCHANGED tenantLock

ReleaseTenant(r) ==
  tenantLock' = [t \in Tenants |-> IF tenantLock[t] = r THEN None ELSE tenantLock[t]]

(* The allowance's billing period is resolved, then the key is looked up.  *)
Lookup(r) ==
  LET batch == Found(Ask[r].tenant, Ask[r].key) IN
  /\ At(r, "new")
  /\ IF batch # {}
       THEN Reply(r, ReplayAnswer(r, batch))
       ELSE request' = [request EXCEPT ![r] = [@ EXCEPT !.pc = "lock", !.period = period]]
  /\ UNCHANGED <<rows, period, tenantLock, finish, vehicleLock>>

(* Variant: reservations of a tenant are not serialized.                   *)
LockFreeIgnored(t) == TRUE

LockFree(t) == tenantLock[t] = None

(* The transaction takes the tenant's lock and reads the vehicle.          *)
LockTenant(r) ==
  /\ At(r, "lock") /\ LockFree(Ask[r].tenant)
  /\ IF vehicle[Ask[r].vehicle] \in Processable
       THEN Go(r, "count") /\ tenantLock' = [tenantLock EXCEPT ![Ask[r].tenant] = r]
       ELSE Go(r, "recheck") /\ UNCHANGED tenantLock
  /\ UNCHANGED <<rows, period, finish, vehicleLock>>

Charged(t, p) == {id \in JobIds : /\ Owner(id) = t /\ job[id].billed # 0
                                  /\ Lifetime \/ job[id].billed = p}
InFlight(t)   == {id \in JobIds : Owner(id) = t /\ job[id].status = "ACTIVE"}

(* One statement: a completion moves a job from one sum to the other.      *)
Used(t, p) == Cardinality(Charged(t, p)) + Cardinality(InFlight(t))

(* Variant: a batch that uses the allowance up is refused.                 *)
AllowanceCoversLess(r) ==
  Used(Ask[r].tenant, request[r].period) + Cardinality(Ask[r].assets) < Capacity

AllowanceCovers(r) ==
  Used(Ask[r].tenant, request[r].period) + Cardinality(Ask[r].assets) <= Capacity

Count(r) ==
  /\ At(r, "count")
  /\ \/ /\ Cardinality(Ask[r].assets) > MaxImages
        /\ Reply(r, "BATCH_LIMIT_EXCEEDED") /\ ReleaseTenant(r)
     \/ /\ Cardinality(Ask[r].assets) <= MaxImages /\ ~AllowanceCovers(r)
        /\ Reply(r, "ALLOWANCE_EXHAUSTED") /\ ReleaseTenant(r)
     \/ /\ Cardinality(Ask[r].assets) <= MaxImages /\ AllowanceCovers(r)
        /\ Go(r, "assets") /\ UNCHANGED tenantLock
  /\ UNCHANGED <<rows, period, finish, vehicleLock>>

ReadAssets(r) ==
  /\ At(r, "assets")
  /\ IF \A a \in Ask[r].assets : a \in ready /\ VehicleOf[a] = Ask[r].vehicle
       THEN Go(r, "write") /\ UNCHANGED tenantLock
       ELSE Reply(r, "ASSETS_NOT_READY") /\ ReleaseTenant(r)
  /\ UNCHANGED <<rows, period, finish, vehicleLock>>

(* Variant: the upload-session event has no unique key.                    *)
SessionTakenNever(k) == FALSE

(* UsageEvent.idempotencyKey is unique over all tenants.                   *)
SessionTaken(k) == k \in session

(* Unique keys of the rows the batch would insert.                         *)
Duplicate(r) ==
  \/ SessionTaken(Ask[r].key)
  \/ \E id \in Found(Ask[r].tenant, Ask[r].key) : id[2] \in Ask[r].assets

(* "usage:upload-session:" and the key must fit UsageEvent.idempotencyKey,  *)
(* which has 128 characters.                                                *)
KeyFits(k) == k \notin LongKeys

Claimable(r) == vehicle[Ask[r].vehicle] \in Processable

(* The conditional claim of the vehicle, the inserts and the commit.       *)
WriteBatch(r) ==
  /\ At(r, "write") /\ Claimable(r) /\ ~Duplicate(r) /\ KeyFits(Ask[r].key)
  /\ job' = [id \in JobIds |->
       IF id[1] = Ask[r].key /\ id[2] \in Ask[r].assets THEN NewJob(r) ELSE job[id]]
  /\ session' = session \cup {Ask[r].key}
  /\ newest' = [newest EXCEPT ![Ask[r].vehicle] = r]
  /\ vehicle' = [vehicle EXCEPT ![Ask[r].vehicle] = "PROCESSING"]
  /\ Reply(r, "CREATED") /\ ReleaseTenant(r)
  /\ UNCHANGED <<ready, period, finish, vehicleLock>>

(* The insert of the session's usage event fails: the error is thrown.     *)
WriteFails(r) ==
  /\ At(r, "write") /\ Claimable(r) /\ ~Duplicate(r) /\ ~KeyFits(Ask[r].key)
  /\ Reply(r, "SERVICE_UNAVAILABLE") /\ ReleaseTenant(r)
  /\ UNCHANGED <<rows, period, finish, vehicleLock>>

(* WRITE_RACE or a unique-constraint error: the transaction rolls back.    *)
WriteRefused(r) ==
  /\ At(r, "write") /\ (~Claimable(r) \/ Duplicate(r))
  /\ Go(r, "recheck") /\ ReleaseTenant(r)
  /\ UNCHANGED <<rows, period, finish, vehicleLock>>

Recheck(r) ==
  LET batch == Found(Ask[r].tenant, Ask[r].key) IN
  /\ At(r, "recheck")
  /\ Reply(r, IF batch # {} THEN ReplayAnswer(r, batch) ELSE "VEHICLE_UNAVAILABLE")
  /\ UNCHANGED <<rows, period, tenantLock, finish, vehicleLock>>

(* The request dies; its transaction rolls back and its locks are released.*)
RequestLost(r) ==
  /\ request[r].pc \notin {"new", "done"}
  /\ Reply(r, "LOST") /\ ReleaseTenant(r)
  /\ UNCHANGED <<rows, period, finish, vehicleLock>>
-----------------------------------------------------------------------------
(* A worker finishes a job (completeJob, failJob) and settles the vehicle  *)

(* The job's own rows, not committed yet; INVALID also marks the original. *)
(* The completion's usage event bears the period its worker computed.      *)
WriteOutcome(id) ==
  /\ job[id].status = "ACTIVE" /\ finish[id].pc = "idle"
  /\ \E outcome \in {"COMPLETED", "FAILED", "INVALID"} :
       finish' = [finish EXCEPT ![id] =
         [pc |-> "written", outcome |-> outcome, settles |-> "NONE",
          billed |-> IF outcome = "COMPLETED" THEN period ELSE 0]]
  /\ UNCHANGED <<rows, period, request, tenantLock, vehicleLock>>

(* Variant: the completion lock is not taken.                              *)
CompletionLockIgnored(id) == TRUE

CompletionLock(id) == vehicleLock[Vehicle(id)] = None

OtherActive(id) == \E other \in JobIds \ {id} :
  Vehicle(other) = Vehicle(id) /\ job[other].status = "ACTIVE"

(* Variant: a failure of any batch of the vehicle counts.                  *)
NewestFailedEver(id) ==
  \/ finish[id].outcome # "COMPLETED"
  \/ \E other \in JobIds \ {id} :
       Vehicle(other) = Vehicle(id) /\ job[other].status = "FAILED"

(* A failed job in the newest batch, this one's outcome included.          *)
NewestFailed(id) ==
  \/ job[id].by = newest[Vehicle(id)] /\ finish[id].outcome # "COMPLETED"
  \/ \E other \in JobIds \ {id} :
       /\ Vehicle(other) = Vehicle(id) /\ job[other].status = "FAILED"
       /\ job[other].by = newest[Vehicle(id)]

(* Under the vehicle's lock the statement sees every job committed before. *)
CountActive(id) ==
  /\ finish[id].pc = "written" /\ CompletionLock(id)
  /\ vehicleLock' = [vehicleLock EXCEPT ![Vehicle(id)] = id[2]]
  /\ finish' = [finish EXCEPT ![id] = [@ EXCEPT !.pc = "counted",
       !.settles = IF OtherActive(id) THEN "NONE"
                   ELSE IF NewestFailed(id) THEN "PARTIALLY_FAILED" ELSE "READY"]]
  /\ UNCHANGED <<rows, period, request, tenantLock>>

(* Variant: a completion is not charged.                                   *)
EndedFree(id) ==
  [job[id] EXCEPT !.status = IF finish[id].outcome = "COMPLETED" THEN "COMPLETED" ELSE "FAILED"]

Ended(id) == [job[id] EXCEPT !.billed = finish[id].billed,
  !.status = IF finish[id].outcome = "COMPLETED" THEN "COMPLETED" ELSE "FAILED"]

ReleaseVehicle(id) ==
  vehicleLock' = [vehicleLock EXCEPT ![Vehicle(id)] = IF @ = id[2] THEN None ELSE @]

CommitOutcome(id) ==
  /\ finish[id].pc = "counted"
  /\ job' = [job EXCEPT ![id] = Ended(id)]
  /\ ready' = IF finish[id].outcome = "INVALID" THEN ready \ {id[2]} ELSE ready
  /\ vehicle' = [vehicle EXCEPT ![Vehicle(id)] =
       IF @ = "PROCESSING" /\ finish[id].settles # "NONE" THEN finish[id].settles ELSE @]
  /\ finish' = [finish EXCEPT ![id] = Unfinished]
  /\ ReleaseVehicle(id)
  /\ UNCHANGED <<session, newest, period, request, tenantLock>>

(* The worker dies or its transaction fails: the job stays active.         *)
OutcomeLost(id) ==
  /\ finish[id].pc # "idle"
  /\ finish' = [finish EXCEPT ![id] = Unfinished]
  /\ ReleaseVehicle(id)
  /\ UNCHANGED <<rows, period, request, tenantLock>>

(* The next billing period begins.                                         *)
MonthTurns ==
  /\ period < MaxPeriod
  /\ LateRequests \/ \A r \in Requests : request[r].pc \in {"new", "recheck", "done"}
  /\ period' = period + 1
  /\ UNCHANGED <<rows, request, tenantLock, finish, vehicleLock>>
-----------------------------------------------------------------------------
RequestSteps(r) ==
  \/ Lookup(r) \/ LockTenant(r) \/ Count(r) \/ ReadAssets(r)
  \/ WriteBatch(r) \/ WriteFails(r) \/ WriteRefused(r) \/ Recheck(r)

FinishSteps(id) == WriteOutcome(id) \/ CountActive(id) \/ CommitOutcome(id)

Next == \/ \E r \in Requests : RequestSteps(r) \/ RequestLost(r)
        \/ \E id \in JobIds : FinishSteps(id) \/ OutcomeLost(id)
        \/ MonthTurns

Spec == Init /\ [][Next]_vars

(* Some request goes on while one can, and a job's end is tried again until  *)
(* it commits (ProcessingPipeline).  That some process runs is all the      *)
(* properties need: every request and every job ends once.                  *)
Fairness ==
  /\ WF_vars(\E r \in Requests : RequestSteps(r))
  /\ WF_vars(\E id \in JobIds : WriteOutcome(id))
  /\ SF_vars(\E id \in JobIds : CountActive(id))
  /\ SF_vars(\E id \in JobIds : CommitOutcome(id))

FairSpec == Spec /\ Fairness
-----------------------------------------------------------------------------
(* Properties                                                              *)

(* What a tenant was charged for in the period and what is in flight never  *)
(* exceeds the plan, however reservations of different vehicles and         *)
(* completions interleave (reserveInTransaction, countAllowanceUsed).       *)
AllowanceRespected == \A t \in Tenants : Used(t, period) <= Capacity

(* A tenant's key names one batch: all its jobs were created by one request *)
(* and are all that request asked for, and it was counted as a session once.*)
OneBatchPerKey ==
  \A t \in Tenants, k \in Keys :
    LET batch == Found(t, k) IN
    batch # {} =>
      /\ k \in session
      /\ \E r \in Requests : /\ \A id \in batch : job[id].by = r
                             /\ {id[2] : id \in batch} = Ask[r].assets

(* A vehicle is PROCESSING exactly while one batch of it, the newest, is    *)
(* active: two finishing transactions never both leave it to the other, and *)
(* differently keyed requests never start two batches.                      *)
ProcessingIffActive ==
  \A v \in Vehicles :
    LET active == {id \in JobIds : Vehicle(id) = v /\ job[id].status = "ACTIVE"} IN
    /\ vehicle[v] = "PROCESSING" <=> active # {}
    /\ \A id \in active : job[id].by = newest[v]

(* A settled vehicle needs attention exactly when its newest batch has a    *)
(* failure; failures of earlier batches do not count (updateVehicleStatus). *)
AttentionFollowsNewest ==
  \A v \in Vehicles :
    LET failed == {id \in JobIds : job[id].status = "FAILED" /\ job[id].by = newest[v]} IN
    /\ vehicle[v] = "PARTIALLY_FAILED" => newest[v] # None /\ failed # {}
    /\ vehicle[v] = "READY" => newest[v] # None /\ failed = {}

(* An accepted request's batch exists and is what it asked for; of the      *)
(* requests with one key exactly the creator was told CREATED.              *)
AcceptedIsRecorded ==
  \A r \in Requests :
    LET batch == Found(Ask[r].tenant, Ask[r].key) IN
    /\ request[r].answer \in {"CREATED", "EXISTING"} =>
         /\ {id[2] : id \in batch} = Ask[r].assets
         /\ \A id \in batch : Same(job[id].by, r)
    /\ request[r].answer = "CREATED" <=> \E id \in batch : job[id].by = r

(* The reservation promises what BatchLedger promises: each request is      *)
(* answered in one step as if requests and completions came one by one, an  *)
(* accepted batch was covered by the allowance when it was accepted, every  *)
(* refusal was true when it was given, and a job's end settles the vehicle  *)
(* (reserveInTransaction, resolveReplay, updateVehicleStatus).              *)
Ledger == INSTANCE BatchLedger WITH answer <- [r \in Requests |-> request[r].answer]
KeepsLedger == Ledger!Spec

(* The batch of a request, as the pipeline is to work on it.               *)
JobOf(r, a) == job[<<Ask[r].key, a>>]

Pipeline(r) == INSTANCE JobOutcomes WITH
  Jobs <- Ask[r].assets,
  outcome <- [a \in Ask[r].assets |-> CASE JobOf(r, a).status = "ACTIVE" -> "pending"
                                        [] JobOf(r, a).status = "COMPLETED" -> "delivered"
                                        [] OTHER -> "failed"],
  billed <- {a \in Ask[r].assets : JobOf(r, a).billed # 0},
  vehicle <- vehicle[Ask[r].vehicle]

Created(r)  == request[r].answer = "CREATED"
Underway(r) == Created(r) /\ \E a \in Ask[r].assets : JobOf(r, a).status = "ACTIVE"

(* Among all the requests and vehicles each batch is what JobOutcomes says  *)
(* of one: it starts so when it is accepted, and until it has ended nothing *)
(* but its own jobs' ends touches its jobs, charges and vehicle.           *)
BatchesRunAsPromised ==
  [][\A r \in Requests :
       /\ ~Created(r) /\ Created(r)' => Pipeline(r)!Init'
       /\ Underway(r) => [Pipeline(r)!Next]_(Pipeline(r)!vars)]_vars

(* Locks never leave a request waiting for ever.                           *)
EveryRequestAnswered == \A r \in Requests : <>(request[r].pc = "done")

(* A vehicle does not stay PROCESSING: the last finishing job settles it.  *)
VehicleSettles ==
  \A v \in Vehicles : vehicle[v] = "PROCESSING" ~> vehicle[v] # "PROCESSING"
=============================================================================
