----------------------- MODULE BatchReservationProofs -----------------------
(***************************************************************************)
(* Proofs about BatchReservation for any number of requests, keys, vehicles *)
(* and tenants: what a key and an answer stand for, that a vehicle follows  *)
(* its newest batch, and that the allowance is never exceeded.              *)
(***************************************************************************)
EXTENDS BatchReservation, FiniteSetTheorems, TLAPS

JobRow == [status: {"NONE", "ACTIVE", "COMPLETED", "FAILED"},
           by: Requests \cup {None}, billed: 0..MaxPeriod]
RequestState == [pc: {"new", "lock", "count", "assets", "write", "recheck", "done"},
                 period: 0..MaxPeriod, answer: Answers]
FinishState == [pc: {"idle", "written", "counted"},
                outcome: {"NONE", "COMPLETED", "FAILED", "INVALID"},
                billed: 0..MaxPeriod,
                settles: {"NONE", "READY", "PARTIALLY_FAILED"}]

LEMMA TypesNamed ==
  TypeOK <=> /\ job \in [JobIds -> JobRow] /\ session \subseteq Keys
             /\ newest \in [Vehicles -> Requests \cup {None}]
             /\ vehicle \in [Vehicles -> Processable \cup {"PROCESSING"}]
             /\ ready \subseteq Assets /\ period \in Period
             /\ request \in [Requests -> RequestState]
             /\ tenantLock \in [Tenants -> Requests \cup {None}]
             /\ finish \in [JobIds -> FinishState]
             /\ vehicleLock \in [Vehicles -> Assets \cup {None}]
BY DEF TypeOK, JobRow, RequestState, FinishState

LEMMA RowsAsked ==
  ASSUME NEW r \in Requests
  PROVE  /\ Ask[r].tenant \in Tenants /\ Ask[r].key \in Keys /\ Ask[r].vehicle \in Vehicles
         /\ Ask[r].assets \subseteq Assets /\ Ask[r].assets # {} /\ IsFiniteSet(Ask[r].assets)
         /\ TenantOf[Ask[r].vehicle] = Ask[r].tenant /\ r # None
BY ConstantsAssumption

LEMMA JobFacts ==
  ASSUME NEW id \in JobIds
  PROVE  /\ id[1] \in Keys /\ id[2] \in Assets /\ id = <<id[1], id[2]>>
         /\ Vehicle(id) \in Vehicles /\ Owner(id) \in Tenants
         /\ id[2] # None
BY ConstantsAssumption DEF JobIds, Vehicle, Owner

LEMMA PeriodFacts == /\ \A p \in Period : p \in 0..MaxPeriod /\ p # 0
                     /\ 0 \in 0..MaxPeriod /\ 1 \in Period /\ MaxPeriod \in Nat
BY ConstantsAssumption DEF Period

(* What a request or a job's end becomes has its type.                     *)
LEMMA RecordTypes ==
  /\ \A r \in Requests : NewJob(r) \in JobRow /\ NewJob(r).status = "ACTIVE"
                         /\ NewJob(r).by = r /\ NewJob(r).billed = 0
  /\ Unfinished \in FinishState /\ Unfinished.pc = "idle"
  /\ NoJob \in JobRow /\ NoJob.status = "NONE" /\ NoJob.billed = 0
BY PeriodFacts DEF NewJob, NoJob, Unfinished, JobRow, FinishState

LEMMA TypeInit == Init => TypeOK
<1> SUFFICES ASSUME Init PROVE TypeOK
  OBVIOUS
<1>1. request \in [Requests -> RequestState]
  BY PeriodFacts DEF Init, RequestState, Answers
<1> QED BY <1>1, TypesNamed, RecordTypes, PeriodFacts DEF Init, Processable

LEMMA RequestTypes ==
  ASSUME TypeOK, NEW r \in Requests
  PROVE  /\ \A to \in {"lock", "count", "assets", "write", "recheck"} :
              LET q == [request[r] EXCEPT !.pc = to] IN
              /\ q \in RequestState /\ q.pc = to /\ q.answer = request[r].answer
              /\ q.period = request[r].period
         /\ \A answer \in Answers :
              LET q == [request[r] EXCEPT !.pc = "done", !.answer = answer] IN
              q \in RequestState /\ q.pc = "done" /\ q.answer = answer
         /\ LET q == [request[r] EXCEPT !.pc = "lock", !.period = period] IN
            /\ q \in RequestState /\ q.pc = "lock" /\ q.answer = request[r].answer
            /\ q.period = period
<1>1. request[r] \in RequestState /\ period \in 0..MaxPeriod
  BY TypesNamed, PeriodFacts
<1> QED BY <1>1 DEF RequestState
-----------------------------------------------------------------------------
(* What a request was told, and what the rows say.                         *)

RequestFits(r) ==
  /\ request[r].pc # "done" => request[r].answer = "NONE"
  /\ request[r].pc = "write" => \A a \in Ask[r].assets : VehicleOf[a] = Ask[r].vehicle

(* A key belongs to the request that was told CREATED, with all its jobs.  *)
BatchWhole(r) ==
  request[r].answer = "CREATED" =>
    /\ Ask[r].key \in session
    /\ \A a \in Ask[r].assets : VehicleOf[a] = Ask[r].vehicle
    /\ \A id \in JobIds : id[1] = Ask[r].key =>
         IF id[2] \in Ask[r].assets THEN job[id].status # "NONE" /\ job[id].by = r
                                    ELSE job[id].status = "NONE"

JobRecorded(id) ==
  job[id].status # "NONE" =>
    /\ job[id].by \in Requests /\ request[job[id].by].answer = "CREATED"
    /\ id[1] = Ask[job[id].by].key /\ id[2] \in Ask[job[id].by].assets

Replays(r) ==
  LET batch == Found(Ask[r].tenant, Ask[r].key) IN
  /\ {id[2] : id \in batch} = Ask[r].assets
  /\ \A id \in batch : Same(job[id].by, r)

RecordInv ==
  /\ TypeOK
  /\ \A r \in Requests : RequestFits(r) /\ BatchWhole(r)
  /\ \A r \in Requests : request[r].answer = "EXISTING" => Replays(r)
  /\ \A id \in JobIds : JobRecorded(id)
  /\ \A id \in JobIds : finish[id].pc # "idle" => job[id].status = "ACTIVE"

(* A vehicle is PROCESSING for its newest batch, and a job that counted     *)
(* holds the vehicle: what it found cannot change before it commits.       *)
NewestOf(v) == newest[v] # None => Ask[newest[v]].vehicle = v

Settlement(id) == IF OtherActive(id) THEN "NONE"
                  ELSE IF NewestFailed(id) THEN "PARTIALLY_FAILED" ELSE "READY"

CountHolds(id) ==
  finish[id].pc = "counted" =>
    vehicleLock[Vehicle(id)] = id[2] /\ finish[id].settles = Settlement(id)

FollowsActive(v) ==
  /\ vehicle[v] = "PROCESSING" <=> \E id \in JobIds : Vehicle(id) = v /\ job[id].status = "ACTIVE"
  /\ \A id \in JobIds : Vehicle(id) = v /\ job[id].status = "ACTIVE" => job[id].by = newest[v]

FailedOfNewest(v, id) == job[id].status = "FAILED" /\ job[id].by = newest[v]

FollowsNewest(v) ==
  /\ vehicle[v] = "PARTIALLY_FAILED" =>
       newest[v] # None /\ \E id \in JobIds : FailedOfNewest(v, id)
  /\ vehicle[v] = "READY" => newest[v] # None /\ \A id \in JobIds : ~FailedOfNewest(v, id)

VehicleInv ==
  /\ RecordInv
  /\ \A v \in Vehicles : NewestOf(v) /\ FollowsActive(v) /\ FollowsNewest(v)
  /\ \A id \in JobIds : CountHolds(id)

(* A request that was told the allowance suffices holds the tenant's lock, *)
(* and it still suffices: nobody else of the tenant can reserve, and a job  *)
(* that ends only moves from one sum to the other.                         *)
Reserving == {"count", "assets", "write"}

LockHeld(r) == request[r].pc \in Reserving => tenantLock[Ask[r].tenant] = r

InPeriod(r) == request[r].pc \in Reserving \cup {"lock"} => Lifetime \/ request[r].period = period

Granted(r) ==
  request[r].pc \in {"assets", "write"} =>
    Used(Ask[r].tenant, period) + Cardinality(Ask[r].assets) <= Capacity

Recorded == {id \in JobIds : job[id].status # "NONE"}

Bills(id) ==
  /\ job[id].billed <= period /\ finish[id].billed <= period
  /\ job[id].billed # 0 => job[id].status # "NONE"

LedgerInv ==
  /\ RecordInv
  /\ IsFiniteSet(Recorded)
  /\ \A id \in JobIds : Bills(id)
  /\ \A r \in Requests : LockHeld(r) /\ InPeriod(r) /\ Granted(r)
  /\ AllowanceRespected
-----------------------------------------------------------------------------
(* Steps of a request before its batch is written change only the request  *)
(* and the lock.                                                           *)
Asking(r) == Lookup(r) \/ LockTenant(r) \/ Count(r) \/ ReadAssets(r) \/ WriteFails(r)
               \/ WriteRefused(r) \/ Recheck(r) \/ RequestLost(r)

(* Request r becomes q.                                                    *)
Moves(r, q) ==
  /\ q \in RequestState /\ request' = [request EXCEPT ![r] = q]
  /\ UNCHANGED <<rows, period, finish, vehicleLock>>
  /\ request[r].pc # "done" /\ q.answer # "CREATED"
  /\ q.pc # "done" => q.answer = "NONE"
  /\ q.answer = "EXISTING" => Replays(r)
  /\ IF q.pc = "lock" THEN q.period = period ELSE q.period = request[r].period
  /\ q.pc \in Reserving => request[r].pc \in Reserving \cup {"lock"}
  /\ q.pc = "count" => /\ tenantLock[Ask[r].tenant] = None
                       /\ tenantLock' = [tenantLock EXCEPT ![Ask[r].tenant] = r]
  /\ q.pc = "assets" => /\ request[r].pc = "count" /\ UNCHANGED tenantLock
                        /\ Cardinality(Ask[r].assets) <= MaxImages /\ AllowanceCovers(r)
  /\ q.pc = "write" => /\ request[r].pc = "assets" /\ UNCHANGED tenantLock
                       /\ \A a \in Ask[r].assets : VehicleOf[a] = Ask[r].vehicle
  /\ q.pc \notin Reserving => UNCHANGED tenantLock \/ ReleaseTenant(r)

LEMMA AnswersReplay ==
  ASSUME NEW r \in Requests, NEW batch, batch = Found(Ask[r].tenant, Ask[r].key),
         ReplayAnswer(r, batch) = "EXISTING"
  PROVE  Replays(r)
BY DEF ReplayAnswer, Replays

(* A request that is answered, without a batch of its own.                 *)
LEMMA Answered ==
  ASSUME RecordInv, NEW r \in Requests, NEW answer \in Answers, Reply(r, answer),
         request[r].pc # "done", answer # "CREATED", answer = "EXISTING" => Replays(r),
         UNCHANGED <<rows, period, finish, vehicleLock>>,
         UNCHANGED tenantLock \/ ReleaseTenant(r)
  PROVE  \E q : Moves(r, q)
<1> DEFINE q == [request[r] EXCEPT !.pc = "done", !.answer = answer]
<1>1. request[r] \in RequestState /\ request \in [Requests -> RequestState]
  BY TypesNamed DEF RecordInv
<1>2. /\ q \in RequestState /\ q.pc = "done" /\ q.answer = answer
      /\ q.period = request[r].period
  BY <1>1 DEF RequestState
<1>3. request' = [request EXCEPT ![r] = q]
  BY <1>1 DEF Reply
<1> HIDE DEF q
<1>4. Moves(r, q)
  BY <1>2, <1>3 DEF Moves, Reserving
<1> QED BY <1>4

(* A request that goes on.                                                 *)
LEMMA GoesOn ==
  ASSUME RecordInv, NEW r \in Requests, NEW to \in {"count", "assets", "write", "recheck"},
         Go(r, to), request[r].pc # "done"
  PROVE  \E q \in RequestState :
           /\ request' = [request EXCEPT ![r] = q]
           /\ q.pc = to /\ q.answer = "NONE" /\ q.period = request[r].period
<1> DEFINE q == [request[r] EXCEPT !.pc = to]
<1>1. /\ request[r] \in RequestState /\ request \in [Requests -> RequestState]
      /\ request[r].answer = "NONE"
  BY TypesNamed DEF RecordInv, RequestFits
<1>2. q \in RequestState /\ q.pc = to /\ q.answer = "NONE" /\ q.period = request[r].period
  BY <1>1 DEF RequestState
<1>3. request' = [request EXCEPT ![r] = q]
  BY <1>1 DEF Go
<1> HIDE DEF q
<1> QED BY <1>2, <1>3

LEMMA AskingMoves ==
  ASSUME RecordInv, NEW r \in Requests, Asking(r)
  PROVE  \E q : Moves(r, q)
<1> DEFINE batch == Found(Ask[r].tenant, Ask[r].key)
<1>1. /\ request[r] \in RequestState /\ request \in [Requests -> RequestState]
      /\ request[r].pc # "done" => request[r].answer = "NONE"
  BY TypesNamed DEF RecordInv, RequestFits
<1>2. /\ ReplayAnswer(r, batch) \in {"EXISTING", "IDEMPOTENCY_CONFLICT"}
      /\ ReplayAnswer(r, batch) = "EXISTING" => Replays(r)
  BY AnswersReplay DEF ReplayAnswer
<1> HIDE DEF batch
<1>3. CASE Lookup(r)
  <2>1. CASE batch # {}
    <3>1. /\ Reply(r, ReplayAnswer(r, batch)) /\ request[r].pc # "done"
          /\ UNCHANGED <<rows, period, tenantLock, finish, vehicleLock>>
      BY <1>3, <2>1 DEF Lookup, At, batch
    <3> QED BY <1>2, <3>1, Answered DEF Answers
  <2>2. CASE batch = {}
    <3> DEFINE q == [request[r] EXCEPT !.pc = "lock", !.period = period]
    <3>1. period \in 0..MaxPeriod /\ request[r].answer = "NONE"
      BY <1>1, <1>3, TypesNamed, PeriodFacts DEF RecordInv, Lookup, At
    <3>2. q \in RequestState /\ q.pc = "lock" /\ q.answer = "NONE" /\ q.period = period
      BY <1>1, <3>1 DEF RequestState
    <3>3. request' = [request EXCEPT ![r] = q]
      BY <1>1, <1>3, <2>2 DEF Lookup, batch
    <3> HIDE DEF q
    <3>4. Moves(r, q)
      BY <1>3, <3>2, <3>3 DEF Moves, Lookup, At, Reserving
    <3> QED BY <3>4
  <2> QED BY <2>1, <2>2
<1>4. CASE LockTenant(r)
  <2>1. CASE vehicle[Ask[r].vehicle] \in Processable
    <3>1. Go(r, "count") /\ request[r].pc # "done"
      BY <1>4, <2>1 DEF LockTenant, At
    <3>2. PICK q \in RequestState :
            /\ request' = [request EXCEPT ![r] = q]
            /\ q.pc = "count" /\ q.answer = "NONE" /\ q.period = request[r].period
      BY <3>1, GoesOn
    <3>3. Moves(r, q)
      BY <1>4, <2>1, <3>2 DEF LockTenant, At, LockFree, Moves, Reserving
    <3> QED BY <3>3
  <2>2. CASE vehicle[Ask[r].vehicle] \notin Processable
    <3>1. Go(r, "recheck") /\ request[r].pc # "done"
      BY <1>4, <2>2 DEF LockTenant, At
    <3>2. PICK q \in RequestState :
            /\ request' = [request EXCEPT ![r] = q]
            /\ q.pc = "recheck" /\ q.answer = "NONE" /\ q.period = request[r].period
      BY <3>1, GoesOn
    <3>3. Moves(r, q)
      BY <1>4, <2>2, <3>2 DEF LockTenant, At, Moves, Reserving
    <3> QED BY <3>3
  <2> QED BY <2>1, <2>2
<1>5. CASE Count(r)
  <2>1. CASE \E answer \in {"BATCH_LIMIT_EXCEEDED", "ALLOWANCE_EXHAUSTED"} :
               Reply(r, answer) /\ ReleaseTenant(r)
    BY <1>5, <2>1, Answered DEF Count, At, Answers
  <2>2. CASE /\ Cardinality(Ask[r].assets) <= MaxImages /\ AllowanceCovers(r)
             /\ Go(r, "assets") /\ UNCHANGED tenantLock
    <3>1. PICK q \in RequestState :
            /\ request' = [request EXCEPT ![r] = q]
            /\ q.pc = "assets" /\ q.answer = "NONE" /\ q.period = request[r].period
      BY <1>5, <2>2, GoesOn DEF Count, At
    <3>2. Moves(r, q)
      BY <1>5, <2>2, <3>1 DEF Count, At, Moves, Reserving
    <3> QED BY <3>2
  <2> QED BY <1>5, <2>1, <2>2 DEF Count
<1>6. CASE ReadAssets(r)
  <2>1. CASE Reply(r, "ASSETS_NOT_READY") /\ ReleaseTenant(r)
    BY <1>6, <2>1, Answered DEF ReadAssets, At, Answers
  <2>2. CASE /\ \A a \in Ask[r].assets : VehicleOf[a] = Ask[r].vehicle
             /\ Go(r, "write") /\ UNCHANGED tenantLock
    <3>1. PICK q \in RequestState :
            /\ request' = [request EXCEPT ![r] = q]
            /\ q.pc = "write" /\ q.answer = "NONE" /\ q.period = request[r].period
      BY <1>6, <2>2, GoesOn DEF ReadAssets, At
    <3>2. Moves(r, q)
      BY <1>6, <2>2, <3>1 DEF ReadAssets, At, Moves, Reserving
    <3> QED BY <3>2
  <2> QED BY <1>6, <2>1, <2>2 DEF ReadAssets
<1>7. CASE WriteFails(r)
  BY <1>7, Answered DEF WriteFails, At, Answers
<1>8. CASE WriteRefused(r)
  <2>1. PICK q \in RequestState :
          /\ request' = [request EXCEPT ![r] = q]
          /\ q.pc = "recheck" /\ q.answer = "NONE" /\ q.period = request[r].period
    BY <1>8, GoesOn DEF WriteRefused, At
  <2>2. Moves(r, q)
    BY <1>8, <2>1 DEF WriteRefused, At, Moves, Reserving
  <2> QED BY <2>2
<1>9. CASE Recheck(r)
  <2>1. CASE batch # {}
    <3>1. /\ Reply(r, ReplayAnswer(r, batch)) /\ request[r].pc # "done"
          /\ UNCHANGED <<rows, period, tenantLock, finish, vehicleLock>>
      BY <1>9, <2>1 DEF Recheck, At, batch
    <3> QED BY <1>2, <3>1, Answered DEF Answers
  <2>2. CASE batch = {}
    BY <1>9, <2>2, Answered DEF Recheck, At, Answers, batch
  <2> QED BY <2>1, <2>2
<1>10. CASE RequestLost(r)
  BY <1>10, Answered DEF RequestLost, Answers
<1> QED BY <1>3, <1>4, <1>5, <1>6, <1>7, <1>8, <1>9, <1>10 DEF Asking

LEMMA LockTypes ==
  ASSUME TypeOK, NEW r \in Requests
  PROVE  /\ ReleaseTenant(r) => /\ tenantLock' \in [Tenants -> Requests \cup {None}]
                                /\ \A t \in Tenants : tenantLock[t] # r => tenantLock'[t] = tenantLock[t]
         /\ \A t \in Tenants : [tenantLock EXCEPT ![t] = r] \in [Tenants -> Requests \cup {None}]
BY TypesNamed DEF ReleaseTenant

LEMMA RecordFacts ==
  ASSUME RecordInv
  PROVE  /\ job \in [JobIds -> JobRow] /\ request \in [Requests -> RequestState]
         /\ finish \in [JobIds -> FinishState]
         /\ tenantLock \in [Tenants -> Requests \cup {None}]
         /\ newest \in [Vehicles -> Requests \cup {None}]
         /\ vehicle \in [Vehicles -> Processable \cup {"PROCESSING"}]
         /\ vehicleLock \in [Vehicles -> Assets \cup {None}]
         /\ session \subseteq Keys /\ ready \subseteq Assets /\ period \in Period
BY TypesNamed DEF RecordInv

LEMMA MovesKeepsRecords ==
  ASSUME RecordInv, NEW r \in Requests, NEW q, Moves(r, q)
  PROVE  RecordInv'
<1>1. /\ q \in RequestState /\ request' = [request EXCEPT ![r] = q]
      /\ UNCHANGED <<rows, period, finish, vehicleLock>>
      /\ request[r].pc # "done" /\ q.answer # "CREATED"
      /\ q.pc # "done" => q.answer = "NONE"
      /\ q.answer = "EXISTING" => Replays(r)
      /\ q.pc = "write" => \A a \in Ask[r].assets : VehicleOf[a] = Ask[r].vehicle
  BY DEF Moves
<1>2. UNCHANGED <<job, session, newest, vehicle, ready>>
  BY <1>1 DEF rows
<1>3. tenantLock' \in [Tenants -> Requests \cup {None}]
  <2>1. TypeOK /\ Ask[r].tenant \in Tenants
    BY RowsAsked DEF RecordInv
  <2>2. \/ UNCHANGED tenantLock \/ ReleaseTenant(r)
        \/ tenantLock' = [tenantLock EXCEPT ![Ask[r].tenant] = r]
    BY DEF Moves, Reserving
  <2> QED BY <2>1, <2>2, LockTypes, TypesNamed
<1>4. request' \in [Requests -> RequestState]
  BY <1>1, RecordFacts
<1>5. TypeOK'
  BY <1>1, <1>2, <1>3, <1>4, RecordFacts DEF TypeOK, JobRow, RequestState, FinishState
<1>6. /\ request'[r] = q
      /\ \A s \in Requests \ {r} : request'[s] = request[s]
      /\ request[r].answer = "NONE"
  BY <1>1, RecordFacts DEF RecordInv, RequestFits
<1>7. ASSUME NEW s \in Requests
      PROVE  RequestFits(s)' /\ BatchWhole(s)' /\ (request'[s].answer = "EXISTING" => Replays(s)')
  <2>1. /\ RequestFits(s) /\ BatchWhole(s)
        /\ request[s].answer = "EXISTING" => Replays(s)
    BY DEF RecordInv
  <2>2. Replays(s)' <=> Replays(s)
    BY <1>2 DEF Replays, Found, Owner, Vehicle, Same
  <2>3. CASE s = r
    BY <1>1, <1>6, <2>2, <2>3 DEF RequestFits, BatchWhole
  <2>4. CASE s # r
    BY <1>2, <1>6, <2>1, <2>2, <2>4 DEF RequestFits, BatchWhole
  <2> QED BY <2>3, <2>4
<1>8. ASSUME NEW id \in JobIds
      PROVE  JobRecorded(id)' /\ (finish'[id].pc # "idle" => job'[id].status = "ACTIVE")
  BY <1>1, <1>2, <1>6 DEF RecordInv, JobRecorded
<1> QED BY <1>5, <1>7, <1>8 DEF RecordInv

(* The batch that is written: nothing of its key was there.                *)
LEMMA WritesNewKey ==
  ASSUME RecordInv, NEW r \in Requests, WriteBatch(r)
  PROVE  /\ request[r].pc = "write" /\ request[r].answer = "NONE"
         /\ Ask[r].key \notin session /\ session' = session \cup {Ask[r].key}
         /\ \A a \in Ask[r].assets : VehicleOf[a] = Ask[r].vehicle
         /\ \A id \in JobIds : id[1] = Ask[r].key => job[id].status = "NONE"
         /\ \A id \in JobIds : job'[id] = IF id[1] = Ask[r].key /\ id[2] \in Ask[r].assets
                                            THEN NewJob(r) ELSE job[id]
         /\ request'[r].answer = "CREATED" /\ request'[r].pc = "done"
         /\ \A s \in Requests \ {r} : request'[s] = request[s]
         /\ TypeOK'
<1>1. /\ request[r].pc = "write" /\ Ask[r].key \notin session
      /\ session' = session \cup {Ask[r].key}
      /\ request' = [request EXCEPT ![r] = [request[r] EXCEPT !.pc = "done", !.answer = "CREATED"]]
      /\ ReleaseTenant(r) /\ UNCHANGED <<ready, period, finish, vehicleLock>>
      /\ newest' = [newest EXCEPT ![Ask[r].vehicle] = r]
      /\ vehicle' = [vehicle EXCEPT ![Ask[r].vehicle] = "PROCESSING"]
  BY DEF WriteBatch, At, Duplicate, SessionTaken, Reply
<1>2. job' = [id \in JobIds |->
         IF id[1] = Ask[r].key /\ id[2] \in Ask[r].assets THEN NewJob(r) ELSE job[id]]
  BY DEF WriteBatch
<1> DEFINE q == [request[r] EXCEPT !.pc = "done", !.answer = "CREATED"]
<1>3. q \in RequestState /\ q.pc = "done" /\ q.answer = "CREATED"
  BY RecordFacts DEF RequestState, Answers
<1>4. request' = [request EXCEPT ![r] = q]
  BY <1>1
<1> HIDE DEF q
<1>5. /\ request' \in [Requests -> RequestState] /\ request'[r] = q
      /\ \A s \in Requests \ {r} : request'[s] = request[s]
  BY <1>3, <1>4, RecordFacts
<1>6. job' \in [JobIds -> JobRow]
  BY <1>2, RecordTypes, RecordFacts
<1>7. TypeOK'
  <2>1. tenantLock' \in [Tenants -> Requests \cup {None}]
    BY <1>1, LockTypes DEF RecordInv
  <2>2. session' \subseteq Keys
    BY <1>1, RowsAsked, RecordFacts
  <2>3. /\ newest' \in [Vehicles -> Requests \cup {None}]
        /\ vehicle' \in [Vehicles -> Processable \cup {"PROCESSING"}]
    BY <1>1, RowsAsked, RecordFacts
  <2> QED BY <1>1, <1>5, <1>6, <2>1, <2>2, <2>3, RecordFacts
          DEF TypeOK, JobRow, RequestState, FinishState
<1>8. \A id \in JobIds : id[1] = Ask[r].key => job[id].status = "NONE"
  BY <1>1 DEF RecordInv, JobRecorded, BatchWhole
<1>9. /\ \A a \in Ask[r].assets : VehicleOf[a] = Ask[r].vehicle
      /\ request[r].answer = "NONE"
  BY <1>1 DEF RecordInv, RequestFits
<1> QED BY <1>1, <1>2, <1>3, <1>5, <1>7, <1>8, <1>9

LEMMA WriteKeepsRecords ==
  ASSUME RecordInv, NEW r \in Requests, WriteBatch(r)
  PROVE  RecordInv'
<1> DEFINE k == Ask[r].key
<1>1. /\ request[r].pc = "write" /\ request[r].answer = "NONE"
      /\ k \notin session /\ session' = session \cup {k}
      /\ \A a \in Ask[r].assets : VehicleOf[a] = Ask[r].vehicle
      /\ \A id \in JobIds : id[1] = k => job[id].status = "NONE"
      /\ \A id \in JobIds : job'[id] = IF id[1] = k /\ id[2] \in Ask[r].assets
                                         THEN NewJob(r) ELSE job[id]
      /\ request'[r].answer = "CREATED" /\ request'[r].pc = "done"
      /\ \A s \in Requests \ {r} : request'[s] = request[s]
      /\ TypeOK'
  BY WritesNewKey
<1>2. UNCHANGED finish
  BY DEF WriteBatch
<1>3. NewJob(r).status = "ACTIVE" /\ NewJob(r).by = r
  BY RecordTypes
<1>4. \A id \in JobIds : id[1] # k => job'[id] = job[id]
  BY <1>1
<1>5. ASSUME NEW s \in Requests
      PROVE  RequestFits(s)' /\ BatchWhole(s)'
  <2>1. CASE s = r
    BY <1>1, <1>3, <2>1 DEF RequestFits, BatchWhole
  <2>2. CASE s # r
    <3>1. request'[s] = request[s] /\ RequestFits(s) /\ BatchWhole(s)
      BY <1>1, <2>2 DEF RecordInv
    <3>2. request[s].answer = "CREATED" => Ask[s].key # k
      BY <1>1, <3>1 DEF BatchWhole
    <3> QED BY <1>1, <1>4, <3>1, <3>2 DEF RequestFits, BatchWhole
  <2> QED BY <2>1, <2>2
<1>6. ASSUME NEW s \in Requests, request'[s].answer = "EXISTING"
      PROVE  Replays(s)'
  <2>1. s # r /\ request[s].answer = "EXISTING" /\ Replays(s)
    BY <1>1, <1>6 DEF RecordInv
  <2>2. PICK id \in JobIds : id[1] = Ask[s].key /\ job[id].status # "NONE"
    BY <2>1, RowsAsked DEF Replays, Found
  <2>3. Ask[s].key # k
    BY <1>1, <2>2
  <2>4. Found(Ask[s].tenant, Ask[s].key)' = Found(Ask[s].tenant, Ask[s].key)
    BY <1>4, <2>3 DEF Found, Owner, Vehicle
  <2>5. \A j \in Found(Ask[s].tenant, Ask[s].key) : job'[j] = job[j]
    BY <1>4, <2>3 DEF Found
  <2> QED BY <2>1, <2>4, <2>5 DEF Replays, Same
<1>7. ASSUME NEW id \in JobIds
      PROVE  JobRecorded(id)' /\ (finish'[id].pc # "idle" => job'[id].status = "ACTIVE")
  <2>1. CASE id[1] = k /\ id[2] \in Ask[r].assets
    BY <1>1, <1>3, <2>1 DEF JobRecorded
  <2>2. CASE ~(id[1] = k /\ id[2] \in Ask[r].assets)
    <3>1. job'[id] = job[id] /\ JobRecorded(id)
          /\ (finish[id].pc # "idle" => job[id].status = "ACTIVE")
      BY <1>1, <2>2 DEF RecordInv
    <3> QED BY <1>1, <1>2, <3>1 DEF JobRecorded
  <2> QED BY <2>1, <2>2
<1> HIDE DEF k
<1> QED BY <1>1, <1>5, <1>6, <1>7 DEF RecordInv

(* A job's end goes on, or is given up: only finish and the lock change.   *)
Finishing(id) == WriteOutcome(id) \/ CountActive(id) \/ OutcomeLost(id)

LEMMA FinishTypes ==
  ASSUME RecordInv, NEW id \in JobIds, Finishing(id)
  PROVE  /\ TypeOK' /\ UNCHANGED <<job, session, newest, vehicle, ready, period, request, tenantLock>>
         /\ job[id].status = "ACTIVE"
         /\ \A other \in JobIds \ {id} : finish'[other] = finish[other]
<1>1. /\ finish[id] \in FinishState /\ period \in 0..MaxPeriod /\ id[2] \in Assets
      /\ Vehicle(id) \in Vehicles
  BY RecordFacts, PeriodFacts, JobFacts
<1>2. UNCHANGED <<job, session, newest, vehicle, ready, period, request, tenantLock>>
  BY DEF Finishing, WriteOutcome, CountActive, OutcomeLost, rows
<1>3. job[id].status = "ACTIVE"
  BY DEF Finishing, WriteOutcome, CountActive, OutcomeLost, RecordInv
<1>4. PICK h \in FinishState : finish' = [finish EXCEPT ![id] = h]
  <2>1. CASE WriteOutcome(id)
    <3>1. PICK outcome \in {"COMPLETED", "FAILED", "INVALID"} :
            finish' = [finish EXCEPT ![id] =
              [pc |-> "written", outcome |-> outcome, settles |-> "NONE",
               billed |-> IF outcome = "COMPLETED" THEN period ELSE 0]]
      BY <2>1 DEF WriteOutcome
    <3> DEFINE h == [pc |-> "written", outcome |-> outcome, settles |-> "NONE",
                     billed |-> IF outcome = "COMPLETED" THEN period ELSE 0]
    <3>2. h \in FinishState
      BY <1>1, PeriodFacts DEF FinishState
    <3> QED BY <3>1, <3>2
  <2>2. CASE CountActive(id)
    <3> DEFINE settles == IF OtherActive(id) THEN "NONE"
                          ELSE IF NewestFailed(id) THEN "PARTIALLY_FAILED" ELSE "READY"
               h == [finish[id] EXCEPT !.pc = "counted", !.settles = settles]
    <3>1. settles \in {"NONE", "READY", "PARTIALLY_FAILED"}
      OBVIOUS
    <3>2. finish' = [finish EXCEPT ![id] = h]
      BY <2>2 DEF CountActive
    <3> HIDE DEF settles
    <3>3. h \in FinishState
      BY <1>1, <3>1 DEF FinishState
    <3> QED BY <3>2, <3>3
  <2>3. CASE OutcomeLost(id)
    BY <2>3, RecordTypes DEF OutcomeLost
  <2> QED BY <2>1, <2>2, <2>3 DEF Finishing
<1>5. vehicleLock' \in [Vehicles -> Assets \cup {None}]
  BY <1>1, RecordFacts DEF Finishing, WriteOutcome, CountActive, OutcomeLost, ReleaseVehicle
<1>6. finish' \in [JobIds -> FinishState]
  BY <1>4, RecordFacts
<1>7. TypeOK'
  BY <1>2, <1>5, <1>6, RecordFacts DEF TypeOK, JobRow, RequestState, FinishState
<1>8. \A other \in JobIds \ {id} : finish'[other] = finish[other]
  BY <1>4, RecordFacts
<1> QED BY <1>2, <1>3, <1>7, <1>8

LEMMA FinishingKeepsRecords ==
  ASSUME RecordInv, NEW id \in JobIds, Finishing(id)
  PROVE  RecordInv'
<1>1. /\ TypeOK' /\ UNCHANGED <<job, session, newest, vehicle, ready, period, request, tenantLock>>
      /\ job[id].status = "ACTIVE"
      /\ \A other \in JobIds \ {id} : finish'[other] = finish[other]
  BY FinishTypes
<1>2. \A r \in Requests : Replays(r)' <=> Replays(r)
  BY <1>1 DEF Replays, Found, Owner, Vehicle, Same
<1>3. \A r \in Requests : (RequestFits(r) /\ BatchWhole(r))'
  BY <1>1 DEF RecordInv, RequestFits, BatchWhole
<1>4. \A j \in JobIds : JobRecorded(j)' /\ (finish'[j].pc # "idle" => job'[j].status = "ACTIVE")
  BY <1>1 DEF RecordInv, JobRecorded
<1> QED BY <1>1, <1>2, <1>3, <1>4 DEF RecordInv

(* The commit of a job's end.                                              *)
LEMMA CommitFacts ==
  ASSUME RecordInv, NEW id \in JobIds, CommitOutcome(id)
  PROVE  /\ TypeOK' /\ UNCHANGED <<session, newest, period, request, tenantLock>>
         /\ finish[id].pc = "counted" /\ job[id].status = "ACTIVE"
         /\ job'[id].status = IF finish[id].outcome = "COMPLETED" THEN "COMPLETED" ELSE "FAILED"
         /\ job'[id].by = job[id].by /\ job'[id].billed = finish[id].billed
         /\ \A other \in JobIds \ {id} : job'[other] = job[other]
         /\ finish'[id] = Unfinished
         /\ \A other \in JobIds \ {id} : finish'[other] = finish[other]
<1>1. /\ finish[id].pc = "counted" /\ job' = [job EXCEPT ![id] = Ended(id)]
      /\ finish' = [finish EXCEPT ![id] = Unfinished]
      /\ UNCHANGED <<session, newest, period, request, tenantLock>>
  BY DEF CommitOutcome
<1>2. /\ finish[id] \in FinishState /\ job[id] \in JobRow /\ id[2] \in Assets
      /\ Vehicle(id) \in Vehicles
  BY RecordFacts, JobFacts
<1> DEFINE to == IF finish[id].outcome = "COMPLETED" THEN "COMPLETED" ELSE "FAILED"
           h == [job[id] EXCEPT !.billed = finish[id].billed, !.status = to]
<1>3. to \in {"COMPLETED", "FAILED"}
  OBVIOUS
<1>4. job' = [job EXCEPT ![id] = h]
  BY <1>1 DEF Ended
<1> HIDE DEF to
<1>5. /\ h \in JobRow /\ h.status = to /\ h.by = job[id].by /\ h.billed = finish[id].billed
  BY <1>2, <1>3 DEF JobRow, FinishState
<1> HIDE DEF h
<1>6. /\ job' \in [JobIds -> JobRow] /\ finish' \in [JobIds -> FinishState]
      /\ job'[id] = h /\ finish'[id] = Unfinished
      /\ \A other \in JobIds \ {id} : job'[other] = job[other] /\ finish'[other] = finish[other]
  BY <1>1, <1>4, <1>5, RecordFacts, RecordTypes
<1>7. vehicleLock' \in [Vehicles -> Assets \cup {None}] /\ ready' \subseteq Assets
  BY <1>2, RecordFacts DEF CommitOutcome, ReleaseVehicle
<1>8. vehicle' \in [Vehicles -> Processable \cup {"PROCESSING"}]
  <2>1. finish[id].settles \in {"NONE", "READY", "PARTIALLY_FAILED"}
    BY <1>2 DEF FinishState
  <2> QED BY <1>2, <2>1, RecordFacts DEF CommitOutcome, Processable
<1>9. TypeOK'
  BY <1>1, <1>6, <1>7, <1>8, RecordFacts DEF TypeOK, JobRow, RequestState, FinishState
<1>10. job[id].status = "ACTIVE"
  BY <1>1 DEF RecordInv
<1> QED BY <1>1, <1>5, <1>6, <1>9, <1>10 DEF to

LEMMA CommitKeepsRecords ==
  ASSUME RecordInv, NEW id \in JobIds, CommitOutcome(id)
  PROVE  RecordInv'
<1>1. /\ TypeOK' /\ UNCHANGED <<session, newest, period, request, tenantLock>>
      /\ job[id].status = "ACTIVE" /\ job'[id].status \in {"COMPLETED", "FAILED"}
      /\ job'[id].by = job[id].by
      /\ \A other \in JobIds \ {id} : job'[other] = job[other]
      /\ finish'[id].pc = "idle"
      /\ \A other \in JobIds \ {id} : finish'[other] = finish[other]
  BY CommitFacts, RecordTypes
<1>2. /\ \A j \in JobIds : job'[j].by = job[j].by
      /\ \A j \in JobIds : job'[j].status = "NONE" <=> job[j].status = "NONE"
  BY <1>1
<1>3. ASSUME NEW r \in Requests
      PROVE  Replays(r)' <=> Replays(r)
  <2>1. Found(Ask[r].tenant, Ask[r].key)' = Found(Ask[r].tenant, Ask[r].key)
    BY <1>2 DEF Found, Owner, Vehicle
  <2>2. \A j \in Found(Ask[r].tenant, Ask[r].key) : job'[j].by = job[j].by
    BY <1>2 DEF Found
  <2> QED BY <2>1, <2>2 DEF Replays, Same
<1>4. \A r \in Requests : (RequestFits(r) /\ BatchWhole(r))'
  BY <1>1, <1>2 DEF RecordInv, RequestFits, BatchWhole
<1>5. \A j \in JobIds : JobRecorded(j)'
  BY <1>1, <1>2 DEF RecordInv, JobRecorded
<1>6. \A j \in JobIds : finish'[j].pc # "idle" => job'[j].status = "ACTIVE"
  BY <1>1 DEF RecordInv
<1> QED BY <1>1, <1>3, <1>4, <1>5, <1>6 DEF RecordInv

LEMMA MonthKeepsRecords ==
  ASSUME RecordInv, MonthTurns
  PROVE  RecordInv'
<1>1. /\ UNCHANGED <<job, session, newest, vehicle, ready, request, tenantLock, finish, vehicleLock>>
      /\ period' = period + 1 /\ period < MaxPeriod
  BY DEF MonthTurns, rows
<1>2. period' \in Period
  BY <1>1, RecordFacts, PeriodFacts DEF Period
<1>3. TypeOK'
  BY <1>1, <1>2, RecordFacts DEF TypeOK, JobRow, RequestState, FinishState
<1> QED BY <1>1, <1>3 DEF RecordInv, RequestFits, BatchWhole, JobRecorded, Replays, Found, Owner,
                          Vehicle, Same

LEMMA RecordInit == Init => RecordInv
<1> SUFFICES ASSUME Init PROVE RecordInv
  OBVIOUS
<1>1. TypeOK
  BY TypeInit
<1>2. /\ \A id \in JobIds : job[id].status = "NONE" /\ finish[id].pc = "idle"
      /\ \A r \in Requests : request[r].pc = "new" /\ request[r].answer = "NONE"
  BY RecordTypes DEF Init
<1> QED BY <1>1, <1>2 DEF RecordInv, RequestFits, BatchWhole, JobRecorded

(* Every step is one of these.                                             *)
LEMMA StepKinds ==
  ASSUME Next
  PROVE  \/ \E r \in Requests : Asking(r) \/ WriteBatch(r)
         \/ \E id \in JobIds : Finishing(id) \/ CommitOutcome(id)
         \/ MonthTurns
BY DEF Next, RequestSteps, FinishSteps, Asking, Finishing

LEMMA RecordStep == RecordInv /\ [Next]_vars => RecordInv'
<1> SUFFICES ASSUME RecordInv, [Next]_vars PROVE RecordInv'
  OBVIOUS
<1>1. CASE Next
  BY <1>1, StepKinds, AskingMoves, MovesKeepsRecords, WriteKeepsRecords, FinishingKeepsRecords,
     CommitKeepsRecords, MonthKeepsRecords
<1>2. CASE UNCHANGED vars
  BY <1>2 DEF vars, RecordInv, TypeOK, RequestFits, BatchWhole, JobRecorded, Replays, Found, Owner,
              Vehicle, Same
<1> QED BY <1>1, <1>2

(* RecordInv is an invariant of every execution.                           *)
THEOREM RecordInvariance == Spec => []RecordInv
<1> QED BY RecordInit, RecordStep, PTL DEF Spec

(* The rows, requests and locks keep their types.                          *)
THEOREM TypeCorrectness == Spec => []TypeOK
<1>1. RecordInv => TypeOK
  BY DEF RecordInv
<1> QED BY <1>1, RecordInvariance, PTL

(* All the jobs of a batch: what OneBatchPerKey and AcceptedIsRecorded say *)
(* of the request that was told CREATED.                                   *)
LEMMA CreatedIsWhole ==
  ASSUME RecordInv, NEW r \in Requests, request[r].answer = "CREATED"
  PROVE  LET batch == Found(Ask[r].tenant, Ask[r].key) IN
         /\ {id[2] : id \in batch} = Ask[r].assets /\ batch # {}
         /\ \A id \in batch : job[id].by = r
         /\ Ask[r].key \in session
<1> DEFINE batch == Found(Ask[r].tenant, Ask[r].key)
<1>1. BatchWhole(r)
  BY DEF RecordInv
<1>2. \A id \in batch : id \in JobIds /\ id[2] \in Ask[r].assets /\ job[id].by = r
  BY <1>1 DEF BatchWhole, Found
<1>3. ASSUME NEW a \in Ask[r].assets
      PROVE  <<Ask[r].key, a>> \in batch
  <2>1. <<Ask[r].key, a>> \in JobIds
    BY RowsAsked DEF JobIds
  <2> QED BY <1>1, <2>1, RowsAsked DEF BatchWhole, Found, Owner, Vehicle
<1>4. Ask[r].key \in session /\ Ask[r].assets # {}
  BY <1>1, RowsAsked DEF BatchWhole
<1> HIDE DEF batch
<1>5. {id[2] : id \in batch} = Ask[r].assets
  <2>1. ASSUME NEW a \in Ask[r].assets PROVE \E id \in batch : a = id[2]
    <3> DEFINE id == <<Ask[r].key, a>>
    <3>1. id \in batch /\ id[2] = a
      BY <1>3
    <3> QED BY <3>1
  <2> QED BY <1>2, <2>1
<1>6. batch # {}
  BY <1>3, <1>4
<1> QED BY <1>2, <1>4, <1>5, <1>6 DEF batch

(* A client's key names one batch of the tenant, created by one request and *)
(* whole, whatever requests with that key or for that vehicle raced.       *)
THEOREM OneBatch == Spec => []OneBatchPerKey
<1>1. RecordInv => OneBatchPerKey
  <2> SUFFICES ASSUME RecordInv, NEW t \in Tenants, NEW k \in Keys, Found(t, k) # {}
               PROVE  /\ k \in session
                      /\ \E r \in Requests : /\ \A id \in Found(t, k) : job[id].by = r
                                             /\ {id[2] : id \in Found(t, k)} = Ask[r].assets
    BY DEF OneBatchPerKey
  <2>1. PICK id \in JobIds : id[1] = k /\ Owner(id) = t /\ job[id].status # "NONE"
    BY DEF Found
  <2> DEFINE r == job[id].by
  <2>2. r \in Requests /\ request[r].answer = "CREATED" /\ Ask[r].key = k /\ id[2] \in Ask[r].assets
    BY <2>1 DEF RecordInv, JobRecorded
  <2>3. Ask[r].tenant = t
    BY <2>1, <2>2, RowsAsked DEF RecordInv, BatchWhole, Owner, Vehicle
  <2> HIDE DEF r
  <2> QED BY <2>2, <2>3, CreatedIsWhole
<1> QED BY <1>1, RecordInvariance, PTL

(* Whoever was told CREATED or EXISTING has the batch it asked for, and    *)
(* whoever was told CREATED created it; no retry is told CREATED twice.    *)
THEOREM AcceptedHasBatch == Spec => []AcceptedIsRecorded
<1>1. RecordInv => AcceptedIsRecorded
  <2> SUFFICES ASSUME RecordInv, NEW r \in Requests
               PROVE  LET batch == Found(Ask[r].tenant, Ask[r].key) IN
                      /\ request[r].answer \in {"CREATED", "EXISTING"} =>
                           /\ {id[2] : id \in batch} = Ask[r].assets
                           /\ \A id \in batch : Same(job[id].by, r)
                      /\ request[r].answer = "CREATED" <=> \E id \in batch : job[id].by = r
    BY DEF AcceptedIsRecorded
  <2> DEFINE batch == Found(Ask[r].tenant, Ask[r].key)
  <2>1. CASE request[r].answer = "CREATED"
    <3>1. /\ {id[2] : id \in batch} = Ask[r].assets /\ batch # {}
          /\ \A id \in batch : job[id].by = r
      BY <2>1, CreatedIsWhole
    <3> HIDE DEF batch
    <3>2. \A id \in batch : Same(job[id].by, r)
      BY <3>1 DEF Same
    <3> QED BY <2>1, <3>1, <3>2 DEF batch
  <2>2. CASE request[r].answer # "CREATED"
    <3>1. \A id \in batch : job[id].by # r
      BY <2>2 DEF RecordInv, JobRecorded, Found
    <3>2. request[r].answer = "EXISTING" => Replays(r)
      BY DEF RecordInv
    <3> QED BY <2>2, <3>1, <3>2 DEF Replays
  <2> QED BY <2>1, <2>2
<1> QED BY <1>1, RecordInvariance, PTL
-----------------------------------------------------------------------------
(* The vehicle                                                             *)

LEMMA VehicleFacts ==
  ASSUME VehicleInv
  PROVE  /\ RecordInv
         /\ \A id \in JobIds : job[id].status # "NONE" => Vehicle(id) = Ask[job[id].by].vehicle
         /\ \A id, other \in JobIds :
              /\ Vehicle(id) = Vehicle(other) /\ id[2] = other[2]
              /\ job[id].status = "ACTIVE" /\ job[other].status = "ACTIVE"
              => id = other
         /\ \A id \in JobIds : finish[id].pc # "idle" => job[id].status = "ACTIVE"
<1>1. RecordInv
  BY DEF VehicleInv
<1>2. \A id \in JobIds : job[id].status # "NONE" => Vehicle(id) = Ask[job[id].by].vehicle
  BY <1>1 DEF RecordInv, JobRecorded, BatchWhole, Vehicle
<1>3. ASSUME NEW id \in JobIds, NEW other \in JobIds,
             Vehicle(id) = Vehicle(other), id[2] = other[2],
             job[id].status = "ACTIVE", job[other].status = "ACTIVE"
      PROVE  id = other
  <2>1. job[id].by = job[other].by
    BY <1>3, JobFacts DEF VehicleInv, FollowsActive
  <2>2. id[1] = other[1]
    BY <1>1, <1>3, <2>1 DEF RecordInv, JobRecorded
  <2> QED BY <1>3, <2>2, JobFacts
<1>4. \A id \in JobIds : finish[id].pc # "idle" => job[id].status = "ACTIVE"
  BY <1>1 DEF RecordInv
<1> QED BY <1>1, <1>2, <1>3, <1>4

(* A step that leaves the rows and what finishes.                          *)
LEMMA RowsStand ==
  ASSUME VehicleInv, RecordInv', UNCHANGED <<rows, finish, vehicleLock>>
  PROVE  VehicleInv'
BY DEF VehicleInv, rows, NewestOf, FollowsActive, FollowsNewest, FailedOfNewest, CountHolds,
       Settlement, OtherActive, NewestFailed, Vehicle

(* What a counting job found about its vehicle depends on that vehicle only. *)
LEMMA SettlementStands ==
  ASSUME NEW id \in JobIds, UNCHANGED <<newest[Vehicle(id)], finish[id]>>,
         \A other \in JobIds : Vehicle(other) = Vehicle(id) => job'[other] = job[other]
  PROVE  Settlement(id)' = Settlement(id)
<1>1. OtherActive(id)' <=> OtherActive(id)
  BY DEF OtherActive, Vehicle
<1>2. NewestFailed(id)' <=> NewestFailed(id)
  BY DEF NewestFailed, Vehicle
<1> QED BY <1>1, <1>2 DEF Settlement

LEMMA WriteKeepsVehicles ==
  ASSUME VehicleInv, NEW r \in Requests, WriteBatch(r)
  PROVE  VehicleInv'
<1> DEFINE v == Ask[r].vehicle
<1>1. RecordInv /\ RecordInv' /\ v \in Vehicles /\ r # None
  BY VehicleFacts, WriteKeepsRecords, RowsAsked
<1>2. /\ \A a \in Ask[r].assets : VehicleOf[a] = v
      /\ \A id \in JobIds : id[1] = Ask[r].key => job[id].status = "NONE"
      /\ \A id \in JobIds : job'[id] = IF id[1] = Ask[r].key /\ id[2] \in Ask[r].assets
                                         THEN NewJob(r) ELSE job[id]
  BY <1>1, WritesNewKey
<1>3. /\ newest'[v] = r /\ vehicle'[v] = "PROCESSING" /\ vehicle[v] # "PROCESSING"
      /\ \A w \in Vehicles \ {v} : newest'[w] = newest[w] /\ vehicle'[w] = vehicle[w]
      /\ UNCHANGED <<finish, vehicleLock>>
  BY <1>1, RecordFacts DEF WriteBatch, Claimable, Processable
<1>4. NewJob(r).status = "ACTIVE" /\ NewJob(r).by = r
  BY RecordTypes
<1>5. /\ \A id \in JobIds : Vehicle(id) # v => job'[id] = job[id]
      /\ \A id \in JobIds : job'[id] # job[id] => job'[id] = NewJob(r) /\ job[id].status = "NONE"
  BY <1>2 DEF Vehicle
<1>6. \A id \in JobIds : Vehicle(id) = v => job[id].status # "ACTIVE"
  BY <1>1, <1>3 DEF VehicleInv, FollowsActive
<1>7. PICK id \in JobIds : Vehicle(id) = v /\ job'[id] = NewJob(r)
  <2>1. PICK a \in Ask[r].assets : TRUE
    BY RowsAsked
  <2> DEFINE new == <<Ask[r].key, a>>
  <2>2. new \in JobIds /\ new[1] = Ask[r].key /\ new[2] = a
    BY RowsAsked DEF JobIds
  <2>3. job'[new] = NewJob(r) /\ Vehicle(new) = v
    BY <1>2, <2>2 DEF Vehicle
  <2> QED BY <2>2, <2>3
<1> HIDE DEF v
<1>8. ASSUME NEW w \in Vehicles
      PROVE  (NewestOf(w) /\ FollowsActive(w) /\ FollowsNewest(w))'
  <2>1. CASE w = v
    <3>1. NewestOf(w)'
      BY <1>3, <2>1 DEF NewestOf, v
    <3>2. FollowsActive(w)'
      BY <1>3, <1>4, <1>5, <1>6, <1>7, <2>1 DEF FollowsActive, Vehicle
    <3>3. FollowsNewest(w)'
      BY <1>3, <2>1 DEF FollowsNewest
    <3> QED BY <3>1, <3>2, <3>3
  <2>2. CASE w # v
    <3>1. NewestOf(w) /\ FollowsActive(w) /\ FollowsNewest(w)
      BY DEF VehicleInv
    <3>2. FollowsActive(w)'
      BY <1>3, <1>5, <2>2, <3>1 DEF FollowsActive, Vehicle
    <3>3. \A j \in JobIds : FailedOfNewest(w, j)' <=> FailedOfNewest(w, j)
      BY <1>3, <1>4, <1>5, <2>2 DEF FailedOfNewest
    <3> QED BY <1>3, <2>2, <3>1, <3>2, <3>3 DEF NewestOf, FollowsNewest
  <2> QED BY <2>1, <2>2
<1>9. ASSUME NEW j \in JobIds, finish'[j].pc = "counted"
      PROVE  CountHolds(j)'
  <2>1. CountHolds(j) /\ finish[j].pc = "counted" /\ Vehicle(j) # v
    BY <1>3, <1>6, <1>9, VehicleFacts DEF VehicleInv
  <2>2. Settlement(j)' = Settlement(j)
    BY <1>3, <1>5, <2>1, JobFacts, SettlementStands
  <2> QED BY <1>3, <2>1, <2>2 DEF CountHolds, Vehicle
<1> QED BY <1>1, <1>8, <1>9 DEF VehicleInv, CountHolds

LEMMA FinishingKeepsVehicles ==
  ASSUME VehicleInv, NEW id \in JobIds, Finishing(id)
  PROVE  VehicleInv'
<1>1. /\ RecordInv /\ RecordInv' /\ job[id].status = "ACTIVE"
      /\ UNCHANGED <<job, newest, vehicle>>
      /\ \A other \in JobIds \ {id} : finish'[other] = finish[other]
      /\ Vehicle(id) \in Vehicles /\ id[2] # None
  BY VehicleFacts, FinishTypes, FinishingKeepsRecords, JobFacts
<1>2. \A v \in Vehicles : (NewestOf(v) /\ FollowsActive(v) /\ FollowsNewest(v))'
  BY <1>1 DEF VehicleInv, NewestOf, FollowsActive, FollowsNewest, FailedOfNewest, Vehicle
<1>3. ASSUME NEW j \in JobIds \ {id}, finish'[j].pc = "counted"
      PROVE  CountHolds(j)'
  <2>1. /\ finish'[j] = finish[j] /\ CountHolds(j) /\ job[j].status = "ACTIVE"
        /\ vehicleLock[Vehicle(j)] = j[2] /\ j[2] # None /\ Vehicle(j) \in Vehicles
    BY <1>1, <1>3, VehicleFacts, JobFacts DEF VehicleInv, CountHolds
  <2>2. Settlement(j)' = Settlement(j)
    BY <1>1, <2>1, SettlementStands
  <2>3. vehicleLock'[Vehicle(j)] = j[2]
    <3>1. CASE WriteOutcome(id)
      BY <2>1, <3>1 DEF WriteOutcome
    <3>2. CASE CountActive(id)
      BY <1>1, <2>1, <3>2, RecordFacts DEF CountActive, CompletionLock
    <3>3. CASE OutcomeLost(id)
      <4>1. Vehicle(id) = Vehicle(j) => id[2] # j[2]
        BY <1>1, <2>1, VehicleFacts
      <4> QED BY <1>1, <2>1, <3>3, <4>1, RecordFacts DEF OutcomeLost, ReleaseVehicle
    <3> QED BY <3>1, <3>2, <3>3 DEF Finishing
  <2> QED BY <1>3, <2>1, <2>2, <2>3 DEF CountHolds, Vehicle
<1>4. CountHolds(id)'
  <2>1. finish[id] \in FinishState /\ finish \in [JobIds -> FinishState]
    BY <1>1, RecordFacts
  <2>2. CASE WriteOutcome(id)
    BY <2>1, <2>2 DEF WriteOutcome, CountHolds
  <2>3. CASE OutcomeLost(id)
    BY <2>1, <2>3, RecordTypes DEF OutcomeLost, CountHolds
  <2>4. CASE CountActive(id)
    <3> DEFINE h == [finish[id] EXCEPT !.pc = "counted", !.settles = Settlement(id)]
    <3>1. finish' = [finish EXCEPT ![id] = h]
      BY <2>4 DEF CountActive, Settlement
    <3>2. h.settles = Settlement(id) /\ h.outcome = finish[id].outcome
      BY <2>1 DEF FinishState
    <3> HIDE DEF h
    <3>3. finish'[id] = h
      BY <2>1, <3>1
    <3>4. OtherActive(id)' <=> OtherActive(id)
      BY <1>1 DEF OtherActive, Vehicle
    <3>5. NewestFailed(id)' <=> NewestFailed(id)
      BY <1>1, <3>2, <3>3 DEF NewestFailed, Vehicle
    <3>6. Settlement(id)' = Settlement(id)
      BY <3>4, <3>5 DEF Settlement
    <3>7. vehicleLock'[Vehicle(id)] = id[2]
      BY <1>1, <2>4, RecordFacts DEF CountActive
    <3> QED BY <3>2, <3>3, <3>6, <3>7 DEF CountHolds, Vehicle
  <2> QED BY <2>2, <2>3, <2>4 DEF Finishing
<1> QED BY <1>1, <1>2, <1>3, <1>4 DEF VehicleInv, CountHolds

LEMMA CommitKeepsVehicles ==
  ASSUME VehicleInv, NEW id \in JobIds, CommitOutcome(id)
  PROVE  VehicleInv'
<1> DEFINE v == Vehicle(id)
<1>1. /\ RecordInv /\ RecordInv' /\ v \in Vehicles /\ id[2] # None
      /\ finish[id].pc = "counted" /\ job[id].status = "ACTIVE"
      /\ job'[id].status = IF finish[id].outcome = "COMPLETED" THEN "COMPLETED" ELSE "FAILED"
      /\ job'[id].by = job[id].by /\ UNCHANGED newest
      /\ \A other \in JobIds \ {id} : job'[other] = job[other]
      /\ finish'[id].pc = "idle"
      /\ \A other \in JobIds \ {id} : finish'[other] = finish[other]
  BY VehicleFacts, CommitFacts, CommitKeepsRecords, JobFacts, RecordTypes
<1>2. /\ vehicleLock[v] = id[2] /\ finish[id].settles = Settlement(id)
      /\ vehicle[v] = "PROCESSING" /\ job[id].by = newest[v] /\ newest[v] # None
  <2>1. vehicleLock[v] = id[2] /\ finish[id].settles = Settlement(id)
    BY <1>1 DEF VehicleInv, CountHolds
  <2>2. vehicle[v] = "PROCESSING" /\ job[id].by = newest[v]
    BY <1>1 DEF VehicleInv, FollowsActive
  <2>3. job[id].by # None
    BY <1>1, RowsAsked DEF RecordInv, JobRecorded
  <2> QED BY <2>1, <2>2, <2>3
<1>3. /\ \A w \in Vehicles \ {v} : vehicle'[w] = vehicle[w] /\ vehicleLock'[w] = vehicleLock[w]
      /\ vehicle'[v] = IF Settlement(id) # "NONE" THEN Settlement(id) ELSE "PROCESSING"
  BY <1>1, <1>2, RecordFacts DEF CommitOutcome, ReleaseVehicle
<1>4. /\ v = Vehicle(id)
      /\ \A other \in JobIds : Vehicle(other) # v => job'[other] = job[other]
  BY <1>1
<1> HIDE DEF v
<1>5. ASSUME NEW w \in Vehicles
      PROVE  (NewestOf(w) /\ FollowsActive(w) /\ FollowsNewest(w))'
  <2>1. NewestOf(w) /\ FollowsActive(w) /\ FollowsNewest(w)
    BY DEF VehicleInv
  <2>2. NewestOf(w)'
    BY <1>1, <2>1 DEF NewestOf
  <2>3. CASE w = v /\ OtherActive(id)
    <3>1. vehicle'[v] = "PROCESSING"
      BY <1>3, <2>3 DEF Settlement
    <3>2. PICK other \in JobIds \ {id} : Vehicle(other) = v /\ job[other].status = "ACTIVE"
      BY <1>4, <2>3 DEF OtherActive
    <3>3. FollowsActive(w)'
      BY <1>1, <2>1, <2>3, <3>1, <3>2 DEF FollowsActive, Vehicle
    <3> QED BY <2>2, <2>3, <3>1, <3>3 DEF FollowsNewest
  <2>4. CASE w = v /\ ~OtherActive(id)
    <3>1. /\ vehicle'[v] = IF NewestFailed(id) THEN "PARTIALLY_FAILED" ELSE "READY"
      BY <1>3, <2>4 DEF Settlement
    <3>2. \A j \in JobIds : ~(Vehicle(j) = v /\ job'[j].status = "ACTIVE")
      BY <1>1, <1>4, <2>4 DEF OtherActive
    <3>3. FollowsActive(w)'
      BY <2>4, <3>1, <3>2 DEF FollowsActive, Vehicle
    <3>4. NewestFailed(id) <=> \E j \in JobIds : FailedOfNewest(v, j)'
      <4>1. \A j \in JobIds : FailedOfNewest(v, j)' => Vehicle(j) = v
        BY <1>1, <1>2, VehicleFacts DEF FailedOfNewest, VehicleInv, NewestOf
      <4>2. FailedOfNewest(v, id)' <=> finish[id].outcome # "COMPLETED"
        BY <1>1, <1>2 DEF FailedOfNewest
      <4>3. \A j \in JobIds \ {id} : FailedOfNewest(v, j)' <=> FailedOfNewest(v, j)
        BY <1>1 DEF FailedOfNewest
      <4> QED BY <1>2, <1>4, <4>1, <4>2, <4>3 DEF NewestFailed, FailedOfNewest
    <3> QED BY <1>1, <1>2, <2>2, <2>4, <3>1, <3>3, <3>4 DEF FollowsNewest
  <2>5. CASE w # v
    <3>1. FollowsActive(w)'
      BY <1>1, <1>3, <1>4, <2>1, <2>5 DEF FollowsActive, Vehicle
    <3>2. ~FailedOfNewest(w, id)' /\ ~FailedOfNewest(w, id)
      <4>1. newest[w] # None => Ask[newest[w]].vehicle = w
        BY <2>1 DEF NewestOf
      <4>2. v = Ask[job[id].by].vehicle /\ job[id].by # None
        BY <1>1, <1>2, <1>4, VehicleFacts
      <4> QED BY <1>1, <2>5, <4>1, <4>2 DEF FailedOfNewest
    <3>3. \A j \in JobIds : FailedOfNewest(w, j)' <=> FailedOfNewest(w, j)
      BY <1>1, <3>2 DEF FailedOfNewest
    <3> QED BY <1>1, <1>3, <2>1, <2>2, <2>5, <3>1, <3>3 DEF FollowsNewest
  <2> QED BY <2>3, <2>4, <2>5
<1>6. ASSUME NEW j \in JobIds, finish'[j].pc = "counted"
      PROVE  CountHolds(j)'
  <2>1. /\ j # id /\ finish'[j] = finish[j] /\ CountHolds(j) /\ finish[j].pc = "counted"
        /\ Vehicle(j) \in Vehicles
    BY <1>1, <1>6, JobFacts DEF VehicleInv
  <2>2. Vehicle(j) # v
    BY <1>1, <1>2, <1>4, <2>1, VehicleFacts DEF CountHolds
  <2>3. Settlement(j)' = Settlement(j)
    BY <1>1, <1>4, <2>1, <2>2, SettlementStands
  <2> QED BY <1>3, <2>1, <2>2, <2>3 DEF CountHolds, Vehicle
<1> QED BY <1>1, <1>5, <1>6 DEF VehicleInv, CountHolds

LEMMA VehicleInit == Init => VehicleInv
<1> SUFFICES ASSUME Init PROVE VehicleInv
  OBVIOUS
<1>1. /\ \A id \in JobIds : job[id].status = "NONE" /\ finish[id].pc = "idle"
      /\ \A v \in Vehicles : newest[v] = None /\ vehicle[v] = "DRAFT"
  BY RecordTypes DEF Init
<1> QED BY <1>1, RecordInit DEF VehicleInv, NewestOf, FollowsActive, FollowsNewest, CountHolds

LEMMA VehicleStep == VehicleInv /\ [Next]_vars => VehicleInv'
<1> SUFFICES ASSUME VehicleInv, [Next]_vars PROVE VehicleInv'
  OBVIOUS
<1>1. RecordInv /\ RecordInv'
  BY VehicleFacts, RecordStep
<1>2. ASSUME NEW r \in Requests, Asking(r) PROVE VehicleInv'
  BY <1>1, <1>2, AskingMoves, RowsStand DEF Moves
<1>3. CASE MonthTurns
  BY <1>1, <1>3, RowsStand DEF MonthTurns
<1>4. CASE UNCHANGED vars
  BY <1>1, <1>4, RowsStand DEF vars, rows
<1> QED BY <1>2, <1>3, <1>4, StepKinds, WriteKeepsVehicles, FinishingKeepsVehicles,
           CommitKeepsVehicles

(* VehicleInv is an invariant of every execution.                          *)
THEOREM VehicleInvariance == Spec => []VehicleInv
<1> QED BY VehicleInit, VehicleStep, PTL DEF Spec

(* A vehicle is PROCESSING exactly while its newest batch is active, however *)
(* the ends of its jobs and requests for it interleave.                    *)
THEOREM ProcessingFollowsBatch == Spec => []ProcessingIffActive
<1>1. VehicleInv => ProcessingIffActive
  BY DEF VehicleInv, FollowsActive, ProcessingIffActive
<1> QED BY <1>1, VehicleInvariance, PTL

(* The last job to end leaves the status its newest batch deserves, and    *)
(* nothing spoils it until the next batch.                                 *)
THEOREM AttentionFollows == Spec => []AttentionFollowsNewest
<1>1. VehicleInv => AttentionFollowsNewest
  BY DEF VehicleInv, FollowsNewest, FailedOfNewest, AttentionFollowsNewest
<1> QED BY <1>1, VehicleInvariance, PTL
-----------------------------------------------------------------------------
(* The allowance.  Sets of jobs are counted, so first what a step does to  *)
(* the two sums.                                                           *)

(* An element that leaves one set and may enter another does not add up to *)
(* more.                                                                   *)
LEMMA MovedOver ==
  ASSUME NEW C, NEW A, IsFiniteSet(C), IsFiniteSet(A), NEW x,
         NEW D, D \subseteq C \cup {x}, x \in A \/ D \subseteq C
  PROVE  Cardinality(D) + Cardinality(A \ {x}) <= Cardinality(C) + Cardinality(A)
<1>1. /\ IsFiniteSet(C \cup {x}) /\ Cardinality(C \cup {x}) <= Cardinality(C) + 1
      /\ IsFiniteSet(A \ {x})
      /\ Cardinality(A \ {x}) = IF x \in A THEN Cardinality(A) - 1 ELSE Cardinality(A)
      /\ Cardinality(C) \in Nat /\ Cardinality(A) \in Nat /\ Cardinality(C \cup {x}) \in Nat
  BY FS_AddElement, FS_RemoveElement, FS_CardinalityType
<1>2. CASE D \subseteq C
  <2>1. Cardinality(D) <= Cardinality(C) /\ Cardinality(D) \in Nat
    BY <1>2, FS_Subset, FS_CardinalityType
  <2> QED BY <1>1, <2>1
<1>3. CASE x \in A
  <2>1. Cardinality(D) <= Cardinality(C \cup {x}) /\ Cardinality(D) \in Nat
    BY <1>1, FS_Subset, FS_CardinalityType
  <2> QED BY <1>1, <1>3, <2>1
<1> QED BY <1>2, <1>3

(* A batch adds at most as many jobs as it has photos.                     *)
LEMMA BatchAdds ==
  ASSUME NEW A, NEW B, NEW k, NEW D, IsFiniteSet(A), IsFiniteSet(B), D \subseteq A \cup ({k} \X B)
  PROVE  Cardinality(D) <= Cardinality(A) + Cardinality(B)
<1>1. IsFiniteSet({k}) /\ Cardinality({k}) = 1
  BY FS_Singleton
<1>2. Cardinality(A) \in Nat /\ Cardinality(B) \in Nat
  BY FS_CardinalityType
<1>3. IsFiniteSet({k} \X B) /\ Cardinality({k} \X B) = Cardinality({k}) * Cardinality(B)
  BY <1>1, FS_Product
<1>4. Cardinality({k} \X B) = Cardinality(B)
  BY <1>1, <1>2, <1>3
<1> DEFINE N == {k} \X B
<1>5. IsFiniteSet(N) /\ Cardinality(N) = Cardinality(B)
  BY <1>3, <1>4
<1>6. D \subseteq A \cup N
  OBVIOUS
<1> HIDE DEF N
<1>7. /\ IsFiniteSet(A \cup N)
      /\ Cardinality(A \cup N) = Cardinality(A) + Cardinality(N) - Cardinality(A \cap N)
  BY <1>5, FS_Union
<1>8. Cardinality(A \cap N) \in Nat
  BY FS_Intersection, FS_CardinalityType
<1>9. Cardinality(D) <= Cardinality(A \cup N) /\ Cardinality(D) \in Nat
  BY <1>6, <1>7, FS_Subset, FS_CardinalityType
<1> QED BY <1>2, <1>5, <1>7, <1>8, <1>9

LEMMA SumsFinite ==
  ASSUME LedgerInv, NEW t \in Tenants
  PROVE  /\ IsFiniteSet(Charged(t, period)) /\ IsFiniteSet(InFlight(t))
         /\ Cardinality(Charged(t, period)) \in Nat /\ Cardinality(InFlight(t)) \in Nat
         /\ Used(t, period) \in Nat /\ Used(t, period) <= Capacity
<1>1. Charged(t, period) \subseteq Recorded /\ InFlight(t) \subseteq Recorded
  BY DEF LedgerInv, Bills, Recorded, Charged, InFlight
<1>2. IsFiniteSet(Charged(t, period)) /\ IsFiniteSet(InFlight(t))
  BY <1>1, FS_Subset DEF LedgerInv
<1>3. Cardinality(Charged(t, period)) \in Nat /\ Cardinality(InFlight(t)) \in Nat
  BY <1>2, FS_CardinalityType
<1> QED BY <1>2, <1>3 DEF Used, LedgerInv, AllowanceRespected

LEMMA UsedOfPeriod ==
  ASSUME NEW t, NEW p, Lifetime \/ p = period
  PROVE  Used(t, p) = Used(t, period)
<1>1. Charged(t, p) = Charged(t, period)
  BY DEF Charged
<1> QED BY <1>1 DEF Used

LEMMA UsedStands ==
  ASSUME UNCHANGED <<job, period>>, NEW t
  PROVE  Used(t, period)' = Used(t, period) /\ Recorded' = Recorded
BY DEF Used, Charged, InFlight, Recorded, Owner, Vehicle

(* What is used does not grow: neither the granted requests nor the limit  *)
(* suffer.                                                                 *)
LEMMA LedgerStands ==
  ASSUME LedgerInv, RecordInv', UNCHANGED <<request, tenantLock, period>>,
         IsFiniteSet(Recorded'), \A id \in JobIds : Bills(id)',
         \A t \in Tenants : Used(t, period)' \in Nat /\ Used(t, period)' <= Used(t, period)
  PROVE  LedgerInv'
<1>1. ASSUME NEW t \in Tenants
      PROVE  Used(t, period)' <= Capacity
  BY <1>1, SumsFinite, ConstantsAssumption
<1>2. ASSUME NEW r \in Requests
      PROVE  (LockHeld(r) /\ InPeriod(r) /\ Granted(r))'
  <2>1. LockHeld(r) /\ InPeriod(r) /\ Granted(r)
    BY DEF LedgerInv
  <2>2. LockHeld(r)' /\ InPeriod(r)'
    BY <2>1 DEF LockHeld, InPeriod
  <2>3. /\ Ask[r].tenant \in Tenants /\ Cardinality(Ask[r].assets) \in Nat
        /\ Used(Ask[r].tenant, period) \in Nat
    BY RowsAsked, SumsFinite, FS_CardinalityType
  <2>4. Granted(r)'
    BY <2>1, <2>3, ConstantsAssumption DEF Granted
  <2> QED BY <2>2, <2>4
<1> QED BY <1>1, <1>2 DEF LedgerInv, AllowanceRespected

LEMMA MovesKeepsLedger ==
  ASSUME LedgerInv, NEW r \in Requests, NEW q, Moves(r, q)
  PROVE  LedgerInv'
<1>1. /\ RecordInv /\ RecordInv' /\ UNCHANGED <<job, period, finish>>
      /\ request' = [request EXCEPT ![r] = q]
      /\ request \in [Requests -> RequestState] /\ tenantLock \in [Tenants -> Requests \cup {None}]
  BY MovesKeepsRecords, RecordFacts DEF LedgerInv, Moves, rows
<1>2. request'[r] = q /\ \A s \in Requests \ {r} : request'[s] = request[s]
  BY <1>1
<1>3. Recorded' = Recorded /\ \A t : Used(t, period)' = Used(t, period)
  BY <1>1, UsedStands
<1>4. LockHeld(r) /\ InPeriod(r) /\ Granted(r) /\ Ask[r].tenant \in Tenants /\ r # None
  BY RowsAsked DEF LedgerInv
<1>5. ASSUME NEW s \in Requests
      PROVE  LockHeld(s)'
  <2>1. LockHeld(s) /\ Ask[s].tenant \in Tenants /\ s # None
    BY RowsAsked DEF LedgerInv
  <2>2. CASE s = r
    BY <1>1, <1>2, <1>4, <2>2 DEF LockHeld, Moves, Reserving
  <2>3. CASE s # r
    <3>1. request'[s] = request[s]
      BY <1>2, <2>3
    <3>2. \/ UNCHANGED tenantLock \/ ReleaseTenant(r)
          \/ /\ tenantLock[Ask[r].tenant] = None
             /\ tenantLock' = [tenantLock EXCEPT ![Ask[r].tenant] = r]
      BY DEF Moves, Reserving
    <3>3. tenantLock[Ask[s].tenant] = s => tenantLock'[Ask[s].tenant] = s
      BY <1>1, <2>1, <2>3, <3>2 DEF ReleaseTenant
    <3> QED BY <2>1, <3>1, <3>3 DEF LockHeld
  <2> QED BY <2>2, <2>3
<1>6. ASSUME NEW s \in Requests
      PROVE  InPeriod(s)'
  <2>1. CASE s = r
    BY <1>1, <1>2, <1>4, <2>1 DEF InPeriod, Moves, Reserving
  <2>2. CASE s # r
    BY <1>1, <1>2, <2>2 DEF InPeriod, LedgerInv
  <2> QED BY <2>1, <2>2
<1>7. ASSUME NEW s \in Requests
      PROVE  Granted(s)'
  <2>1. Granted(s)
    BY DEF LedgerInv
  <2>2. CASE s = r
    <3>1. CASE q.pc = "assets"
      <4>1. /\ request[r].pc = "count"
            /\ Used(Ask[r].tenant, request[r].period) + Cardinality(Ask[r].assets) <= Capacity
        BY <3>1 DEF Moves, AllowanceCovers
      <4>2. Used(Ask[r].tenant, request[r].period) = Used(Ask[r].tenant, period)
        BY <1>4, <4>1, UsedOfPeriod DEF InPeriod, Reserving
      <4> QED BY <1>3, <2>2, <4>1, <4>2 DEF Granted
    <3>2. CASE q.pc = "write"
      BY <1>3, <2>1, <2>2, <3>2 DEF Granted, Moves
    <3> QED BY <1>2, <2>2, <3>1, <3>2 DEF Granted
  <2>3. CASE s # r
    BY <1>2, <1>3, <2>1, <2>3 DEF Granted
  <2> QED BY <2>2, <2>3
<1>8. \A id \in JobIds : Bills(id)'
  BY <1>1 DEF LedgerInv, Bills
<1>9. AllowanceRespected'
  BY <1>3 DEF LedgerInv, AllowanceRespected
<1> QED BY <1>1, <1>3, <1>5, <1>6, <1>7, <1>8, <1>9 DEF LedgerInv

(* The batch is written under the lock, and it was granted.                *)
LEMMA WriteKeepsLedger ==
  ASSUME LedgerInv, NEW r \in Requests, WriteBatch(r)
  PROVE  LedgerInv'
<1> DEFINE k == Ask[r].key
           B == Ask[r].assets
<1>1. /\ RecordInv /\ RecordInv' /\ UNCHANGED <<period, finish>> /\ ReleaseTenant(r)
      /\ tenantLock \in [Tenants -> Requests \cup {None}]
      /\ k \in Keys /\ B \subseteq Assets /\ IsFiniteSet(B) /\ Ask[r].tenant \in Tenants
  BY WriteKeepsRecords, RecordFacts, RowsAsked DEF LedgerInv, WriteBatch
<1>2. /\ request[r].pc = "write" /\ request'[r].pc = "done"
      /\ \A a \in B : VehicleOf[a] = Ask[r].vehicle
      /\ \A s \in Requests \ {r} : request'[s] = request[s]
      /\ \A id \in JobIds : job'[id] = IF id[1] = k /\ id[2] \in B THEN NewJob(r) ELSE job[id]
  BY <1>1, WritesNewKey
<1>3. NewJob(r).status = "ACTIVE" /\ NewJob(r).billed = 0
  BY RecordTypes
<1>4. \A id \in JobIds : id[1] = k /\ id[2] \in B =>
        id \in {k} \X B /\ Owner(id) = Ask[r].tenant
  BY <1>1, <1>2, RowsAsked, JobFacts DEF Owner, Vehicle
<1> HIDE DEF k, B
<1>5. \A id \in JobIds : Bills(id)'
  BY <1>1, <1>2, <1>3, RecordFacts, PeriodFacts DEF LedgerInv, Bills, Period
<1>6. IsFiniteSet(Recorded')
  <2>1. Recorded' \subseteq Recorded \cup ({k} \X B)
    BY <1>2, <1>4 DEF Recorded
  <2>2. IsFiniteSet({k} \X B)
    BY <1>1, FS_Singleton, FS_Product
  <2>3. IsFiniteSet(Recorded \cup ({k} \X B))
    BY <2>2, FS_Union DEF LedgerInv
  <2> QED BY <2>1, <2>3, FS_Subset
<1>7. ASSUME NEW t \in Tenants
      PROVE  /\ Used(t, period)' \in Nat
             /\ Used(t, period)' <= Used(t, period) + Cardinality(B)
             /\ t # Ask[r].tenant => Used(t, period)' <= Used(t, period)
  <2>1. /\ IsFiniteSet(Charged(t, period)) /\ IsFiniteSet(InFlight(t))
        /\ Cardinality(Charged(t, period)) \in Nat /\ Cardinality(InFlight(t)) \in Nat
        /\ Cardinality(B) \in Nat
    BY <1>1, SumsFinite, FS_CardinalityType
  <2>2. Charged(t, period)' \subseteq Charged(t, period)
    BY <1>1, <1>2, <1>3 DEF Charged, Owner, Vehicle
  <2>3. /\ InFlight(t)' \subseteq InFlight(t) \cup ({k} \X B)
        /\ t # Ask[r].tenant => InFlight(t)' \subseteq InFlight(t)
    BY <1>2, <1>4 DEF InFlight, Owner, Vehicle
  <2>4. InFlight(t)' \subseteq Recorded' /\ Cardinality(InFlight(t)') \in Nat
    <3>1. InFlight(t)' \subseteq Recorded'
      BY DEF InFlight, Recorded
    <3> QED BY <1>6, <3>1, FS_Subset, FS_CardinalityType
  <2>5. /\ Cardinality(Charged(t, period)') \in Nat
        /\ Cardinality(Charged(t, period)') <= Cardinality(Charged(t, period))
    BY <2>1, <2>2, FS_Subset, FS_CardinalityType
  <2>6. Cardinality(InFlight(t)') <= Cardinality(InFlight(t)) + Cardinality(B)
    BY <1>1, <2>1, <2>3, BatchAdds
  <2>7. t # Ask[r].tenant => Cardinality(InFlight(t)') <= Cardinality(InFlight(t))
    BY <2>1, <2>3, FS_Subset
  <2> QED BY <2>1, <2>4, <2>5, <2>6, <2>7 DEF Used
<1>8. LockHeld(r) /\ Granted(r) /\ tenantLock[Ask[r].tenant] = r
      /\ Used(Ask[r].tenant, period) + Cardinality(B) <= Capacity
  BY <1>2 DEF LedgerInv, LockHeld, Granted, Reserving, B
<1>9. ASSUME NEW t \in Tenants
      PROVE  Used(t, period)' <= Capacity
  <2>1. Used(t, period) \in Nat /\ Used(t, period) <= Capacity /\ Cardinality(B) \in Nat
    BY <1>1, SumsFinite, FS_CardinalityType
  <2> QED BY <1>7, <1>8, <2>1, ConstantsAssumption
<1>10. ASSUME NEW s \in Requests
       PROVE  (LockHeld(s) /\ InPeriod(s) /\ Granted(s))'
  <2>1. LockHeld(s) /\ InPeriod(s) /\ Granted(s) /\ Ask[s].tenant \in Tenants
    BY RowsAsked DEF LedgerInv
  <2>2. CASE s = r
    BY <1>2, <2>2 DEF LockHeld, InPeriod, Granted, Reserving
  <2>3. CASE s # r /\ request[s].pc \in Reserving
    <3>1. tenantLock[Ask[s].tenant] = s /\ Ask[s].tenant # Ask[r].tenant
      BY <1>8, <2>1, <2>3 DEF LockHeld
    <3>2. tenantLock'[Ask[s].tenant] = s
      BY <1>1, <2>1, <2>3, <3>1 DEF ReleaseTenant
    <3>3. request'[s] = request[s] /\ UNCHANGED period
      BY <1>1, <1>2, <2>3
    <3>4. Used(Ask[s].tenant, period)' <= Used(Ask[s].tenant, period)
          /\ Used(Ask[s].tenant, period)' \in Nat /\ Used(Ask[s].tenant, period) \in Nat
          /\ Cardinality(Ask[s].assets) \in Nat
      BY <1>7, <2>1, <3>1, SumsFinite, RowsAsked, FS_CardinalityType
    <3>5. Granted(s)'
      BY <2>1, <3>3, <3>4, ConstantsAssumption DEF Granted
    <3> QED BY <2>1, <3>2, <3>3, <3>5 DEF LockHeld, InPeriod
  <2>4. CASE s # r /\ request[s].pc \notin Reserving
    BY <1>1, <1>2, <2>1, <2>4 DEF LockHeld, InPeriod, Granted, Reserving
  <2> QED BY <2>2, <2>3, <2>4
<1> QED BY <1>1, <1>5, <1>6, <1>9, <1>10 DEF LedgerInv, AllowanceRespected

(* A job's end does not bill before it commits, and bears a period reached. *)
LEMMA FinishingKeepsLedger ==
  ASSUME LedgerInv, NEW id \in JobIds, Finishing(id)
  PROVE  LedgerInv'
<1>1. /\ RecordInv' /\ UNCHANGED <<job, period, request, tenantLock>>
      /\ \A other \in JobIds \ {id} : finish'[other] = finish[other]
  BY FinishTypes, FinishingKeepsRecords DEF LedgerInv
<1>2. finish'[id].billed <= period
  <2>1. /\ finish \in [JobIds -> FinishState] /\ period \in Nat /\ finish[id].billed <= period
        /\ 0 <= period
    BY RecordFacts, PeriodFacts DEF LedgerInv, Bills, Period
  <2>2. CASE WriteOutcome(id)
    BY <2>1, <2>2 DEF WriteOutcome
  <2>3. CASE CountActive(id)
    BY <2>1, <2>3 DEF CountActive, FinishState
  <2>4. CASE OutcomeLost(id)
    BY <2>1, <2>4 DEF OutcomeLost, Unfinished
  <2> QED BY <2>2, <2>3, <2>4 DEF Finishing
<1>3. \A other \in JobIds : Bills(other)'
  BY <1>1, <1>2 DEF LedgerInv, Bills
<1>4. /\ IsFiniteSet(Recorded')
      /\ \A t \in Tenants : Used(t, period)' \in Nat /\ Used(t, period)' <= Used(t, period)
  BY <1>1, UsedStands, SumsFinite DEF LedgerInv
<1> QED BY <1>1, <1>3, <1>4, LedgerStands

(* The completion moves the job from one sum to the other.                 *)
LEMMA CommitKeepsLedger ==
  ASSUME LedgerInv, NEW id \in JobIds, CommitOutcome(id)
  PROVE  LedgerInv'
<1>1. /\ RecordInv /\ RecordInv' /\ UNCHANGED <<period, request, tenantLock>>
      /\ job[id].status = "ACTIVE" /\ job'[id].status \in {"COMPLETED", "FAILED"}
      /\ job'[id].billed = finish[id].billed
      /\ \A other \in JobIds \ {id} : job'[other] = job[other]
      /\ \A other \in JobIds \ {id} : finish'[other] = finish[other]
      /\ finish'[id] = Unfinished
  <2>1. RecordInv /\ job \in [JobIds -> JobRow] /\ finish \in [JobIds -> FinishState]
    BY RecordFacts DEF LedgerInv
  <2>2. /\ job' = [job EXCEPT ![id] = Ended(id)] /\ finish' = [finish EXCEPT ![id] = Unfinished]
    BY DEF CommitOutcome
  <2>3. job'[id].billed = finish[id].billed
    BY <2>1, <2>2 DEF Ended, JobRow
  <2> QED BY <2>1, <2>2, <2>3, CommitFacts, CommitKeepsRecords DEF CommitOutcome
<1>2. Recorded' = Recorded
  BY <1>1 DEF Recorded
<1>3. \A other \in JobIds : Bills(other)'
  <2>1. 0 <= period
    BY <1>1, RecordFacts, PeriodFacts DEF Period
  <2> QED BY <1>1, <2>1 DEF LedgerInv, Bills, Unfinished
<1>4. ASSUME NEW t \in Tenants
      PROVE  Used(t, period)' \in Nat /\ Used(t, period)' <= Used(t, period)
  <2>1. /\ IsFiniteSet(Charged(t, period)) /\ IsFiniteSet(InFlight(t))
        /\ Cardinality(Charged(t, period)) \in Nat /\ Cardinality(InFlight(t)) \in Nat
    BY SumsFinite
  <2>2. InFlight(t)' = InFlight(t) \ {id}
    BY <1>1 DEF InFlight, Owner, Vehicle
  <2>3. /\ Charged(t, period)' \subseteq Charged(t, period) \cup {id}
        /\ id \in InFlight(t) \/ Charged(t, period)' \subseteq Charged(t, period)
    BY <1>1 DEF Charged, InFlight, Owner, Vehicle
  <2>4. Cardinality(Charged(t, period)') + Cardinality(InFlight(t) \ {id})
          <= Cardinality(Charged(t, period)) + Cardinality(InFlight(t))
    BY <2>1, <2>3, MovedOver
  <2>5. Cardinality(Charged(t, period)') \in Nat /\ Cardinality(InFlight(t) \ {id}) \in Nat
    BY <2>1, <2>3, FS_AddElement, FS_RemoveElement, FS_Subset, FS_CardinalityType
  <2> QED BY <2>2, <2>4, <2>5 DEF Used
<1> QED BY <1>1, <1>2, <1>3, <1>4, LedgerStands DEF LedgerInv

(* Nothing was charged to the next period, and no request is under way.    *)
LEMMA MonthKeepsLedger ==
  ASSUME LedgerInv, ~LateRequests \/ Lifetime, MonthTurns
  PROVE  LedgerInv'
<1>1. /\ RecordInv /\ RecordInv' /\ UNCHANGED <<job, request, tenantLock, finish>>
      /\ period' = period + 1 /\ period \in Nat
  BY MonthKeepsRecords, RecordFacts, PeriodFacts DEF LedgerInv, MonthTurns, rows, Period
<1>2. Recorded' = Recorded /\ \A id \in JobIds : job[id].billed \in Nat /\ finish[id].billed \in Nat
  BY <1>1, RecordFacts DEF Recorded, JobRow, FinishState
<1>3. \A id \in JobIds : Bills(id)'
  BY <1>1, <1>2 DEF LedgerInv, Bills
<1>4. ASSUME NEW t \in Tenants
      PROVE  /\ Used(t, period)' \in Nat /\ Used(t, period)' <= Used(t, period)
  <2>1. InFlight(t)' = InFlight(t)
    BY <1>1 DEF InFlight, Owner, Vehicle
  <2>2. Charged(t, period)' \subseteq Charged(t, period)
    BY <1>1, <1>2 DEF Charged, Owner, Vehicle, LedgerInv, Bills
  <2>3. /\ IsFiniteSet(Charged(t, period)) /\ Cardinality(Charged(t, period)) \in Nat
        /\ Cardinality(InFlight(t)) \in Nat
    BY SumsFinite
  <2>4. /\ Cardinality(Charged(t, period)') \in Nat
        /\ Cardinality(Charged(t, period)') <= Cardinality(Charged(t, period))
    BY <2>2, <2>3, FS_Subset, FS_CardinalityType
  <2> QED BY <2>1, <2>3, <2>4 DEF Used
<1>5. ASSUME NEW r \in Requests
      PROVE  (LockHeld(r) /\ InPeriod(r) /\ Granted(r))'
  <2>1. LockHeld(r) /\ InPeriod(r) /\ Granted(r)
    BY DEF LedgerInv
  <2>2. LockHeld(r)'
    BY <1>1, <2>1 DEF LockHeld
  <2>3. CASE ~LateRequests
    BY <1>1, <2>2, <2>3 DEF MonthTurns, InPeriod, Granted, Reserving
  <2>4. CASE Lifetime
    <3>1. /\ Ask[r].tenant \in Tenants /\ Cardinality(Ask[r].assets) \in Nat
          /\ Used(Ask[r].tenant, period) \in Nat
      BY RowsAsked, SumsFinite, FS_CardinalityType
    <3>2. Granted(r)'
      BY <1>1, <1>4, <2>1, <3>1, ConstantsAssumption DEF Granted
    <3> QED BY <2>2, <2>4, <3>2 DEF InPeriod
  <2> QED BY <2>3, <2>4
<1>6. AllowanceRespected'
  <2>1. ASSUME NEW t \in Tenants
        PROVE  Used(t, period)' <= Capacity
    BY <1>4, SumsFinite, ConstantsAssumption
  <2> QED BY <2>1 DEF AllowanceRespected
<1> QED BY <1>1, <1>2, <1>3, <1>5, <1>6 DEF LedgerInv

LEMMA LedgerInit == Init => LedgerInv
<1> SUFFICES ASSUME Init PROVE LedgerInv
  OBVIOUS
<1>1. /\ \A id \in JobIds : job[id] = NoJob /\ finish[id] = Unfinished
      /\ \A r \in Requests : request[r].pc = "new" /\ period = 1
  BY DEF Init
<1>2. Recorded = {} /\ \A t : InFlight(t) = {} /\ Charged(t, period) = {}
  BY <1>1, RecordTypes DEF Recorded, InFlight, Charged
<1>3. \A id \in JobIds : Bills(id)
  BY <1>1, RecordTypes, RecordInit, RecordFacts, PeriodFacts DEF Bills, Unfinished, NoJob, Period
<1>4. AllowanceRespected /\ IsFiniteSet(Recorded)
  <2>1. Cardinality({}) = 0 /\ IsFiniteSet({}) /\ Capacity \in Nat
    BY FS_EmptySet, ConstantsAssumption
  <2>2. \A t : Used(t, period) = 0
    BY <1>2, <2>1 DEF Used
  <2> QED BY <1>2, <2>1, <2>2 DEF AllowanceRespected
<1> QED BY <1>1, <1>3, <1>4, RecordInit DEF LedgerInv, LockHeld, InPeriod, Granted, Reserving

LEMMA LedgerStep ==
  ASSUME ~LateRequests \/ Lifetime
  PROVE  LedgerInv /\ [Next]_vars => LedgerInv'
<1> SUFFICES ASSUME LedgerInv, [Next]_vars PROVE LedgerInv'
  OBVIOUS
<1>1. RecordInv
  BY DEF LedgerInv
<1>2. ASSUME NEW r \in Requests, Asking(r) PROVE LedgerInv'
  BY <1>1, <1>2, AskingMoves, MovesKeepsLedger
<1>3. CASE UNCHANGED vars
  <2>1. RecordInv' /\ UNCHANGED <<job, period, finish, request, tenantLock>>
    BY <1>1, <1>3, RecordStep DEF vars
  <2>2. \A id \in JobIds : Bills(id)'
    BY <2>1 DEF LedgerInv, Bills
  <2> QED BY <2>1, <2>2, UsedStands, SumsFinite, LedgerStands DEF LedgerInv
<1> QED BY <1>2, <1>3, StepKinds, WriteKeepsLedger, FinishingKeepsLedger, CommitKeepsLedger,
           MonthKeepsLedger

(* A plan's allowance is never exceeded: not by batches of different        *)
(* vehicles reserved at once, nor by completions between a count and the    *)
(* commit.  With a monthly allowance the month must not turn while a        *)
(* request is under way (see LateRequests).                                *)
THEOREM AllowanceHolds ==
  ASSUME ~LateRequests \/ Lifetime
  PROVE  Spec => []AllowanceRespected
<1>1. LedgerInv => AllowanceRespected
  BY DEF LedgerInv
<1>2. Init => LedgerInv
  BY LedgerInit
<1>3. LedgerInv /\ [Next]_vars => LedgerInv'
  BY LedgerStep
<1> QED BY <1>1, <1>2, <1>3, PTL DEF Spec
-----------------------------------------------------------------------------
(* The charges of jobs and ends: an active job is not charged, and an end   *)
(* is charged to a month gone by or, if the job failed, to none.           *)
EndBills(id) ==
  /\ job[id].status = "ACTIVE" => job[id].billed = 0
  /\ finish[id].pc # "idle" =>
       IF finish[id].outcome = "COMPLETED" THEN finish[id].billed \in 1..period
                                           ELSE finish[id].billed = 0

ChargeInv == VehicleInv /\ \A id \in JobIds : EndBills(id)

LEMMA ChargeInit == Init => ChargeInv
<1> SUFFICES ASSUME Init PROVE ChargeInv
  OBVIOUS
<1>1. \A id \in JobIds : job[id].billed = 0 /\ finish[id].pc = "idle"
  BY RecordTypes DEF Init
<1> QED BY <1>1, VehicleInit DEF ChargeInv, EndBills

LEMMA ChargeStep == ChargeInv /\ [Next]_vars => ChargeInv'
<1> SUFFICES ASSUME ChargeInv, [Next]_vars PROVE ChargeInv'
  OBVIOUS
<1>1. VehicleInv' /\ RecordInv
  BY VehicleStep, VehicleFacts DEF ChargeInv
<1>2. ASSUME NEW r \in Requests, Asking(r) PROVE ChargeInv'
  BY <1>1, <1>2, AskingMoves DEF Moves, rows, ChargeInv, EndBills
<1>3. ASSUME NEW r \in Requests, WriteBatch(r) PROVE ChargeInv'
  <2>1. /\ \A id \in JobIds : job'[id] = NewJob(r) \/ job'[id] = job[id]
        /\ UNCHANGED <<period, finish>> /\ NewJob(r).billed = 0
    BY <1>1, <1>3, WritesNewKey, RecordTypes DEF WriteBatch
  <2> QED BY <1>1, <2>1 DEF ChargeInv, EndBills
<1>4. ASSUME NEW id \in JobIds, Finishing(id) PROVE ChargeInv'
  <2>1. /\ UNCHANGED <<job, period>>
        /\ \A other \in JobIds \ {id} : finish'[other] = finish[other]
    BY <1>1, <1>4, FinishTypes
  <2>2. finish[id] \in FinishState /\ finish \in [JobIds -> FinishState] /\ period \in 1..period
    BY <1>1, RecordFacts DEF Period
  <2>3. EndBills(id)'
    <3>1. EndBills(id)
      BY DEF ChargeInv
    <3>2. CASE WriteOutcome(id)
      BY <2>1, <2>2, <3>1, <3>2 DEF WriteOutcome, EndBills
    <3>3. CASE CountActive(id)
      <4>1. /\ finish'[id].outcome = finish[id].outcome /\ finish'[id].billed = finish[id].billed
            /\ finish[id].pc # "idle"
        BY <2>2, <3>3 DEF CountActive, FinishState
      <4> QED BY <2>1, <3>1, <4>1 DEF EndBills
    <3>4. CASE OutcomeLost(id)
      BY <2>1, <2>2, <3>1, <3>4, RecordTypes DEF OutcomeLost, EndBills
    <3> QED BY <1>4, <3>2, <3>3, <3>4 DEF Finishing
  <2> QED BY <1>1, <2>1, <2>3 DEF ChargeInv, EndBills
<1>5. ASSUME NEW id \in JobIds, CommitOutcome(id) PROVE ChargeInv'
  <2>1. /\ UNCHANGED period /\ job'[id].status # "ACTIVE" /\ finish'[id].pc = "idle"
        /\ \A other \in JobIds \ {id} : job'[other] = job[other] /\ finish'[other] = finish[other]
    BY <1>1, <1>5, CommitFacts, RecordTypes
  <2> QED BY <1>1, <2>1 DEF ChargeInv, EndBills
<1>6. CASE MonthTurns
  <2>1. UNCHANGED <<job, finish>> /\ period' = period + 1 /\ period \in Nat
    BY <1>1, <1>6, RecordFacts DEF MonthTurns, rows, Period
  <2>2. 1..period \subseteq 1..period'
    BY <2>1
  <2> QED BY <1>1, <2>1, <2>2 DEF ChargeInv, EndBills
<1>7. CASE UNCHANGED vars
  BY <1>1, <1>7 DEF vars, ChargeInv, EndBills
<1> QED BY <1>2, <1>3, <1>4, <1>5, <1>6, <1>7, StepKinds

THEOREM ChargeInvariance == Spec => []ChargeInv
<1> QED BY ChargeInit, ChargeStep, PTL DEF Spec

(* The commit of a job's end: what becomes of the job's row.               *)
LEMMA CommitEnds ==
  ASSUME ChargeInv, NEW id \in JobIds, CommitOutcome(id)
  PROVE  \/ \E month \in 1..period :
              job' = [job EXCEPT ![id] = [job[id] EXCEPT !.status = "COMPLETED", !.billed = month]]
         \/ job' = [job EXCEPT ![id] = [job[id] EXCEPT !.status = "FAILED"]]
<1>1. /\ finish[id].pc = "counted" /\ job[id].status = "ACTIVE"
      /\ job[id] \in JobRow /\ finish[id] \in FinishState
  BY VehicleFacts, CommitFacts, RecordFacts DEF ChargeInv
<1>2. /\ job' = [job EXCEPT ![id] = Ended(id)] /\ job[id].billed = 0
      /\ IF finish[id].outcome = "COMPLETED" THEN finish[id].billed \in 1..period
                                             ELSE finish[id].billed = 0
  BY <1>1 DEF CommitOutcome, ChargeInv, EndBills
<1>3. CASE finish[id].outcome = "COMPLETED"
  <2>1. Ended(id) = [job[id] EXCEPT !.status = "COMPLETED", !.billed = finish[id].billed]
    BY <1>1, <1>3 DEF Ended, JobRow
  <2> QED BY <1>2, <1>3, <2>1
<1>4. CASE finish[id].outcome # "COMPLETED"
  <2>1. Ended(id) = [job[id] EXCEPT !.status = "FAILED"]
    BY <1>1, <1>2, <1>4 DEF Ended, JobRow
  <2> QED BY <1>2, <2>1
<1> QED BY <1>3, <1>4

(* What its vehicle shows then: what the newest batch's jobs say.          *)
LEMMA CommitShows ==
  ASSUME ChargeInv, NEW id \in JobIds, CommitOutcome(id), VehicleInv'
  PROVE  LET v == Vehicle(id) IN
         /\ vehicle'[v] \in {"PROCESSING", "PARTIALLY_FAILED", "READY"}
         /\ vehicle'[v] = "PROCESSING" <=> \E j \in JobIds : Vehicle(j) = v /\ job'[j].status = "ACTIVE"
         /\ vehicle'[v] = "PARTIALLY_FAILED" =>
              \E j \in JobIds : job'[j].status = "FAILED" /\ job'[j].by = newest[v]
         /\ vehicle'[v] = "READY" =>
              ~ \E j \in JobIds : job'[j].status = "FAILED" /\ job'[j].by = newest[v]
         /\ v \in Vehicles /\ vehicle' = [vehicle EXCEPT ![v] = vehicle'[v]]
         /\ UNCHANGED newest
<1> DEFINE v == Vehicle(id)
<1>1. /\ RecordInv /\ UNCHANGED newest /\ v \in Vehicles /\ job[id].status = "ACTIVE"
      /\ finish[id] \in FinishState
  BY VehicleFacts, CommitFacts, RecordFacts, JobFacts DEF ChargeInv
<1>2. vehicle'[v] \in {"PROCESSING", "PARTIALLY_FAILED", "READY"}
  <2>1. vehicle[v] = "PROCESSING" /\ finish[id].settles \in {"NONE", "PARTIALLY_FAILED", "READY"}
    BY <1>1 DEF ChargeInv, VehicleInv, FollowsActive, FinishState
  <2> QED BY <1>1, <2>1, RecordFacts DEF CommitOutcome
<1>3. /\ vehicle'[v] = "PROCESSING" <=> \E j \in JobIds : Vehicle(j) = v /\ job'[j].status = "ACTIVE"
      /\ vehicle'[v] = "PARTIALLY_FAILED" =>
           \E j \in JobIds : job'[j].status = "FAILED" /\ job'[j].by = newest[v]
      /\ vehicle'[v] = "READY" =>
           ~ \E j \in JobIds : job'[j].status = "FAILED" /\ job'[j].by = newest[v]
  BY <1>1 DEF VehicleInv, FollowsActive, FollowsNewest, FailedOfNewest, Vehicle
<1>4. vehicle' = [vehicle EXCEPT ![v] = vehicle'[v]]
  BY <1>1, RecordFacts DEF CommitOutcome
<1> QED BY <1>1, <1>2, <1>3, <1>4
-----------------------------------------------------------------------------
(* The ledger.  What BatchLedger asks of a step besides: a request past the *)
(* count is for a batch of the allowed size.                               *)
SizeAllowed(r) ==
  request[r].pc \in {"assets", "write"} => Cardinality(Ask[r].assets) <= MaxImages

BookInv == ChargeInv /\ LedgerInv /\ \A r \in Requests : SizeAllowed(r)

LEMMA BookInit == Init => BookInv
<1> SUFFICES ASSUME Init PROVE BookInv
  OBVIOUS
<1>1. \A r \in Requests : request[r].pc = "new"
  BY DEF Init
<1> QED BY <1>1, ChargeInit, LedgerInit DEF BookInv, SizeAllowed

LEMMA BookStep ==
  ASSUME ~LateRequests \/ Lifetime
  PROVE  BookInv /\ [Next]_vars => BookInv'
<1> SUFFICES ASSUME BookInv, [Next]_vars PROVE BookInv'
  OBVIOUS
<1>1. ChargeInv' /\ LedgerInv' /\ RecordInv
  BY ChargeStep, LedgerStep DEF BookInv, LedgerInv
<1>2. ASSUME NEW r \in Requests, Asking(r) PROVE BookInv'
  <2>1. PICK q : Moves(r, q)
    BY <1>1, <1>2, AskingMoves
  <2>2. ASSUME NEW s \in Requests PROVE SizeAllowed(s)'
    <3>1. request'[s] = IF s = r THEN q ELSE request[s]
      BY <1>1, <2>1, RecordFacts DEF Moves
    <3>2. SizeAllowed(s)
      BY DEF BookInv
    <3> QED BY <2>1, <3>1, <3>2 DEF SizeAllowed, Moves
  <2> QED BY <1>1, <2>2 DEF BookInv
<1>3. ASSUME NEW r \in Requests, WriteBatch(r) PROVE BookInv'
  <2>1. request'[r].pc = "done" /\ \A s \in Requests \ {r} : request'[s] = request[s]
    BY <1>1, <1>3, WritesNewKey
  <2> QED BY <1>1, <2>1 DEF BookInv, SizeAllowed
<1>4. ASSUME UNCHANGED request PROVE BookInv'
  BY <1>1, <1>4 DEF BookInv, SizeAllowed
<1>5. \A id \in JobIds : Finishing(id) \/ CommitOutcome(id) => UNCHANGED request
  BY DEF Finishing, WriteOutcome, CountActive, OutcomeLost, CommitOutcome
<1>6. MonthTurns \/ UNCHANGED vars => UNCHANGED request
  BY DEF MonthTurns, vars
<1> QED BY <1>2, <1>3, <1>4, <1>5, <1>6, StepKinds

LEMMA LedgerCounts == \A S : Ledger!Cardinality(S) = Cardinality(S)
BY DEF Ledger!Cardinality, Cardinality

LEMMA LedgerReads ==
  /\ Ledger!JobIds = JobIds /\ Ledger!NoJob = NoJob
  /\ \A t, k : Ledger!Batch(t, k) = Found(t, k)
  /\ \A t, n : Ledger!Covers(t, n) <=> Used(t, period) + n <= Capacity
  /\ \A id : Ledger!Vehicle(id) = Vehicle(id)
BY LedgerCounts DEF Ledger!JobIds, JobIds, Ledger!NoJob, NoJob, Ledger!Batch, Found, Ledger!Owner, Owner,
       Ledger!Vehicle, Vehicle, Ledger!Covers, Used, Ledger!Charged, Charged, Ledger!InFlight, InFlight

(* What the requests were told.                                            *)
Told == [r \in Requests |-> request[r].answer]

(* A request that is answered, and one that goes on.                       *)
LEMMA Tells ==
  ASSUME RecordInv, NEW r \in Requests, NEW why, Reply(r, why)
  PROVE  Told' = [Told EXCEPT ![r] = why]
<1> DEFINE q == [request[r] EXCEPT !.pc = "done", !.answer = why]
<1>1. request \in [Requests -> RequestState] /\ request' = [request EXCEPT ![r] = q]
  BY RecordFacts DEF Reply
<1>2. q.answer = why
  BY <1>1 DEF RequestState
<1> HIDE DEF q
<1>3. \A s \in Requests : request'[s].answer = IF s = r THEN why ELSE request[s].answer
  BY <1>1, <1>2
<1> QED BY <1>3 DEF Told

LEMMA TellsNothing ==
  ASSUME RecordInv, NEW r \in Requests, NEW q, request' = [request EXCEPT ![r] = q],
         q.answer = request[r].answer
  PROVE  Told' = Told
<1>1. \A s \in Requests : request'[s].answer = request[s].answer
  BY RecordFacts
<1> QED BY <1>1 DEF Told

LEMMA Awaits ==
  ASSUME RecordInv, NEW r \in Requests, request[r].pc # "done"
  PROVE  Told[r] = "NONE"
BY DEF RecordInv, RequestFits, Told

Booked == <<job, newest, vehicle, period>>

LEMMA LedgerVars == UNCHANGED <<Booked, Told>> => UNCHANGED Ledger!vars
BY DEF Booked, Told, Ledger!vars

(* A refusal and a replay of the ledger.                                   *)
LEMMA Refuses ==
  ASSUME RecordInv, NEW r \in Requests, NEW why \in Ledger!Refusals, request[r].pc # "done",
         Reply(r, why), UNCHANGED Booked,
         why = "BATCH_LIMIT_EXCEEDED" => Cardinality(Ask[r].assets) > MaxImages,
         why = "ALLOWANCE_EXHAUSTED" =>
           ~(Used(Ask[r].tenant, period) + Cardinality(Ask[r].assets) <= Capacity),
         why = "VEHICLE_UNAVAILABLE" => Found(Ask[r].tenant, Ask[r].key) = {}
  PROVE  Ledger!Next
<1>1. Told[r] = "NONE" /\ Told' = [Told EXCEPT ![r] = why]
  BY Awaits, Tells
<1>2. Ledger!Refuse(r, why)
  BY <1>1, LedgerReads, LedgerCounts DEF Ledger!Refuse, Ledger!Waits, Ledger!Reply, Told, Booked
<1> QED BY <1>2 DEF Ledger!Next

LEMMA Replayed ==
  ASSUME RecordInv, NEW r \in Requests, request[r].pc # "done",
         Found(Ask[r].tenant, Ask[r].key) # {},
         Reply(r, ReplayAnswer(r, Found(Ask[r].tenant, Ask[r].key))), UNCHANGED Booked
  PROVE  Ledger!Next
<1> DEFINE batch == Found(Ask[r].tenant, Ask[r].key)
<1>1. Told[r] = "NONE" /\ Told' = [Told EXCEPT ![r] = ReplayAnswer(r, batch)]
  BY Awaits, Tells
<1>2. ReplayAnswer(r, batch) = IF Ledger!Repeats(r, batch) THEN "EXISTING" ELSE "IDEMPOTENCY_CONFLICT"
  BY DEF ReplayAnswer, Same, Ledger!Repeats
<1>3. Ledger!Replay(r)
  BY <1>1, <1>2, LedgerReads DEF Ledger!Replay, Ledger!Waits, Ledger!Reply, Told, Booked
<1> QED BY <1>3 DEF Ledger!Next

(* A request's steps before its batch: an answer, or nothing the ledger     *)
(* knows of.                                                               *)
LEMMA AskingKeepsLedger ==
  ASSUME BookInv, NEW r \in Requests, Asking(r)
  PROVE  Ledger!Next \/ UNCHANGED Ledger!vars
<1>1. RecordInv /\ LedgerInv /\ UNCHANGED Booked
  <2>1. RecordInv /\ LedgerInv
    BY DEF BookInv, LedgerInv
  <2> QED BY <2>1, AskingMoves DEF Moves, rows, Booked
<1>2. ASSUME NEW to \in {"count", "assets", "write", "recheck"}, Go(r, to), request[r].pc # "done"
      PROVE  UNCHANGED Ledger!vars
  <2>1. request[r].answer = "NONE"
    BY <1>1, <1>2 DEF RecordInv, RequestFits
  <2> QED BY <1>1, <1>2, <2>1, GoesOn, TellsNothing, LedgerVars
<1>3. CASE Lookup(r)
  <2>1. CASE Found(Ask[r].tenant, Ask[r].key) # {}
    BY <1>1, <1>3, <2>1, Replayed DEF Lookup, At
  <2>2. CASE Found(Ask[r].tenant, Ask[r].key) = {}
    <3>1. PICK q : q = [request[r] EXCEPT !.pc = "lock", !.period = period]
      OBVIOUS
    <3>2. request' = [request EXCEPT ![r] = q] /\ q.answer = request[r].answer
      BY <1>1, <1>3, <2>2, <3>1, RecordFacts DEF Lookup, RequestState
    <3> QED BY <1>1, <3>2, TellsNothing, LedgerVars
  <2> QED BY <2>1, <2>2
<1>4. CASE LockTenant(r)
  BY <1>2, <1>4 DEF LockTenant, At
<1>5. CASE Count(r)
  <2>1. request[r].pc = "count"
    BY <1>5 DEF Count, At
  <2>2. CASE Reply(r, "BATCH_LIMIT_EXCEEDED") /\ Cardinality(Ask[r].assets) > MaxImages
    BY <1>1, <2>1, <2>2, Refuses DEF Ledger!Refusals
  <2>3. CASE Reply(r, "ALLOWANCE_EXHAUSTED") /\ ~AllowanceCovers(r)
    <3>1. Used(Ask[r].tenant, request[r].period) = Used(Ask[r].tenant, period)
      BY <1>1, <2>1, UsedOfPeriod DEF LedgerInv, InPeriod, Reserving
    <3> QED BY <1>1, <2>1, <2>3, <3>1, Refuses DEF AllowanceCovers, Ledger!Refusals
  <2>4. CASE Go(r, "assets")
    BY <1>2, <2>1, <2>4
  <2> QED BY <1>5, <2>2, <2>3, <2>4 DEF Count
<1>6. CASE ReadAssets(r)
  <2>1. request[r].pc = "assets"
    BY <1>6 DEF ReadAssets, At
  <2>2. CASE Reply(r, "ASSETS_NOT_READY")
    BY <1>1, <2>1, <2>2, Refuses DEF Ledger!Refusals
  <2>3. CASE Go(r, "write")
    BY <1>2, <2>1, <2>3
  <2> QED BY <1>6, <2>2, <2>3 DEF ReadAssets
<1>7. CASE WriteFails(r)
  BY <1>1, <1>7, Refuses DEF WriteFails, At, Ledger!Refusals
<1>8. CASE WriteRefused(r)
  BY <1>2, <1>8 DEF WriteRefused, At
<1>9. CASE Recheck(r)
  <2>1. CASE Found(Ask[r].tenant, Ask[r].key) # {}
    BY <1>1, <1>9, <2>1, Replayed DEF Recheck, At
  <2>2. CASE Found(Ask[r].tenant, Ask[r].key) = {}
    BY <1>1, <1>9, <2>2, Refuses DEF Recheck, At, Ledger!Refusals
  <2> QED BY <2>1, <2>2
<1>10. CASE RequestLost(r)
  BY <1>1, <1>10, Refuses DEF RequestLost, Ledger!Refusals
<1> QED BY <1>3, <1>4, <1>5, <1>6, <1>7, <1>8, <1>9, <1>10 DEF Asking

(* The commit of a batch is its acceptance: what the ledger asks for was    *)
(* read some steps before, and still holds.                                *)
LEMMA WriteAccepts ==
  ASSUME BookInv, NEW r \in Requests, WriteBatch(r)
  PROVE  Ledger!Next
<1>1. RecordInv /\ LedgerInv /\ request[r].pc = "write"
  BY DEF BookInv, LedgerInv, WriteBatch, At
<1>2. Told[r] = "NONE" /\ Told' = [Told EXCEPT ![r] = "CREATED"]
  BY <1>1, Awaits, Tells DEF WriteBatch
<1>3. /\ Found(Ask[r].tenant, Ask[r].key) = {} /\ \A a \in Ask[r].assets : VehicleOf[a] = Ask[r].vehicle
      /\ vehicle[Ask[r].vehicle] # "PROCESSING"
  BY <1>1, WritesNewKey DEF Found, WriteBatch, Claimable, Processable
<1>4. /\ Cardinality(Ask[r].assets) <= MaxImages
      /\ Used(Ask[r].tenant, period) + Cardinality(Ask[r].assets) <= Capacity
  BY <1>1 DEF BookInv, SizeAllowed, LedgerInv, Granted
<1>5. /\ job' = [id \in JobIds |-> IF id[1] = Ask[r].key /\ id[2] \in Ask[r].assets
                                     THEN [status |-> "ACTIVE", by |-> r, billed |-> 0] ELSE job[id]]
      /\ newest' = [newest EXCEPT ![Ask[r].vehicle] = r]
      /\ vehicle' = [vehicle EXCEPT ![Ask[r].vehicle] = "PROCESSING"]
      /\ UNCHANGED period
  BY DEF WriteBatch, NewJob
<1>6. Ledger!Accept(r)
  BY <1>2, <1>3, <1>4, <1>5, LedgerReads, LedgerCounts DEF Ledger!Accept, Ledger!Waits, Ledger!Reply, Told
<1> QED BY <1>6 DEF Ledger!Next

(* The commit of a job's end settles it, and the vehicle.                  *)
LEMMA CommitSettles ==
  ASSUME ChargeInv, NEW id \in JobIds, CommitOutcome(id), VehicleInv'
  PROVE  Ledger!Next
<1>1. /\ UNCHANGED <<newest, period>> /\ UNCHANGED Told /\ job[id].status = "ACTIVE"
  BY VehicleFacts, CommitFacts DEF ChargeInv, Told
<1>2. vehicle'[Vehicle(id)] = Ledger!Seen(Vehicle(id), job')
  BY CommitShows, LedgerReads DEF Ledger!Seen
<1>3. vehicle' = [vehicle EXCEPT ![Vehicle(id)] = Ledger!Seen(Vehicle(id), job')]
  BY <1>2, CommitShows
<1>4. Ledger!Settle(id)
  BY <1>1, <1>3, CommitEnds, LedgerReads DEF Ledger!Settle, Told
<1> QED BY <1>4, LedgerReads DEF Ledger!Next

LEMMA LedgerStarts == Init => Ledger!Init
<1> SUFFICES ASSUME Init PROVE Ledger!Init
  OBVIOUS
<1>1. Told = [r \in Requests |-> "NONE"]
  BY DEF Init, Told
<1> QED BY <1>1, LedgerReads DEF Init, Ledger!Init, Told

LEMMA LedgerMoves ==
  ASSUME BookInv, ChargeInv', [Next]_vars
  PROVE  [Ledger!Next]_(Ledger!vars)
<1>1. RecordInv
  BY DEF BookInv, LedgerInv
<1>2. ASSUME NEW id \in JobIds, Finishing(id) PROVE UNCHANGED Ledger!vars
  <2>1. UNCHANGED <<job, newest, vehicle, period, request>>
    BY <1>1, <1>2, FinishTypes
  <2> QED BY <2>1, LedgerVars DEF Booked, Told
<1>3. CASE MonthTurns
  <2>1. Ledger!NextMonth
    BY <1>3 DEF MonthTurns, rows, Ledger!NextMonth
  <2> QED BY <2>1 DEF Ledger!Next
<1>4. CASE UNCHANGED vars
  BY <1>4, LedgerVars DEF vars, Booked, Told
<1> QED BY <1>2, <1>3, <1>4, StepKinds, AskingKeepsLedger, WriteAccepts, CommitSettles
        DEF BookInv, ChargeInv

(* The reservation implements BatchLedger: with all its locks, rechecks and *)
(* races every request is answered as if batches and completions came one   *)
(* by one.  (As for the allowance, the month of a monthly one must not turn *)
(* while a request is under way.)                                          *)
THEOREM ImplementsLedger ==
  ASSUME ~LateRequests \/ Lifetime
  PROVE  Spec => KeepsLedger
<1>1. Init => BookInv
  BY BookInit
<1>2. BookInv /\ [Next]_vars => BookInv'
  BY BookStep
<1>3. BookInv /\ BookInv' /\ [Next]_vars => [Ledger!Next]_(Ledger!vars)
  BY LedgerMoves DEF BookInv
<1> QED BY <1>1, <1>2, <1>3, LedgerStarts, PTL DEF Spec, KeepsLedger, Ledger!Spec
-----------------------------------------------------------------------------
(* The batches one by one, each of them as the pipeline works on it.        *)

Outcomes(r) == [a \in Ask[r].assets |-> CASE JobOf(r, a).status = "ACTIVE" -> "pending"
                                          [] JobOf(r, a).status = "COMPLETED" -> "delivered"
                                          [] OTHER -> "failed"]
Paid(r) == {a \in Ask[r].assets : JobOf(r, a).billed # 0}

LEMMA BatchJobs ==
  ASSUME RecordInv, NEW r \in Requests, Created(r)
  PROVE  /\ \A a \in Ask[r].assets :
              LET id == <<Ask[r].key, a>> IN
              /\ id \in JobIds /\ id[1] = Ask[r].key /\ id[2] = a
              /\ Vehicle(id) = Ask[r].vehicle /\ job[id] \in JobRow
              /\ job[id].status # "NONE" /\ job[id].by = r
         /\ \A id \in JobIds : job[id].status # "NONE" /\ job[id].by = r =>
              id[2] \in Ask[r].assets /\ id = <<Ask[r].key, id[2]>>
<1>1. ASSUME NEW a \in Ask[r].assets
      PROVE  LET id == <<Ask[r].key, a>> IN
             /\ id \in JobIds /\ id[1] = Ask[r].key /\ id[2] = a
             /\ Vehicle(id) = Ask[r].vehicle /\ job[id] \in JobRow
             /\ job[id].status # "NONE" /\ job[id].by = r
  <2>1. PICK id : id = <<Ask[r].key, a>>
    OBVIOUS
  <2>2. id \in JobIds /\ id[1] = Ask[r].key /\ id[2] = a
    BY <2>1, RowsAsked DEF JobIds
  <2>3. /\ Vehicle(id) = Ask[r].vehicle /\ job[id] \in JobRow
        /\ job[id].status # "NONE" /\ job[id].by = r
    BY <2>2, RecordFacts DEF Vehicle, RecordInv, BatchWhole, Created
  <2> QED BY <2>1, <2>2, <2>3
<1>2. ASSUME NEW id \in JobIds, job[id].status # "NONE", job[id].by = r
      PROVE  id[2] \in Ask[r].assets /\ id = <<Ask[r].key, id[2]>>
  BY <1>2, JobFacts DEF RecordInv, JobRecorded
<1> QED BY <1>1, <1>2

(* A batch under way is its vehicle's newest, and what is active there.     *)
LEMMA UnderwayIsNewest ==
  ASSUME VehicleInv, NEW r \in Requests, Underway(r)
  PROVE  /\ Created(r) /\ newest[Ask[r].vehicle] = r /\ vehicle[Ask[r].vehicle] = "PROCESSING"
         /\ \A id \in JobIds : Vehicle(id) = Ask[r].vehicle /\ job[id].status = "ACTIVE"
              => id[2] \in Ask[r].assets /\ id = <<Ask[r].key, id[2]>>
<1>1. PICK a \in Ask[r].assets : JobOf(r, a).status = "ACTIVE"
  BY DEF Underway
<1>2. PICK id : id = <<Ask[r].key, a>>
  OBVIOUS
<1>3. /\ id \in JobIds /\ Vehicle(id) = Ask[r].vehicle /\ job[id].by = r
      /\ job[id].status = "ACTIVE" /\ Ask[r].vehicle \in Vehicles
  BY <1>1, <1>2, VehicleFacts, BatchJobs, RowsAsked DEF JobOf, Underway
<1>4. newest[Ask[r].vehicle] = r /\ vehicle[Ask[r].vehicle] = "PROCESSING"
  BY <1>3 DEF VehicleInv, FollowsActive
<1>5. ASSUME NEW j \in JobIds, Vehicle(j) = Ask[r].vehicle, job[j].status = "ACTIVE"
      PROVE  j[2] \in Ask[r].assets /\ j = <<Ask[r].key, j[2]>>
  <2>1. job[j].by = r
    BY <1>3, <1>4, <1>5 DEF VehicleInv, FollowsActive
  <2> QED BY <1>5, <2>1, VehicleFacts, BatchJobs DEF Underway
<1> QED BY <1>4, <1>5 DEF Underway

LEMMA Untouched ==
  ASSUME NEW r \in Requests, \A a \in Ask[r].assets : JobOf(r, a)' = JobOf(r, a),
         vehicle'[Ask[r].vehicle] = vehicle[Ask[r].vehicle]
  PROVE  UNCHANGED Pipeline(r)!vars
<1>1. Outcomes(r)' = Outcomes(r) /\ Paid(r)' = Paid(r)
  BY DEF Outcomes, Paid
<1> QED BY <1>1 DEF Pipeline!vars, Outcomes, Paid

(* Another batch starts: of another vehicle, and under another key.         *)
LEMMA WriteTouchesNone ==
  ASSUME VehicleInv, NEW q \in Requests, WriteBatch(q), NEW r \in Requests, Underway(r)
  PROVE  UNCHANGED Pipeline(r)!vars
<1>1. RecordInv
  BY VehicleFacts
<1>2. ASSUME NEW a \in Ask[r].assets PROVE JobOf(r, a)' = JobOf(r, a)
  <2>1. PICK id : id = <<Ask[r].key, a>>
    OBVIOUS
  <2>2. id \in JobIds /\ job[id].status # "NONE"
    BY <1>1, <2>1, BatchJobs DEF Underway
  <2>3. job'[id] = job[id]
    BY <1>1, <2>2, WritesNewKey
  <2> QED BY <2>1, <2>3 DEF JobOf
<1>3. vehicle'[Ask[r].vehicle] = vehicle[Ask[r].vehicle]
  <2>1. vehicle[Ask[r].vehicle] = "PROCESSING" /\ vehicle[Ask[q].vehicle] # "PROCESSING"
    BY UnderwayIsNewest DEF WriteBatch, Claimable, Processable
  <2> QED BY <1>1, <2>1, RowsAsked, RecordFacts DEF WriteBatch
<1> QED BY <1>2, <1>3, Untouched

(* A job ends: one of the batch, or one of another vehicle.                *)
LEMMA EndInBatch ==
  ASSUME ChargeInv, VehicleInv', NEW id \in JobIds, CommitOutcome(id), NEW r \in Requests,
         Underway(r), id[2] \in Ask[r].assets, id = <<Ask[r].key, id[2]>>
  PROVE  Pipeline(r)!Next
<1> DEFINE v == Ask[r].vehicle
           to == IF finish[id].outcome = "COMPLETED" THEN "delivered" ELSE "failed"
<1>1. PICK e : e = id[2]
  OBVIOUS
<1>2. /\ RecordInv /\ VehicleInv /\ Created(r) /\ RecordInv' /\ Created(r)'
      /\ job[id].status = "ACTIVE" /\ UNCHANGED <<newest, request>> /\ newest[v] = r
      /\ job'[id].status = IF finish[id].outcome = "COMPLETED" THEN "COMPLETED" ELSE "FAILED"
      /\ job'[id].billed = finish[id].billed /\ job[id].billed = 0
      /\ finish[id].pc = "counted"
      /\ \A other \in JobIds \ {id} : job'[other] = job[other]
  BY VehicleFacts, UnderwayIsNewest, CommitFacts, CommitKeepsRecords
     DEF ChargeInv, EndBills, Created
<1>3. IF finish[id].outcome = "COMPLETED" THEN finish[id].billed # 0 ELSE finish[id].billed = 0
  <2>1. period \in Nat
    BY <1>2, RecordFacts DEF Period
  <2> QED BY <1>2, <2>1 DEF ChargeInv, EndBills
<1>4. /\ \A a \in Ask[r].assets \ {e} : JobOf(r, a)' = JobOf(r, a)
      /\ JobOf(r, e)' = job'[id] /\ JobOf(r, e) = job[id] /\ e \in Ask[r].assets
  <2>1. ASSUME NEW a \in Ask[r].assets \ {e} PROVE JobOf(r, a)' = JobOf(r, a)
    <3>1. PICK other : other = <<Ask[r].key, a>>
      OBVIOUS
    <3>2. other \in JobIds \ {id}
      BY <1>1, <1>2, <3>1, BatchJobs
    <3> QED BY <1>2, <3>1, <3>2 DEF JobOf
  <2> QED BY <1>1, <2>1 DEF JobOf
<1>5. Outcomes(r)[e] = "pending" /\ Outcomes(r)' = [Outcomes(r) EXCEPT ![e] = to]
  BY <1>2, <1>4 DEF Outcomes
<1>6. Paid(r)' = IF to = "delivered" THEN Paid(r) \cup {e} ELSE Paid(r)
  BY <1>2, <1>3, <1>4 DEF Paid
<1>7. (\E a \in Ask[r].assets : Outcomes(r)'[a] = "pending")
        <=> \E j \in JobIds : Vehicle(j) = v /\ job'[j].status = "ACTIVE"
  <2>1. ASSUME NEW a \in Ask[r].assets, Outcomes(r)'[a] = "pending"
        PROVE  \E j \in JobIds : Vehicle(j) = v /\ job'[j].status = "ACTIVE"
    <3>1. PICK j : j = <<Ask[r].key, a>>
      OBVIOUS
    <3>2. j \in JobIds /\ Vehicle(j) = v
      BY <1>2, <3>1, BatchJobs
    <3>3. job'[j].status = "ACTIVE"
      BY <2>1, <3>1 DEF Outcomes, JobOf
    <3> QED BY <3>2, <3>3
  <2>2. ASSUME NEW j \in JobIds, Vehicle(j) = v, job'[j].status = "ACTIVE"
        PROVE  \E a \in Ask[r].assets : Outcomes(r)'[a] = "pending"
    <3>1. job[j].status = "ACTIVE"
      BY <1>2, <2>2
    <3>2. j[2] \in Ask[r].assets /\ j = <<Ask[r].key, j[2]>>
      BY <1>2, <2>2, <3>1, UnderwayIsNewest
    <3>3. JobOf(r, j[2])' = job'[j]
      BY <3>2 DEF JobOf
    <3> QED BY <2>2, <3>2, <3>3 DEF Outcomes
  <2> QED BY <2>1, <2>2
<1>8. (\E a \in Ask[r].assets : Outcomes(r)'[a] = "failed")
        <=> \E j \in JobIds : job'[j].status = "FAILED" /\ job'[j].by = newest[v]
  <2>1. ASSUME NEW a \in Ask[r].assets, Outcomes(r)'[a] = "failed"
        PROVE  \E j \in JobIds : job'[j].status = "FAILED" /\ job'[j].by = newest[v]
    <3>1. PICK j : j = <<Ask[r].key, a>>
      OBVIOUS
    <3>2. j \in JobIds /\ job[j].by = r /\ job[j].status # "NONE" /\ job[j] \in JobRow
      BY <1>2, <3>1, BatchJobs
    <3>3. job'[j].status \in {"ACTIVE", "COMPLETED", "FAILED"} /\ job'[j].by = r
      BY <1>2, <3>2, CommitFacts DEF JobRow
    <3>4. job'[j].status = "FAILED"
      BY <2>1, <3>1, <3>3 DEF Outcomes, JobOf
    <3> QED BY <1>2, <3>2, <3>3, <3>4
  <2>2. ASSUME NEW j \in JobIds, job'[j].status = "FAILED", job'[j].by = newest[v]
        PROVE  \E a \in Ask[r].assets : Outcomes(r)'[a] = "failed"
    <3>1. job[j].status # "NONE" /\ job[j].by = r
      BY <1>2, <2>2, CommitFacts
    <3>2. j[2] \in Ask[r].assets /\ j = <<Ask[r].key, j[2]>>
      BY <1>2, <3>1, BatchJobs
    <3>3. JobOf(r, j[2])' = job'[j]
      BY <3>2 DEF JobOf
    <3> QED BY <2>2, <3>2, <3>3 DEF Outcomes
  <2> QED BY <2>1, <2>2
<1>9. vehicle'[v] = IF \E a \in Ask[r].assets : Outcomes(r)'[a] = "pending" THEN "PROCESSING"
                    ELSE IF \E a \in Ask[r].assets : Outcomes(r)'[a] = "failed"
                           THEN "PARTIALLY_FAILED" ELSE "READY"
  <2>1. Vehicle(id) = v
    BY <1>2, BatchJobs
  <2> QED BY <1>7, <1>8, <2>1, CommitShows
<1> HIDE DEF to
<1>10. CASE to = "delivered"
  <2>1. Pipeline(r)!Deliver(e)
    BY <1>5, <1>6, <1>9, <1>10
       DEF Pipeline!Deliver, Pipeline!Settle, Pipeline!Seen, Outcomes, Paid
  <2> QED BY <1>4, <2>1 DEF Pipeline!Next
<1>11. CASE to = "failed"
  <2>1. Pipeline(r)!Fail(e)
    BY <1>5, <1>6, <1>9, <1>11
       DEF Pipeline!Fail, Pipeline!Settle, Pipeline!Seen, Outcomes, Paid
  <2> QED BY <1>4, <2>1 DEF Pipeline!Next
<1> QED BY <1>10, <1>11 DEF to

LEMMA EndElsewhere ==
  ASSUME VehicleInv, NEW id \in JobIds, CommitOutcome(id), NEW r \in Requests, Underway(r),
         ~(id[2] \in Ask[r].assets /\ id = <<Ask[r].key, id[2]>>)
  PROVE  UNCHANGED Pipeline(r)!vars
<1>1. /\ RecordInv /\ job[id].status = "ACTIVE"
      /\ \A other \in JobIds \ {id} : job'[other] = job[other]
  BY VehicleFacts, CommitFacts
<1>2. ASSUME NEW a \in Ask[r].assets PROVE JobOf(r, a)' = JobOf(r, a)
  <2>1. PICK other : other = <<Ask[r].key, a>>
    OBVIOUS
  <2>2. other \in JobIds \ {id}
    BY <1>1, <2>1, BatchJobs DEF Underway
  <2> QED BY <1>1, <2>1, <2>2 DEF JobOf
<1>3. Vehicle(id) # Ask[r].vehicle
  BY <1>1, UnderwayIsNewest
<1>4. vehicle'[Ask[r].vehicle] = vehicle[Ask[r].vehicle]
  BY <1>1, <1>3, RowsAsked, RecordFacts DEF CommitOutcome
<1> QED BY <1>2, <1>4, Untouched

LEMMA BatchStarts ==
  ASSUME RecordInv, NEW r \in Requests, WriteBatch(r)
  PROVE  Pipeline(r)!Init'
<1>1. ASSUME NEW a \in Ask[r].assets
      PROVE  JobOf(r, a)'.status = "ACTIVE" /\ JobOf(r, a)'.billed = 0
  <2>1. PICK id : id = <<Ask[r].key, a>>
    OBVIOUS
  <2>2. id \in JobIds /\ id[1] = Ask[r].key /\ id[2] \in Ask[r].assets
    BY <2>1, RowsAsked DEF JobIds
  <2>3. job'[id] = NewJob(r)
    BY <2>2, WritesNewKey
  <2> QED BY <2>1, <2>3, RecordTypes DEF JobOf
<1>2. Outcomes(r)' = [a \in Ask[r].assets |-> "pending"] /\ Paid(r)' = {}
  BY <1>1 DEF Outcomes, Paid
<1>3. vehicle'[Ask[r].vehicle] = "PROCESSING"
  BY RowsAsked, RecordFacts DEF WriteBatch
<1> QED BY <1>2, <1>3 DEF Pipeline!Init, Outcomes, Paid

LEMMA BatchRuns ==
  ASSUME ChargeInv, ChargeInv', [Next]_vars, NEW r \in Requests
  PROVE  /\ ~Created(r) /\ Created(r)' => Pipeline(r)!Init'
         /\ Underway(r) => [Pipeline(r)!Next]_(Pipeline(r)!vars)
<1>1. RecordInv /\ VehicleInv /\ VehicleInv'
  BY VehicleFacts DEF ChargeInv
<1>2. ASSUME UNCHANGED <<job, vehicle>>
      PROVE  UNCHANGED Pipeline(r)!vars
  BY <1>2, Untouched DEF JobOf
<1>3. ASSUME NEW q \in Requests, Asking(q)
      PROVE  (Created(r)' => Created(r)) /\ UNCHANGED Pipeline(r)!vars
  <2>1. PICK to : Moves(q, to)
    BY <1>1, <1>3, AskingMoves
  <2>2. Created(r)' => Created(r)
    BY <1>1, <2>1, RecordFacts DEF Moves, Created
  <2>3. UNCHANGED <<job, vehicle>>
    BY <2>1 DEF Moves, rows
  <2> QED BY <1>2, <2>2, <2>3
<1>4. ASSUME NEW q \in Requests, WriteBatch(q)
      PROVE  /\ ~Created(r) /\ Created(r)' => Pipeline(r)!Init'
             /\ Underway(r) => UNCHANGED Pipeline(r)!vars
  <2>1. ~Created(r) /\ Created(r)' => r = q
    BY <1>1, <1>4, WritesNewKey DEF Created
  <2> QED BY <1>1, <1>4, <2>1, BatchStarts, WriteTouchesNone
<1>5. ASSUME NEW id \in JobIds, Finishing(id)
      PROVE  (Created(r)' => Created(r)) /\ UNCHANGED Pipeline(r)!vars
  BY <1>1, <1>2, <1>5, FinishTypes DEF Created
<1>6. ASSUME NEW id \in JobIds, CommitOutcome(id)
      PROVE  /\ Created(r)' => Created(r)
             /\ Underway(r) => [Pipeline(r)!Next]_(Pipeline(r)!vars)
  <2>1. Created(r)' => Created(r)
    BY <1>1, <1>6, CommitFacts DEF Created
  <2> QED BY <1>1, <1>6, <2>1, EndInBatch, EndElsewhere
<1>7. MonthTurns \/ UNCHANGED vars => UNCHANGED <<job, vehicle, request>>
  BY DEF MonthTurns, rows, vars
<1>8. ASSUME UNCHANGED <<job, vehicle, request>>
      PROVE  (Created(r)' => Created(r)) /\ UNCHANGED Pipeline(r)!vars
  BY <1>2, <1>8 DEF Created
<1> QED BY <1>3, <1>4, <1>5, <1>6, <1>7, <1>8, StepKinds

(* Each batch runs as JobOutcomes says of one batch alone, which is what    *)
(* the pipeline implements: other batches, requests and vehicles of the     *)
(* tenant do not touch it until it has ended.                              *)
THEOREM BatchesCompose == Spec => BatchesRunAsPromised
<1>1. ChargeInv /\ ChargeInv' /\ [Next]_vars =>
        [\A r \in Requests :
           /\ ~Created(r) /\ Created(r)' => Pipeline(r)!Init'
           /\ Underway(r) => [Pipeline(r)!Next]_(Pipeline(r)!vars)]_vars
  BY BatchRuns
<1> QED BY <1>1, ChargeInvariance, PTL DEF Spec, BatchesRunAsPromised
=============================================================================
