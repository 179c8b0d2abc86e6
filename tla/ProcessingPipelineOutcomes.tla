---------------------- MODULE ProcessingPipelineOutcomes ----------------------
(***************************************************************************)
(* Proof of what ProcessingPipeline promises where no handling outlives its *)
(* lease, as in the Lambda deployment: claims are exclusive, attempts tell  *)
(* the job's history, outcomes are final, the vehicle follows its jobs, the *)
(* provider is paid within the attempts, and all of it implements           *)
(* JobOutcomes.  With SlowHandling none of it can be proved: FailExhausted  *)
(* writes by id alone.                                                      *)
(***************************************************************************)
EXTENDS ProcessingPipelineProofs

(* A handling that holds a claim owns the job's row, unexpired.            *)
Owned ==
  \A w \in Workers : worker[w].pc \in Claimed =>
    LET row == job[worker[w].job] IN
    /\ row.status = "PROCESSING" /\ row.worker = w /\ row.lease = "held"
    /\ row.attempts = worker[w].n

(* What a claiming handling read was true once: attempts only grow.        *)
ReadBefore ==
  \A w \in Workers : worker[w].pc = "claim" =>
    worker[w].n <= job[worker[w].job].attempts

(* A job whose budget is spent is claimed no more, so that the write by id  *)
(* hits what was read, or a job that failed already.                       *)
Spent ==
  \A w \in Workers : worker[w].pc = "exhaust" =>
    LET row == job[worker[w].job] IN
    /\ worker[w].n = MaxAttempts /\ row.attempts = MaxAttempts
    /\ Expired(row) \/ row.status = "FAILED"

Completed == {j \in Jobs : job[j].status = "COMPLETED"}

(* Delivered and billed together.                                          *)
Delivered == asset = Completed /\ usage = Completed

(* An attempt that has not paid yet may.                                   *)
Unpaid ==
  \A w \in Workers : worker[w].pc \in {"source", "pay"} =>
    charges[worker[w].job] < worker[w].n

OutcomeInv ==
  /\ Owned /\ ReadBefore /\ Spent /\ Delivered /\ Unpaid
  /\ AttemptHistory /\ VehicleFollowsJobs /\ ChargesWithinAttempts

recorded == <<job, attempt, asset, usage, vehicle, charges>>
-----------------------------------------------------------------------------
LEMMA OutcomeInvInit == Init => OutcomeInv
<1> SUFFICES ASSUME Init PROVE OutcomeInv
  OBVIOUS
<1> USE ConstantsAssumption DEF Init
<1>1. Owned /\ ReadBefore /\ Spent /\ Unpaid
  BY DEF Owned, ReadBefore, Spent, Unpaid, Handle, Claimed
<1>2. Delivered /\ ChargesWithinAttempts
  BY DEF Delivered, Completed, ChargesWithinAttempts
<1>3. AttemptHistory
  BY DEF AttemptHistory, NoAttempt
<1>4. VehicleFollowsJobs
  BY DEF VehicleFollowsJobs, Active, Waiting
<1> QED BY <1>1, <1>2, <1>3, <1>4 DEF OutcomeInv

(* A claim belongs to one handling.                                        *)
LEMMA OwnerIsOne ==
  ASSUME OutcomeInv, NEW v \in Workers, NEW w \in Workers,
         worker[v].pc \in Claimed, worker[w].pc \in Claimed,
         worker[v].job = worker[w].job
  PROVE  v = w
BY DEF OutcomeInv, Owned

(* A handling that moves on, or ends, without writing a row.               *)
LEMMA HandlingMoves ==
  ASSUME TypeInv, OutcomeInv, UNCHANGED recorded, NEW w \in Workers, NEW h, Becomes(w, h),
         h.pc \in Claimed => /\ worker[w].pc \in Claimed
                             /\ h.job = worker[w].job /\ h.n = worker[w].n,
         h.pc \in {"source", "pay"} => worker[w].pc \in {"source", "pay"},
         h.pc = "claim" => h.n <= job[h.job].attempts,
         h.pc = "exhaust" => /\ h.n = MaxAttempts /\ job[h.job].attempts = MaxAttempts
                             /\ Expired(job[h.job])
  PROVE  OutcomeInv'
<1>1. worker'[w] = h /\ \A v \in Workers \ {w} : worker'[v] = worker[v]
  BY DEF Becomes, TypeInv, TypeOK
<1>2. UNCHANGED <<job, attempt, asset, usage, vehicle, charges>>
  BY DEF recorded
<1>3. Owned'
  BY <1>1, <1>2 DEF OutcomeInv, Owned
<1>4. ReadBefore'
  BY <1>1, <1>2 DEF OutcomeInv, ReadBefore
<1>5. Spent'
  BY <1>1, <1>2 DEF OutcomeInv, Spent
<1>6. Unpaid'
  BY <1>1, <1>2 DEF OutcomeInv, Unpaid, Claimed
<1>7. Delivered' /\ AttemptHistory' /\ VehicleFollowsJobs' /\ ChargesWithinAttempts'
  BY <1>2 DEF OutcomeInv, Delivered, Completed, AttemptHistory, VehicleFollowsJobs,
     ChargesWithinAttempts
<1> QED BY <1>3, <1>4, <1>5, <1>6, <1>7 DEF OutcomeInv

LEMMA HandlingEnds ==
  ASSUME TypeInv, OutcomeInv, UNCHANGED recorded, NEW w \in Workers,
         Done(w) \/ RetryDelivery(w)
  PROVE  OutcomeInv'
<1>1. ASSUME NEW pc \in {"idle", "ack"}, NEW m, Becomes(w, Handle(pc, m, None))
      PROVE  OutcomeInv'
  <2> DEFINE h == Handle(pc, m, None)
  <2>1. h.pc = pc /\ Becomes(w, h)
    BY <1>1 DEF Handle
  <2> HIDE DEF h
  <2> QED BY <2>1, HandlingMoves DEF Claimed
<1> QED BY <1>1 DEF Done, RetryDelivery

(* The steps of a handling that write no row and pay nothing.              *)
LEMMA ReadKeeps ==
  ASSUME TypeInv, OutcomeInv, NEW w \in Workers,
         ReadQueued(w) \/ ReadExpired(w) \/ ReadExhausted(w)
  PROVE  OutcomeInv'
<1> DEFINE j == worker[w].job
<1>1. /\ j \in Jobs /\ worker[w].pc = "received" /\ UNCHANGED recorded
      /\ worker[w] \in Handling /\ job[j] \in JobRow
  BY DEF ReadQueued, ReadExpired, ReadExhausted, ReadAs, recorded, rows, paid, TypeInv, TypeOK,
     WellFormed, GoodHandling
<1>2. ASSUME NEW pc \in {"claim", "exhaust"}, NEW seen, ReadAs(w, pc, seen),
             pc = "exhaust" => Expired(job[j]) /\ job[j].attempts = MaxAttempts
      PROVE  OutcomeInv'
  <2> DEFINE h == [worker[w] EXCEPT !.pc = pc, !.n = job[worker[w].job].attempts, !.seen = seen]
  <2>1. h.pc = pc /\ h.n = job[j].attempts /\ h.job = j /\ Becomes(w, h)
    BY <1>1, <1>2 DEF ReadAs, Handling
  <2>2. job[j].attempts \in Nat
    BY <1>1, ConstantsAssumption DEF JobRow
  <2> HIDE DEF h, j
  <2> QED BY <1>1, <1>2, <2>1, <2>2, HandlingMoves DEF Claimed
<1>3. job[j].attempts >= MaxAttempts => job[j].attempts = MaxAttempts
  BY <1>1, ConstantsAssumption DEF JobRow
<1> HIDE DEF j
<1> QED BY <1>2, <1>3 DEF ReadQueued, ReadExpired, ReadExhausted, j

(* A handling that has claimed and goes on, without paying.                *)
LEMMA GoesOn ==
  ASSUME TypeInv, OutcomeInv, UNCHANGED recorded, NEW w \in Workers, NEW h, Becomes(w, h),
         worker[w].pc \in Claimed, h.job = worker[w].job, h.n = worker[w].n,
         h.pc \in Claimed, h.pc \in {"source", "pay"} => worker[w].pc \in {"source", "pay"}
  PROVE  OutcomeInv'
<1>1. h.pc \notin {"claim", "exhaust"}
  BY DEF Claimed
<1> QED BY <1>1, HandlingMoves

LEMMA ExecuteKeeps ==
  ASSUME TypeInv, OutcomeInv, NEW w \in Workers, ExecuteNext(w), ~PayProvider(w)
  PROVE  OutcomeInv'
<1>0. worker[w] \in Handling
  BY DEF TypeInv, TypeOK
<1>1. ASSUME NEW pc \in {"render", "pay"}, Continue(w, pc), worker[w].pc = "source"
      PROVE  OutcomeInv'
  <2> DEFINE h == [worker[w] EXCEPT !.pc = pc]
  <2>1. Becomes(w, h) /\ h.pc = pc /\ h.job = worker[w].job /\ h.n = worker[w].n
    BY <1>0, <1>1 DEF Continue, Handling
  <2>2. UNCHANGED recorded
    BY <1>1 DEF Continue, recorded, rows, paid
  <2> HIDE DEF h
  <2> QED BY <1>1, <2>1, <2>2, GoesOn DEF Claimed
<1>2. ASSUME NEW outcome, NEW request, Result(w, outcome, request),
             worker[w].pc \in {"source", "pay", "stage", "render"},
             UNCHANGED <<rows, paid>>
      PROVE  OutcomeInv'
  <2> DEFINE h == [worker[w] EXCEPT !.pc = "finish", !.outcome = outcome, !.request = request]
  <2>1. Becomes(w, h) /\ h.pc = "finish" /\ h.job = worker[w].job /\ h.n = worker[w].n
    BY <1>0, <1>2 DEF Result, Handling
  <2>2. UNCHANGED recorded
    BY <1>2 DEF recorded, rows, paid
  <2> HIDE DEF h
  <2> QED BY <1>2, <2>1, <2>2, GoesOn DEF Claimed
<1>3. CASE ReuseStaged(w)
  <2> DEFINE h == [worker[w] EXCEPT !.pc = "render", !.request = staged[worker[w].job]]
  <2>1. Becomes(w, h) /\ h.pc = "render" /\ h.job = worker[w].job /\ h.n = worker[w].n
    BY <1>0, <1>3 DEF ReuseStaged, Handling
  <2>2. UNCHANGED recorded /\ worker[w].pc = "source"
    BY <1>3 DEF ReuseStaged, recorded, rows, paid
  <2> HIDE DEF h
  <2> QED BY <2>1, <2>2, GoesOn DEF Claimed
<1>4. CASE Stage(w)
  <2> DEFINE h == [worker[w] EXCEPT !.pc = "render"]
  <2>1. Becomes(w, h) /\ h.pc = "render" /\ h.job = worker[w].job /\ h.n = worker[w].n
    BY <1>0, <1>4 DEF Stage, Handling
  <2>2. UNCHANGED recorded /\ worker[w].pc = "stage"
    BY <1>4 DEF Stage, recorded, rows
  <2> HIDE DEF h
  <2> QED BY <2>1, <2>2, GoesOn DEF Claimed
<1> QED BY <1>1, <1>2, <1>3, <1>4
    DEF ExecuteNext, SourceFails, SkipProvider, FindNothingStaged, ProviderRefuses, StageFails,
        Render

(* The provider is paid once more, by an attempt that had not paid.        *)
LEMMA PayKeeps ==
  ASSUME TypeInv, OutcomeInv, NEW w \in Workers, PayProvider(w)
  PROVE  OutcomeInv'
<1> DEFINE j == worker[w].job
<1>1. /\ j \in Jobs /\ worker[w].pc = "pay" /\ charges[j] < worker[w].n
      /\ worker[w].n = job[j].attempts /\ charges[j] \in Nat /\ job[j].attempts \in Nat
  <2>1. worker[w].pc = "pay" /\ j \in Jobs /\ job[j] \in JobRow /\ charges[j] \in 0..MaxCharges
    BY DEF PayProvider, TypeInv, TypeOK, WellFormed, GoodHandling
  <2>2. worker[w].n = job[j].attempts /\ charges[j] < worker[w].n
    BY <2>1 DEF OutcomeInv, Unpaid, Owned, Claimed
  <2> QED BY <2>1, <2>2, ConstantsAssumption DEF JobRow
<1>2. PICK h : /\ Becomes(w, h) /\ h.pc \in {"stage", "finish"}
               /\ h.job = j /\ h.n = worker[w].n
  <2>0. worker[w] \in Handling
    BY DEF TypeInv, TypeOK
  <2>1. ASSUME NEW request, Becomes(w, [worker[w] EXCEPT !.pc = "stage", !.request = request])
        PROVE  \E h : /\ Becomes(w, h) /\ h.pc \in {"stage", "finish"}
                     /\ h.job = j /\ h.n = worker[w].n
    <3> DEFINE h == [worker[w] EXCEPT !.pc = "stage", !.request = request]
    <3>1. h.pc = "stage" /\ h.job = j /\ h.n = worker[w].n /\ Becomes(w, h)
      BY <2>0, <2>1 DEF Handling
    <3> HIDE DEF h, j
    <3> QED BY <3>1
  <2>2. ASSUME NEW outcome, NEW request, Result(w, outcome, request)
        PROVE  \E h : /\ Becomes(w, h) /\ h.pc \in {"stage", "finish"}
                     /\ h.job = j /\ h.n = worker[w].n
    <3> DEFINE h == [worker[w] EXCEPT !.pc = "finish", !.outcome = outcome,
                                      !.request = request]
    <3>1. h.pc = "finish" /\ h.job = j /\ h.n = worker[w].n /\ Becomes(w, h)
      BY <2>0, <2>2 DEF Handling, Result
    <3> HIDE DEF h, j
    <3> QED BY <3>1
  <2> QED BY <2>1, <2>2 DEF PayProvider
<1>3. /\ worker'[w] = h /\ \A v \in Workers \ {w} : worker'[v] = worker[v]
  BY <1>2 DEF Becomes, TypeInv, TypeOK
<1>4. /\ charges'[j] = charges[j] + 1
      /\ \A k \in Jobs : k # j => charges'[k] = charges[k]
      /\ UNCHANGED <<job, attempt, asset, usage, vehicle>>
  BY <1>1 DEF PayProvider, TypeInv, TypeOK, rows
<1>5. \A v \in Workers : v # w /\ worker[v].pc \in Claimed => worker[v].job # j
  BY <1>1, OwnerIsOne DEF Claimed
<1> HIDE DEF j
<1>6. Owned' /\ ReadBefore' /\ Spent'
  <2>1. Owned'
    BY <1>1, <1>2, <1>3, <1>4 DEF OutcomeInv, Owned, Claimed, j
  <2>2. ReadBefore'
    BY <1>2, <1>3, <1>4 DEF OutcomeInv, ReadBefore
  <2>3. Spent'
    BY <1>2, <1>3, <1>4 DEF OutcomeInv, Spent
  <2> QED BY <2>1, <2>2, <2>3
<1>7. Unpaid'
  <2>1. \A v \in Workers : worker[v].pc \in Claimed => worker[v].job \in Jobs
    BY DEF TypeInv, WellFormed, GoodHandling, Claimed
  <2> QED BY <1>2, <1>3, <1>4, <1>5, <2>1 DEF OutcomeInv, Unpaid, Claimed
<1>8. ChargesWithinAttempts'
  <2>1. charges'[j] <= job'[j].attempts
    BY <1>1, <1>4
  <2> QED BY <1>4, <2>1 DEF OutcomeInv, ChargesWithinAttempts
<1>9. Delivered' /\ AttemptHistory' /\ VehicleFollowsJobs'
  BY <1>4 DEF OutcomeInv, Delivered, Completed, AttemptHistory, VehicleFollowsJobs
<1> QED BY <1>6, <1>7, <1>8, <1>9 DEF OutcomeInv

(* Steps of the outbox and of the clock, which leave handlings alone.      *)
LEMMA RowsMove ==
  ASSUME TypeInv, OutcomeInv, UNCHANGED <<attempt, asset, usage, vehicle, worker, charges>>,
         \A j \in Jobs :
           \/ job'[j] = job[j]
           \/ /\ job[j].status \in Waiting /\ job'[j].status = "QUEUED"
              /\ job'[j].attempts = job[j].attempts
           \/ /\ job[j].status = "PROCESSING" /\ job'[j].status = "PROCESSING" /\ ~Alive(j)
              /\ job'[j].attempts = job[j].attempts /\ job'[j].lease = "expired"
  PROVE  OutcomeInv'
<1>1. \A w \in Workers : worker[w].pc \notin {"idle", "ack"} => worker[w].job \in Jobs
  BY DEF TypeInv, WellFormed, GoodHandling
<1>2. \A w \in Workers : worker[w].pc \in Claimed =>
        worker[w].job \in Jobs /\ job'[worker[w].job] = job[worker[w].job]
  BY <1>1 DEF OutcomeInv, Owned, Claimed, Alive, Waiting
<1>3. \A j \in Jobs : /\ job'[j].attempts = job[j].attempts
                      /\ \/ job'[j].status = job[j].status
                         \/ job[j].status \in Waiting /\ job'[j].status = "QUEUED"
  OBVIOUS
<1>4. Owned' /\ Unpaid'
  BY <1>2 DEF OutcomeInv, Owned, Unpaid
<1>5. ReadBefore'
  BY <1>1, <1>3 DEF OutcomeInv, ReadBefore
<1>6. Spent'
  BY <1>1 DEF OutcomeInv, Spent, Expired, Waiting
<1>7. Delivered' /\ ChargesWithinAttempts'
  BY <1>3 DEF OutcomeInv, Delivered, Completed, ChargesWithinAttempts, Waiting
<1>8. AttemptHistory'
  BY <1>3 DEF OutcomeInv, AttemptHistory, Waiting
<1>9. VehicleFollowsJobs'
  <2>1. \A j \in Jobs : /\ job'[j].status \in Active <=> job[j].status \in Active
                        /\ job'[j].status = "FAILED" <=> job[j].status = "FAILED"
    BY <1>3 DEF Active, Waiting
  <2> QED BY <2>1 DEF OutcomeInv, VehicleFollowsJobs
<1> QED BY <1>4, <1>5, <1>6, <1>7, <1>8, <1>9 DEF OutcomeInv

(* The claiming update: the attempt it opens is the next one.              *)
LEMMA ClaimKeeps ==
  ASSUME TypeInv, OutcomeInv, NEW w \in Workers, Claim(w)
  PROVE  OutcomeInv'
<1> DEFINE j == worker[w].job
           n == worker[w].n
<1>1. /\ j \in Jobs /\ job[j] \in JobRow /\ n \in 0..MaxAttempts
      /\ job[j].attempts \in Nat /\ MaxAttempts \in Nat /\ MaxAttempts >= 1
      /\ attempt[j] \in [1..MaxAttempts -> AttemptRow]
  <2>1. j \in Jobs /\ worker[w] \in Handling
    BY DEF Claim, TypeInv, TypeOK, WellFormed, GoodHandling
  <2>2. job[j] \in JobRow /\ attempt[j] \in [1..MaxAttempts -> AttemptRow]
    BY <2>1 DEF TypeInv, TypeOK
  <2> QED BY <2>1, <2>2, ConstantsAssumption DEF Handling, JobRow
<1>2. /\ worker[w].pc = "claim" /\ n <= job[j].attempts /\ job[j].attempts < MaxAttempts
      /\ n + 1 <= MaxAttempts /\ attempt[j][n + 1].status = "NONE"
  BY DEF Claim, OutcomeInv, ReadBefore
<1>3. n = job[j].attempts
  <2>1. n + 1 \in 1..MaxAttempts
    BY <1>1, <1>2
  <2>2. n + 1 > job[j].attempts
    BY <1>1, <1>2, <2>1 DEF OutcomeInv, AttemptHistory
  <2> QED BY <1>1, <1>2, <2>2
<1>4. /\ job'[j].status = "PROCESSING" /\ job'[j].worker = w /\ job'[j].lease = "held"
      /\ job'[j].attempts = n + 1
      /\ \A k \in Jobs : k # j => job'[k] = job[k]
  BY <1>1, <1>3 DEF Claim, TypeInv, TypeOK
<1>5. /\ worker'[w].pc = "source" /\ worker'[w].job = j /\ worker'[w].n = n + 1
      /\ \A v \in Workers \ {w} : worker'[v] = worker[v]
  BY DEF Claim, Becomes, TypeInv, TypeOK, Handling
<1>6. /\ job[j].status \in {"QUEUED", "PROCESSING"}
      /\ job[j].status = "PROCESSING" => job[j].lease = "expired" /\ worker[w].seen = "EXPIRED"
  BY DEF Claim, StillClaimable, Expired
<1>7. \A v \in Workers : worker[v].pc \in Claimed => worker[v].job # j
  BY <1>6 DEF OutcomeInv, Owned
<1>8. UNCHANGED <<asset, usage, vehicle, charges>>
  BY DEF Claim, paid
<1>9. /\ attempt'[j][n + 1].status = "STARTED"
      /\ \A m \in 1..MaxAttempts : m # n + 1 =>
           attempt'[j][m].status = IF m = n /\ attempt[j][n].status = "STARTED"
                                     /\ worker[w].seen = "EXPIRED"
                                   THEN "FAILED" ELSE attempt[j][m].status
      /\ \A k \in Jobs : k # j => attempt'[k] = attempt[k]
  <2> DEFINE closed == IF worker[w].seen = "EXPIRED" THEN CloseAttempt(attempt[j], n)
                       ELSE attempt[j]
  <2>1. /\ closed \in [1..MaxAttempts -> AttemptRow]
        /\ \A m \in 1..MaxAttempts :
             closed[m].status = IF m = n /\ attempt[j][n].status = "STARTED"
                                     /\ worker[w].seen = "EXPIRED"
                                THEN "FAILED" ELSE attempt[j][m].status
    BY <1>1 DEF CloseAttempt, AttemptRow
  <2>2. attempt' = [attempt EXCEPT ![j] =
                     [closed EXCEPT ![n + 1] = [status |-> "STARTED", request |-> 0]]]
    BY DEF Claim
  <2>3. n + 1 \in 1..MaxAttempts
    BY <1>1, <1>2
  <2> HIDE DEF closed, j, n
  <2> QED BY <1>1, <2>1, <2>2, <2>3 DEF TypeInv, TypeOK
<1>10. \A v \in Workers : worker[v].pc \notin {"idle", "ack"} => worker[v].job \in Jobs
  BY DEF TypeInv, WellFormed, GoodHandling
<1> HIDE DEF j, n
<1>11. Owned'
  BY <1>4, <1>5, <1>7, <1>10 DEF OutcomeInv, Owned, Claimed
<1>12. ReadBefore'
  <2> SUFFICES ASSUME NEW v \in Workers, worker'[v].pc = "claim"
               PROVE  worker'[v].n <= job'[worker'[v].job].attempts
    BY DEF ReadBefore
  <2>1. v # w /\ worker'[v] = worker[v] /\ worker[v].n <= job[worker[v].job].attempts
    BY <1>5 DEF OutcomeInv, ReadBefore
  <2>2. worker[v] \in Handling /\ worker[v].job \in Jobs
    BY <1>10, <2>1 DEF TypeInv, TypeOK
  <2>3. CASE worker[v].job = j
    BY <1>1, <1>3, <1>4, <2>1, <2>2, <2>3 DEF Handling
  <2>4. CASE worker[v].job # j
    BY <1>4, <2>1, <2>2, <2>4
  <2> QED BY <2>3, <2>4
<1>13. Spent'
  <2> SUFFICES ASSUME NEW v \in Workers, worker'[v].pc = "exhaust"
               PROVE  LET row == job'[worker'[v].job] IN
                      /\ worker'[v].n = MaxAttempts /\ row.attempts = MaxAttempts
                      /\ Expired(row) \/ row.status = "FAILED"
    BY DEF Spent, Expired
  <2>1. v # w /\ worker'[v] = worker[v] /\ worker[v].job \in Jobs
    BY <1>5, <1>10
  <2>2. worker[v].job # j
    BY <1>1, <1>2, <2>1 DEF OutcomeInv, Spent
  <2> QED BY <1>4, <2>1, <2>2 DEF OutcomeInv, Spent
<1>14. Delivered'
  BY <1>4, <1>6, <1>8 DEF OutcomeInv, Delivered, Completed
<1>15. charges[j] < n + 1 /\ charges[j] \in Nat
  BY <1>1, <1>3, ConstantsAssumption DEF OutcomeInv, ChargesWithinAttempts, TypeInv, TypeOK
<1>16. Unpaid' /\ ChargesWithinAttempts'
  <2>1. Unpaid'
    BY <1>5, <1>8, <1>15 DEF OutcomeInv, Unpaid
  <2>2. charges'[j] <= job'[j].attempts
    BY <1>1, <1>4, <1>8, <1>15
  <2>3. ChargesWithinAttempts'
    BY <1>4, <1>8, <2>2 DEF OutcomeInv, ChargesWithinAttempts
  <2> QED BY <2>1, <2>3
<1>17. AttemptHistory'
  <2> SUFFICES ASSUME NEW k \in Jobs, NEW m \in 1..MaxAttempts
               PROVE  /\ (attempt'[k][m].status = "NONE") <=> (m > job'[k].attempts)
                      /\ (attempt'[k][m].status = "STARTED")
                           <=> (job'[k].status = "PROCESSING" /\ m = job'[k].attempts)
                      /\ (attempt'[k][m].status = "SUCCEEDED")
                           <=> (job'[k].status = "COMPLETED" /\ m = job'[k].attempts)
    BY DEF AttemptHistory
  <2>1. CASE k # j
    BY <1>4, <1>9, <2>1 DEF OutcomeInv, AttemptHistory
  <2>2. CASE k = j /\ m = n + 1
    BY <1>1, <1>4, <1>9, <2>2
  <2>3. CASE k = j /\ m # n + 1
    <3>1. /\ (attempt[j][m].status = "NONE") <=> (m > n)
          /\ (attempt[j][m].status = "STARTED") => job[j].status = "PROCESSING" /\ m = n
          /\ attempt[j][m].status # "SUCCEEDED"
      BY <1>1, <1>3, <1>6 DEF OutcomeInv, AttemptHistory
    <3> QED BY <1>1, <1>4, <1>6, <1>9, <2>3, <3>1
  <2> QED BY <2>1, <2>2, <2>3
<1>18. VehicleFollowsJobs'
  <2>1. \A k \in Jobs : /\ job'[k].status \in Active <=> job[k].status \in Active
                        /\ job'[k].status = "FAILED" <=> job[k].status = "FAILED"
    BY <1>4, <1>6 DEF Active, Waiting
  <2> QED BY <1>8, <2>1 DEF OutcomeInv, VehicleFollowsJobs
<1> QED BY <1>11, <1>12, <1>13, <1>14, <1>16, <1>17, <1>18 DEF OutcomeInv

(* The vehicle is settled by the last active job, or left as it is.        *)
LEMMA VehicleKeeps ==
  ASSUME OutcomeInv, vehicle' = VehicleAfter(job'),
         \/ \E j \in Jobs : job[j].status \in Active
         \/ \A j \in Jobs : job'[j].status = job[j].status
  PROVE  VehicleFollowsJobs'
BY DEF OutcomeInv, VehicleFollowsJobs, VehicleAfter

(* The transaction of completeJob or failJob: the handling owns the row, so *)
(* what it writes by id hits the attempt that is open.                     *)
LEMMA SettleKeeps ==
  ASSUME TypeInv, OutcomeInv, NEW w \in Workers,
         worker[w].pc \in {"complete", "fail"},
         NEW status \in {"COMPLETED", "FAILED", "RETRYING"},
         job' = [job EXCEPT ![worker[w].job] = Unclaimed(@, status)],
         attempt' = FinishAttempt(w, IF status = "COMPLETED" THEN "SUCCEEDED" ELSE "FAILED"),
         asset' = IF status = "COMPLETED" THEN asset \cup {worker[w].job} ELSE asset,
         usage' = IF status = "COMPLETED" THEN usage \cup {worker[w].job} ELSE usage,
         vehicle' = IF status = "RETRYING" THEN vehicle ELSE VehicleAfter(job'),
         Done(w), UNCHANGED charges
  PROVE  OutcomeInv'
<1> DEFINE j == worker[w].job
           n == worker[w].n
           closed == IF status = "COMPLETED" THEN "SUCCEEDED" ELSE "FAILED"
<1>1. /\ j \in Jobs /\ job[j] \in JobRow /\ worker[w].pc \in Claimed /\ n \in 1..MaxAttempts
      /\ attempt[j] \in [1..MaxAttempts -> AttemptRow]
      /\ worker[w].pc \notin {"claim", "exhaust"}
  BY DEF TypeInv, TypeOK, WellFormed, GoodHandling, Claimed
<1>2. /\ job[j].status = "PROCESSING" /\ job[j].lease = "held" /\ job[j].attempts = n
      /\ attempt[j][n].status = "STARTED"
  BY <1>1 DEF OutcomeInv, Owned, AttemptHistory
<1>3. /\ job'[j].status = status /\ job'[j].attempts = n
      /\ \A k \in Jobs : k # j => job'[k] = job[k]
  BY <1>1, <1>2 DEF TypeInv, TypeOK, Unclaimed, JobRow
<1>4. /\ attempt'[j][n].status = closed
      /\ \A m \in 1..MaxAttempts : m # n => attempt'[j][m] = attempt[j][m]
      /\ \A k \in Jobs : k # j => attempt'[k] = attempt[k]
  BY <1>1, <1>2 DEF FinishAttempt, TypeInv, TypeOK
<1>5. /\ worker'[w].pc = "ack"
      /\ \A v \in Workers \ {w} : worker'[v] = worker[v]
  BY DEF Done, Becomes, Handle, TypeInv, TypeOK
<1>6. \A v \in Workers : v # w /\ worker[v].pc \in Claimed => worker[v].job # j
  BY <1>1, OwnerIsOne
<1>7. \A v \in Workers : worker[v].pc \notin {"idle", "ack"} => worker[v].job \in Jobs
  BY DEF TypeInv, WellFormed, GoodHandling
<1>8. \A k \in Jobs : job'[k].attempts = job[k].attempts
  BY <1>2, <1>3
<1> HIDE DEF j, n, closed
<1>9. Owned'
  BY <1>3, <1>5, <1>6, <1>7 DEF OutcomeInv, Owned, Claimed
<1>10. ReadBefore'
  BY <1>5, <1>7, <1>8 DEF OutcomeInv, ReadBefore
<1>11. Spent'
  <2> SUFFICES ASSUME NEW v \in Workers, worker'[v].pc = "exhaust"
               PROVE  LET row == job'[worker'[v].job] IN
                      /\ worker'[v].n = MaxAttempts /\ row.attempts = MaxAttempts
                      /\ Expired(row) \/ row.status = "FAILED"
    BY DEF Spent, Expired
  <2>1. v # w /\ worker'[v] = worker[v] /\ worker[v].job \in Jobs
    BY <1>5, <1>7
  <2>2. worker[v].job # j
    BY <1>2, <2>1 DEF OutcomeInv, Spent, Expired
  <2> QED BY <1>3, <2>1, <2>2 DEF OutcomeInv, Spent
<1>12. Delivered'
  BY <1>1, <1>2, <1>3 DEF OutcomeInv, Delivered, Completed, j
<1>13. Unpaid' /\ ChargesWithinAttempts'
  BY <1>5, <1>8 DEF OutcomeInv, Unpaid, ChargesWithinAttempts
<1>14. AttemptHistory'
  <2> SUFFICES ASSUME NEW k \in Jobs, NEW m \in 1..MaxAttempts
               PROVE  /\ (attempt'[k][m].status = "NONE") <=> (m > job'[k].attempts)
                      /\ (attempt'[k][m].status = "STARTED")
                           <=> (job'[k].status = "PROCESSING" /\ m = job'[k].attempts)
                      /\ (attempt'[k][m].status = "SUCCEEDED")
                           <=> (job'[k].status = "COMPLETED" /\ m = job'[k].attempts)
    BY DEF AttemptHistory
  <2>1. CASE k # j
    BY <1>3, <1>4, <2>1 DEF OutcomeInv, AttemptHistory
  <2>2. CASE k = j /\ m = n
    BY <1>1, <1>3, <1>4, <2>2 DEF closed
  <2>3. CASE k = j /\ m # n
    <3>1. /\ (attempt[j][m].status = "NONE") <=> (m > n)
          /\ attempt[j][m].status \notin {"STARTED", "SUCCEEDED"}
      BY <1>1, <1>2, <2>3 DEF OutcomeInv, AttemptHistory
    <3> QED BY <1>1, <1>3, <1>4, <2>3, <3>1
  <2> QED BY <2>1, <2>2, <2>3
<1>15. VehicleFollowsJobs'
  <2>1. j \in Jobs /\ job[j].status \in Active
    BY <1>1, <1>2 DEF Active
  <2>2. CASE status = "RETRYING"
    <3>1. job'[j].status \in Active
      BY <1>3, <2>2 DEF Active, Waiting
    <3> QED BY <2>1, <2>2, <3>1 DEF OutcomeInv, VehicleFollowsJobs
  <2>3. CASE status # "RETRYING"
    BY <2>1, <2>3, VehicleKeeps
  <2> QED BY <2>2, <2>3
<1> QED BY <1>9, <1>10, <1>11, <1>12, <1>13, <1>14, <1>15 DEF OutcomeInv

(* Attempts exhausted: the write by id hits the expired row that was read,  *)
(* or one that failed already and whose attempts are all closed.           *)
LEMMA ExhaustKeeps ==
  ASSUME TypeInv, OutcomeInv, NEW w \in Workers, FailExhausted(w)
  PROVE  OutcomeInv'
<1> DEFINE j == worker[w].job
<1>1. /\ j \in Jobs /\ job[j] \in JobRow /\ worker[w].pc = "exhaust"
      /\ attempt[j] \in [1..MaxAttempts -> AttemptRow]
      /\ MaxAttempts \in 1..MaxAttempts
  <2>1. MaxAttempts \in 1..MaxAttempts
    BY ConstantsAssumption
  <2>2. worker[w].pc = "exhaust" /\ j \in Jobs
    BY DEF FailExhausted, TypeInv, WellFormed, GoodHandling
  <2> QED BY <2>1, <2>2 DEF TypeInv, TypeOK
<1>2. /\ worker[w].n = MaxAttempts /\ job[j].attempts = MaxAttempts
      /\ Expired(job[j]) \/ job[j].status = "FAILED"
  BY <1>1 DEF OutcomeInv, Spent
<1>3. /\ job'[j].status = "FAILED" /\ job'[j].attempts = MaxAttempts
      /\ \A k \in Jobs : k # j => job'[k] = job[k]
  BY <1>1, <1>2 DEF FailExhausted, TypeInv, TypeOK, Unclaimed, JobRow
<1>4. /\ attempt'[j] \in [1..MaxAttempts -> AttemptRow]
      /\ \A m \in 1..MaxAttempts :
           attempt'[j][m].status = IF m = MaxAttempts /\ attempt[j][m].status = "STARTED"
                                   THEN "FAILED" ELSE attempt[j][m].status
      /\ \A k \in Jobs : k # j => attempt'[k] = attempt[k]
  <2>1. attempt' = [attempt EXCEPT ![j] = CloseAttempt(@, MaxAttempts)]
    BY <1>2 DEF FailExhausted
  <2> DEFINE closed == CloseAttempt(attempt[j], MaxAttempts)
  <2>2. /\ closed \in [1..MaxAttempts -> AttemptRow]
        /\ \A m \in 1..MaxAttempts :
             closed[m].status = IF m = MaxAttempts /\ attempt[j][m].status = "STARTED"
                                THEN "FAILED" ELSE attempt[j][m].status
    BY <1>1 DEF CloseAttempt, AttemptRow
  <2>3. attempt' = [attempt EXCEPT ![j] = closed]
    BY <2>1
  <2> HIDE DEF closed, j
  <2> QED BY <1>1, <2>2, <2>3 DEF TypeInv, TypeOK
<1>5. /\ worker'[w].pc = "ack"
      /\ \A v \in Workers \ {w} : worker'[v] = worker[v]
  BY DEF FailExhausted, Done, Becomes, Handle, TypeInv, TypeOK
<1>6. \A v \in Workers : worker[v].pc \in Claimed => worker[v].job # j
  BY <1>2 DEF OutcomeInv, Owned, Expired
<1>7. \A v \in Workers : worker[v].pc \notin {"idle", "ack"} => worker[v].job \in Jobs
  BY DEF TypeInv, WellFormed, GoodHandling
<1>8. \A k \in Jobs : job'[k].attempts = job[k].attempts
  BY <1>2, <1>3
<1>9. vehicle' = VehicleAfter(job') /\ UNCHANGED <<asset, usage, charges>>
  BY DEF FailExhausted, paid
<1> HIDE DEF j
<1>10. Owned'
  BY <1>3, <1>5, <1>6, <1>7 DEF OutcomeInv, Owned, Claimed
<1>11. ReadBefore'
  BY <1>5, <1>7, <1>8 DEF OutcomeInv, ReadBefore
<1>12. Spent'
  BY <1>3, <1>5, <1>7 DEF OutcomeInv, Spent, Expired
<1>13. Delivered'
  BY <1>2, <1>3, <1>9 DEF OutcomeInv, Delivered, Completed, Expired
<1>14. Unpaid' /\ ChargesWithinAttempts'
  BY <1>5, <1>8, <1>9 DEF OutcomeInv, Unpaid, ChargesWithinAttempts
<1>15. AttemptHistory'
  <2> SUFFICES ASSUME NEW k \in Jobs, NEW m \in 1..MaxAttempts
               PROVE  /\ (attempt'[k][m].status = "NONE") <=> (m > job'[k].attempts)
                      /\ (attempt'[k][m].status = "STARTED")
                           <=> (job'[k].status = "PROCESSING" /\ m = job'[k].attempts)
                      /\ (attempt'[k][m].status = "SUCCEEDED")
                           <=> (job'[k].status = "COMPLETED" /\ m = job'[k].attempts)
    BY DEF AttemptHistory
  <2>1. CASE k # j
    BY <1>3, <1>4, <2>1 DEF OutcomeInv, AttemptHistory
  <2>2. CASE k = j
    <3>1. /\ (attempt[j][m].status = "NONE") <=> (m > MaxAttempts)
          /\ (attempt[j][m].status = "STARTED") => m = MaxAttempts
          /\ attempt[j][m].status # "SUCCEEDED"
      BY <1>1, <1>2 DEF OutcomeInv, AttemptHistory, Expired
    <3> QED BY <1>1, <1>3, <1>4, <2>2, <3>1
  <2> QED BY <2>1, <2>2
<1>16. VehicleFollowsJobs'
  <2>1. \/ job[j].status \in Active
        \/ \A k \in Jobs : job'[k].status = job[k].status
    BY <1>2, <1>3 DEF Active, Expired
  <2> QED BY <1>1, <1>9, <2>1, VehicleKeeps
<1> QED BY <1>10, <1>11, <1>12, <1>13, <1>14, <1>15, <1>16 DEF OutcomeInv

(* The three transactions of FinishNext, each an instance of SettleKeeps.   *)
LEMMA CommitKeeps ==
  ASSUME TypeInv, OutcomeInv, NEW w \in Workers,
         CompleteJob(w) \/ RescheduleJob(w) \/ FailJob(w)
  PROVE  OutcomeInv'
<1>1. CASE CompleteJob(w)
  BY <1>1, SettleKeeps DEF CompleteJob, paid
<1>2. CASE RescheduleJob(w)
  BY <1>2, SettleKeeps DEF RescheduleJob, paid
<1>3. CASE FailJob(w)
  BY <1>3, SettleKeeps DEF FailJob, paid
<1> QED BY <1>1, <1>2, <1>3

(* The read of completeJob or failJob goes on with the same claim.         *)
LEMMA ReadOwnedKeeps ==
  ASSUME TypeInv, OutcomeInv, NEW w \in Workers, NEW pc \in {"complete", "fail"},
         NEW outcome, ReadOwned(w, pc, outcome)
  PROVE  OutcomeInv'
<1> DEFINE h == [worker[w] EXCEPT !.pc = pc, !.outcome = outcome]
<1>1. worker[w] \in Handling
  BY DEF TypeInv, TypeOK
<1>2. Becomes(w, h) /\ h.pc = pc /\ h.job = worker[w].job /\ h.n = worker[w].n
  BY <1>1 DEF ReadOwned, Handling
<1>3. UNCHANGED recorded /\ worker[w].pc = "finish"
  BY DEF ReadOwned, recorded, rows, paid
<1> HIDE DEF h
<1> QED BY <1>2, <1>3, GoesOn DEF Claimed

LEMMA FinishKeeps ==
  ASSUME TypeInv, OutcomeInv, NEW w \in Workers, FinishNext(w)
  PROVE  OutcomeInv'
<1>1. CASE ReadForCompletion(w) \/ ReadForRetry(w) \/ ReadForFailure(w)
  BY <1>1, ReadOwnedKeeps DEF ReadForCompletion, ReadForRetry, ReadForFailure
<1>2. CASE ReadAlreadyCompleted(w) \/ ReadClaimLost(w) \/ FinishAborts(w) \/ DeleteMessage(w)
  <2>1. UNCHANGED recorded /\ (Done(w) \/ RetryDelivery(w))
    BY <1>2 DEF ReadAlreadyCompleted, ReadClaimLost, FinishAborts, DeleteMessage, recorded,
       rows, paid
  <2> QED BY <2>1, HandlingEnds
<1>3. CASE CompleteJob(w) \/ RescheduleJob(w) \/ FailJob(w)
  BY <1>3, CommitKeeps
<1> QED BY <1>1, <1>2, <1>3 DEF FinishNext

LEMMA ClaimNextKeeps ==
  ASSUME TypeInv, OutcomeInv, NEW w \in Workers, ClaimNext(w)
  PROVE  OutcomeInv'
<1>1. CASE IgnoreTerminal(w) \/ GiveUpClaim(w) \/ ClaimRefused(w)
  <2>1. UNCHANGED recorded /\ (Done(w) \/ RetryDelivery(w))
    BY <1>1 DEF IgnoreTerminal, GiveUpClaim, ClaimRefused, recorded, rows, paid
  <2> QED BY <2>1, HandlingEnds
<1> QED BY <1>1, ReadKeeps, ClaimKeeps, ExhaustKeeps DEF ClaimNext

(* Steps that write no job and move no handling.                           *)
LEMMA StutterKeeps ==
  ASSUME OutcomeInv, UNCHANGED recorded, UNCHANGED worker
  PROVE  OutcomeInv'
<1>1. UNCHANGED <<job, attempt, asset, usage, vehicle, charges, worker>>
  BY DEF recorded
<1>2. Owned' /\ ReadBefore' /\ Unpaid'
  BY <1>1 DEF OutcomeInv, Owned, ReadBefore, Unpaid
<1>3. Spent'
  BY <1>1 DEF OutcomeInv, Spent, Expired
<1>4. Delivered' /\ AttemptHistory' /\ VehicleFollowsJobs' /\ ChargesWithinAttempts'
  BY <1>1 DEF OutcomeInv, Delivered, Completed, AttemptHistory, VehicleFollowsJobs,
     ChargesWithinAttempts
<1> QED BY <1>2, <1>3, <1>4 DEF OutcomeInv

(* A message is received.                                                  *)
LEMMA ReceiveKeeps ==
  ASSUME TypeInv, OutcomeInv, NEW w \in Workers, NEW m \in Messages, Receive(w, m)
  PROVE  OutcomeInv'
<1> DEFINE h == Handle("received", m, queue[m].job)
<1>1. Becomes(w, h) /\ h.pc = "received" /\ UNCHANGED recorded
  BY DEF Receive, Handle, recorded, rows, paid
<1> HIDE DEF h
<1> QED BY <1>1, HandlingMoves DEF Claimed

(* markPublishedBatch queues jobs that wait.                               *)
LEMMA MarkKeeps ==
  ASSUME TypeInv, OutcomeInv, NEW d \in Dispatchers, MarkPublished(d)
  PROVE  OutcomeInv'
<1> SUFFICES ASSUME NEW j \in Jobs
             PROVE  \/ job'[j] = job[j]
                    \/ /\ job[j].status \in Waiting /\ job'[j].status = "QUEUED"
                       /\ job'[j].attempts = job[j].attempts
  BY RowsMove DEF MarkPublished, sqs, paid
<1>1. job[j] \in JobRow
  BY DEF TypeInv, TypeOK
<1>2. job'[j] = IF j \in Acknowledged(d) THEN [job[j] EXCEPT !.status = "QUEUED"] ELSE job[j]
  BY DEF MarkPublished
<1> QED BY <1>1, <1>2 DEF Acknowledged, JobRow

(* A lease that expires belongs to no handling.                            *)
LEMMA LeaseKeeps ==
  ASSUME ~SlowHandling, TypeInv, OutcomeInv, NEW k \in Jobs, LeaseExpires(k)
  PROVE  OutcomeInv'
<1> SUFFICES ASSUME NEW j \in Jobs
             PROVE  \/ job'[j] = job[j]
                    \/ /\ job[j].status = "PROCESSING" /\ job'[j].status = "PROCESSING"
                       /\ ~Alive(j)
                       /\ job'[j].attempts = job[j].attempts /\ job'[j].lease = "expired"
  BY RowsMove DEF LeaseExpires, paid
<1>1. job[j] \in JobRow /\ job \in [Jobs -> JobRow]
  BY DEF TypeInv, TypeOK
<1>2. CASE j = k
  BY <1>1, <1>2 DEF LeaseExpires, JobRow
<1>3. CASE j # k
  BY <1>1, <1>3 DEF LeaseExpires
<1> QED BY <1>2, <1>3

LEMMA OutcomeInvStep ==
  ASSUME ~SlowHandling, TypeInv, OutcomeInv, [Next]_vars
  PROVE  OutcomeInv'
<1>1. ASSUME NEW d \in Dispatchers, DispatcherNext(d) \/ CrashDispatcher(d), ~MarkPublished(d)
      PROVE  OutcomeInv'
  <2>1. UNCHANGED recorded /\ UNCHANGED worker
    BY <1>1 DEF DispatcherNext, CrashDispatcher, ClaimOutbox, MarkUnavailable, PublishAccepted,
       PublishUncertain, PublishRefused, Release, recorded, rows, paid
  <2> QED BY <2>1, StutterKeeps
<1>2. ASSUME NEW j \in Jobs, OutboxLeaseExpires(j) \/ Redrive(j)
      PROVE  OutcomeInv'
  <2>1. UNCHANGED recorded /\ UNCHANGED worker
    BY <1>2 DEF OutboxLeaseExpires, Redrive, recorded, rows, paid
  <2> QED BY <2>1, StutterKeeps
<1>3. ASSUME NEW m \in Messages, VisibilityTimeout(m)
      PROVE  OutcomeInv'
  <2>1. UNCHANGED recorded /\ UNCHANGED worker
    BY <1>3 DEF VisibilityTimeout, recorded, rows, paid
  <2> QED BY <2>1, StutterKeeps
<1>4. ASSUME NEW w \in Workers, WorkerNext(w)
      PROVE  OutcomeInv'
  BY <1>4, ClaimNextKeeps, ExecuteKeeps, PayKeeps, FinishKeeps DEF WorkerNext
<1>5. ASSUME NEW w \in Workers, CrashWorker(w)
      PROVE  OutcomeInv'
  <2>1. UNCHANGED recorded /\ RetryDelivery(w)
    BY <1>5 DEF CrashWorker, recorded, rows, paid
  <2> QED BY <2>1, HandlingEnds
<1>6. ASSUME UNCHANGED vars
      PROVE  OutcomeInv'
  BY <1>6, StutterKeeps DEF vars, recorded
<1> QED BY <1>1, <1>2, <1>3, <1>4, <1>5, <1>6, MarkKeeps, LeaseKeeps, ReceiveKeeps DEF Next
-----------------------------------------------------------------------------
(* Without SlowHandling, every reachable state of the pipeline satisfies   *)
(* OutcomeInv.                                                             *)
THEOREM OutcomeInvariance == ASSUME ~SlowHandling PROVE Spec => []OutcomeInv
<1>1. TypeInv /\ OutcomeInv /\ [Next]_vars => OutcomeInv'
  BY OutcomeInvStep
<1> QED BY <1>1, OutcomeInvInit, TypeInvariance, PTL DEF Spec

(* A job is executed by one handling at a time (claimJob's update), for any *)
(* number of jobs, handlings, dispatchers and messages.                    *)
THEOREM ClaimsExclude == ASSUME ~SlowHandling PROVE Spec => []ExclusiveClaim
<1>1. OutcomeInv => ExclusiveClaim
  BY OwnerIsOne DEF ExclusiveClaim
<1> QED BY <1>1, OutcomeInvariance, PTL

(* The attempt rows tell the job's history, whatever crashes or repeats.   *)
THEOREM AttemptsTell == ASSUME ~SlowHandling PROVE Spec => []AttemptHistory
<1>1. OutcomeInv => AttemptHistory
  BY DEF OutcomeInv
<1> QED BY <1>1, OutcomeInvariance, PTL

(* The vehicle follows its jobs through every commit (updateVehicleStatus). *)
THEOREM VehicleFollows == ASSUME ~SlowHandling PROVE Spec => []VehicleFollowsJobs
<1>1. OutcomeInv => VehicleFollowsJobs
  BY DEF OutcomeInv
<1> QED BY <1>1, OutcomeInvariance, PTL

(* The budget of attempts bounds what the provider is paid for a job.      *)
THEOREM ChargesBounded == ASSUME ~SlowHandling PROVE Spec => []ChargesWithinAttempts
<1>1. OutcomeInv => ChargesWithinAttempts
  BY DEF OutcomeInv
<1> QED BY <1>1, OutcomeInvariance, PTL
-----------------------------------------------------------------------------
(* What a step does to the outcomes: nothing, or it settles one active job  *)
(* and bills it exactly if it delivers it.                                 *)
Unsettled ==
  /\ UNCHANGED usage
  /\ \A j \in Jobs : \/ job'[j].status = job[j].status
                     \/ job[j].status \in Active /\ job'[j].status \in Active

Settled(j) ==
  /\ job[j].status \in Active
  /\ \A k \in Jobs : k # j => job'[k].status = job[k].status
  /\ \/ job'[j].status = "COMPLETED" /\ usage' = usage \cup {j}
     \/ job'[j].status = "FAILED" /\ UNCHANGED usage

LEMMA WritesSettle ==
  ASSUME TypeInv, OutcomeInv, NEW w \in Workers,
         Claim(w) \/ FailExhausted(w) \/ CompleteJob(w) \/ RescheduleJob(w) \/ FailJob(w)
  PROVE  Unsettled \/ \E j \in Jobs : Settled(j)
<1> DEFINE j == worker[w].job
<1>1. j \in Jobs /\ job[j] \in JobRow /\ job \in [Jobs -> JobRow]
  <2>1. worker[w].pc \notin {"idle", "ack"}
    BY DEF Claim, FailExhausted, CompleteJob, RescheduleJob, FailJob
  <2> QED BY <2>1 DEF TypeInv, TypeOK, WellFormed, GoodHandling
<1>2. CASE Claim(w)
  <2>1. job[j].status \in {"QUEUED", "PROCESSING"}
    BY <1>2 DEF Claim, StillClaimable, Expired
  <2>2. /\ job'[j].status = "PROCESSING" /\ UNCHANGED usage
        /\ \A k \in Jobs : k # j => job'[k] = job[k]
    BY <1>1, <1>2 DEF Claim
  <2> HIDE DEF j
  <2> QED BY <1>1, <2>1, <2>2 DEF Unsettled, Active
<1>3. ASSUME NEW status \in {"COMPLETED", "FAILED", "RETRYING"},
             job' = [job EXCEPT ![j] = Unclaimed(@, status)]
      PROVE  job'[j].status = status /\ \A k \in Jobs : k # j => job'[k] = job[k]
  BY <1>1, <1>3 DEF Unclaimed, JobRow
<1>4. CASE FailExhausted(w)
  <2>1. job[j].status \in {"PROCESSING", "FAILED"}
    BY <1>4 DEF FailExhausted, OutcomeInv, Spent, Expired
  <2>2. job' = [job EXCEPT ![j] = Unclaimed(@, "FAILED")] /\ UNCHANGED usage
    BY <1>4 DEF FailExhausted
  <2>3. job'[j].status = "FAILED" /\ \A k \in Jobs : k # j => job'[k] = job[k]
    BY <1>3, <2>2
  <2> HIDE DEF j
  <2> QED BY <1>1, <2>1, <2>2, <2>3 DEF Unsettled, Settled, Active
<1>5. CASE CompleteJob(w) \/ RescheduleJob(w) \/ FailJob(w)
  <2>1. job[j].status = "PROCESSING"
    BY <1>5 DEF CompleteJob, RescheduleJob, FailJob, OutcomeInv, Owned, Claimed
  <2>2. CASE CompleteJob(w)
    <3>1. job' = [job EXCEPT ![j] = Unclaimed(@, "COMPLETED")] /\ usage' = usage \cup {j}
      BY <2>2 DEF CompleteJob
    <3>2. job'[j].status = "COMPLETED" /\ \A k \in Jobs : k # j => job'[k] = job[k]
      BY <1>3, <3>1
    <3> HIDE DEF j
    <3> QED BY <1>1, <2>1, <3>1, <3>2 DEF Settled, Active
  <2>3. CASE RescheduleJob(w)
    <3>1. job' = [job EXCEPT ![j] = Unclaimed(@, "RETRYING")] /\ UNCHANGED usage
      BY <2>3 DEF RescheduleJob
    <3>2. job'[j].status = "RETRYING" /\ \A k \in Jobs : k # j => job'[k] = job[k]
      BY <1>3, <3>1
    <3> HIDE DEF j
    <3> QED BY <1>1, <2>1, <3>1, <3>2 DEF Unsettled, Active, Waiting
  <2>4. CASE FailJob(w)
    <3>1. job' = [job EXCEPT ![j] = Unclaimed(@, "FAILED")] /\ UNCHANGED usage
      BY <2>4 DEF FailJob
    <3>2. job'[j].status = "FAILED" /\ \A k \in Jobs : k # j => job'[k] = job[k]
      BY <1>3, <3>1
    <3> HIDE DEF j
    <3> QED BY <1>1, <2>1, <3>1, <3>2 DEF Settled, Active
  <2> QED BY <1>5, <2>2, <2>3, <2>4
<1> QED BY <1>2, <1>4, <1>5

LEMMA StepSettles ==
  ASSUME TypeInv, OutcomeInv, [Next]_vars
  PROVE  Unsettled \/ \E j \in Jobs : Settled(j)
<1>1. (UNCHANGED recorded) => Unsettled
  BY DEF recorded, Unsettled
<1>2. ASSUME NEW d \in Dispatchers, DispatcherNext(d) \/ CrashDispatcher(d)
      PROVE  Unsettled
  <2>1. CASE MarkPublished(d)
    <3> SUFFICES ASSUME NEW j \in Jobs
                 PROVE  \/ job'[j].status = job[j].status
                        \/ job[j].status \in Active /\ job'[j].status \in Active
      BY <2>1 DEF MarkPublished, Unsettled
    <3>1. job[j] \in JobRow
      BY DEF TypeInv, TypeOK
    <3>2. job'[j] = IF j \in Acknowledged(d) THEN [job[j] EXCEPT !.status = "QUEUED"]
                    ELSE job[j]
      BY <2>1 DEF MarkPublished
    <3> QED BY <3>1, <3>2 DEF Acknowledged, JobRow, Active
  <2>2. CASE ~MarkPublished(d)
    <3>1. UNCHANGED recorded
      BY <1>2, <2>2 DEF DispatcherNext, CrashDispatcher, ClaimOutbox, MarkUnavailable,
         PublishAccepted, PublishUncertain, PublishRefused, Release, recorded, rows, paid
    <3> QED BY <1>1, <3>1
  <2> QED BY <2>1, <2>2
<1>3. ASSUME NEW j \in Jobs, OutboxLeaseExpires(j) \/ Redrive(j)
      PROVE  Unsettled
  BY <1>1, <1>3 DEF OutboxLeaseExpires, Redrive, recorded, rows, paid
<1>4. ASSUME NEW k \in Jobs, LeaseExpires(k)
      PROVE  Unsettled
  <2>1. job \in [Jobs -> JobRow]
    BY DEF TypeInv, TypeOK
  <2>2. \A j \in Jobs : job'[j].status = job[j].status
    BY <1>4, <2>1 DEF LeaseExpires, JobRow
  <2> QED BY <1>4, <2>2 DEF LeaseExpires, Unsettled
<1>5. ASSUME NEW m \in Messages, NEW w \in Workers, VisibilityTimeout(m) \/ Receive(w, m)
      PROVE  Unsettled
  BY <1>1, <1>5 DEF VisibilityTimeout, Receive, recorded, rows, paid
<1>6. ASSUME NEW m \in Messages, VisibilityTimeout(m)
      PROVE  Unsettled
  BY <1>1, <1>6 DEF VisibilityTimeout, recorded, rows, paid
<1>7. ASSUME NEW w \in Workers, WorkerNext(w) \/ CrashWorker(w)
      PROVE  Unsettled \/ \E j \in Jobs : Settled(j)
  <2>1. CASE Claim(w) \/ FailExhausted(w) \/ CompleteJob(w) \/ RescheduleJob(w) \/ FailJob(w)
    BY <2>1, WritesSettle
  <2>2. CASE ClaimNext(w) /\ ~Claim(w) /\ ~FailExhausted(w)
    BY <1>1, <2>2 DEF ClaimNext, IgnoreTerminal, GiveUpClaim, ReadQueued, ReadExpired,
       ReadExhausted, ReadAs, ClaimRefused, recorded, rows, paid
  <2>3. CASE ExecuteNext(w)
    BY <2>3 DEF ExecuteNext, SourceFails, SkipProvider, ReuseStaged, FindNothingStaged,
       PayProvider, ProviderRefuses, Stage, StageFails, Render, Continue, Unsettled, rows
  <2>4. CASE FinishNext(w) /\ ~CompleteJob(w) /\ ~RescheduleJob(w) /\ ~FailJob(w)
    BY <1>1, <2>4 DEF FinishNext, ReadForCompletion, ReadForRetry, ReadForFailure, ReadOwned,
       ReadAlreadyCompleted, ReadClaimLost, FinishAborts, DeleteMessage, recorded, rows, paid
  <2>5. CASE CrashWorker(w)
    BY <1>1, <2>5 DEF CrashWorker, recorded, rows, paid
  <2> QED BY <1>7, <2>1, <2>2, <2>3, <2>4, <2>5 DEF WorkerNext
<1>8. (UNCHANGED vars) => Unsettled
  BY <1>1 DEF vars, recorded
<1> QED BY <1>2, <1>3, <1>4, <1>5, <1>6, <1>7, <1>8 DEF Next

(* A job's outcome is final: once COMPLETED or FAILED, no handling, however *)
(* late, writes another status.                                            *)
THEOREM OutcomesAreFinal == ASSUME ~SlowHandling PROVE Spec => OutcomeIsFinal
<1>1. TypeInv /\ OutcomeInv /\ [Next]_vars =>
        [\A j \in Jobs : job[j].status \in Terminal => job'[j].status = job[j].status]_vars
  BY StepSettles DEF Unsettled, Settled, Active, Waiting, Terminal
<1> QED BY <1>1, OutcomeInvariance, TypeInvariance, PTL DEF Spec, OutcomeIsFinal

(* The vehicle shows what the outcomes say.                                *)
VehicleIsSeen == vehicle = Promise!Seen([j \in Jobs |-> OutcomeOf(job[j])])

LEMMA OutcomeMeans ==
  ASSUME NEW row \in JobRow
  PROVE  /\ (OutcomeOf(row) = "pending") <=> (row.status \in Active)
         /\ (OutcomeOf(row) = "failed") <=> (row.status = "FAILED")
<1>1. row.status \in Active \cup Terminal
  BY DEF JobRow
<1>2. CASE row.status = "COMPLETED"
  BY <1>2 DEF OutcomeOf, Active, Waiting
<1>3. CASE row.status = "FAILED"
  BY <1>3 DEF OutcomeOf, Active, Waiting
<1>4. CASE row.status \in Active
  BY <1>4 DEF OutcomeOf, Active, Waiting
<1> QED BY <1>1, <1>2, <1>3, <1>4 DEF Terminal

LEMMA Shown == TypeInv /\ OutcomeInv => VehicleIsSeen
<1> SUFFICES ASSUME TypeInv, OutcomeInv PROVE VehicleIsSeen
  OBVIOUS
<1>1. ASSUME NEW j \in Jobs
      PROVE  /\ (OutcomeOf(job[j]) = "pending") <=> (job[j].status \in Active)
             /\ (OutcomeOf(job[j]) = "failed") <=> (job[j].status = "FAILED")
  <2>1. job[j] \in JobRow
    BY DEF TypeInv, TypeOK
  <2> QED BY <2>1, OutcomeMeans
<1>2. (\E j \in Jobs : OutcomeOf(job[j]) = "pending")
         <=> (\E j \in Jobs : job[j].status \in Active)
  BY <1>1
<1>3. (\E j \in Jobs : OutcomeOf(job[j]) = "failed")
         <=> (\E j \in Jobs : job[j].status = "FAILED")
  BY <1>1
<1>4. vehicle = IF \E j \in Jobs : OutcomeOf(job[j]) = "pending" THEN "PROCESSING"
                ELSE IF \E j \in Jobs : OutcomeOf(job[j]) = "failed" THEN "PARTIALLY_FAILED"
                ELSE "READY"
  BY <1>2, <1>3 DEF OutcomeInv, VehicleFollowsJobs
<1> QED BY <1>4 DEF VehicleIsSeen, Promise!Seen

LEMMA PromiseInit == Init => Promise!Init
<1> SUFFICES ASSUME Init PROVE Promise!Init
  OBVIOUS
<1>1. \A j \in Jobs : OutcomeOf(job[j]) = "pending"
  BY DEF Init, OutcomeOf
<1> QED BY <1>1 DEF Init, Promise!Init

(* Each step settles one outcome, or none.                                 *)
LEMMA PromiseStep ==
  ASSUME TypeInv, OutcomeInv, VehicleIsSeen, TypeInv', VehicleIsSeen', [Next]_vars
  PROVE  [Promise!Next]_(Promise!vars)
<1> DEFINE outcome == [j \in Jobs |-> OutcomeOf(job[j])]
<1>1. vehicle = Promise!Seen(outcome) /\ vehicle' = Promise!Seen(outcome')
  BY DEF VehicleIsSeen, Promise!Seen
<1>2. CASE Unsettled
  <2>1. \A j \in Jobs : OutcomeOf(job'[j]) = OutcomeOf(job[j])
    BY <1>2 DEF Unsettled, OutcomeOf, Active, Waiting
  <2>2. outcome' = outcome
    BY <2>1
  <2>3. vehicle' = vehicle
    BY <1>1, <2>2
  <2> QED BY <1>2, <2>2, <2>3 DEF Unsettled, Promise!vars
<1>3. ASSUME NEW j \in Jobs, Settled(j)
      PROVE  Promise!Next
  <2>1. OutcomeOf(job[j]) = "pending" /\ \A k \in Jobs : k # j =>
          OutcomeOf(job'[k]) = OutcomeOf(job[k])
    BY <1>3 DEF Settled, OutcomeOf, Active, Waiting
  <2>2. \/ OutcomeOf(job'[j]) = "delivered" /\ usage' = usage \cup {j}
        \/ OutcomeOf(job'[j]) = "failed" /\ UNCHANGED usage
    BY <1>3 DEF Settled, OutcomeOf
  <2>3. outcome' = [outcome EXCEPT ![j] = OutcomeOf(job'[j])]
    BY <2>1
  <2>4. outcome[j] = "pending"
    BY <2>1
  <2>5. CASE OutcomeOf(job'[j]) = "delivered" /\ usage' = usage \cup {j}
    <3>1. outcome' = [outcome EXCEPT ![j] = "delivered"]
      BY <2>3, <2>5
    <3>2. Promise!Deliver(j)
      BY <1>1, <2>4, <2>5, <3>1 DEF Promise!Deliver, Promise!Settle
    <3> QED BY <3>2 DEF Promise!Next
  <2>6. CASE OutcomeOf(job'[j]) = "failed" /\ UNCHANGED usage
    <3>1. outcome' = [outcome EXCEPT ![j] = "failed"]
      BY <2>3, <2>6
    <3>2. Promise!Fail(j)
      BY <1>1, <2>4, <2>6, <3>1 DEF Promise!Fail, Promise!Settle
    <3> QED BY <3>2 DEF Promise!Next
  <2> QED BY <2>2, <2>5, <2>6
<1> QED BY <1>2, <1>3, StepSettles

(* The pipeline implements JobOutcomes: every step settles at most one job, *)
(* once, bills exactly the delivered ones, and shows the outcomes.         *)
THEOREM ImplementsOutcomes == ASSUME ~SlowHandling PROVE Spec => KeepsPromise
<1>1. TypeInv /\ OutcomeInv /\ VehicleIsSeen /\ TypeInv' /\ VehicleIsSeen' /\ [Next]_vars
        => [Promise!Next]_(Promise!vars)
  BY PromiseStep
<1> QED BY <1>1, PromiseInit, Shown, OutcomeInvariance, TypeInvariance, PTL
    DEF Spec, KeepsPromise, Promise!Spec
=============================================================================
