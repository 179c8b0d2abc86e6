------------------------- MODULE ProcessingPipeline -------------------------
(***************************************************************************)
(* One batch of image-processing jobs of one vehicle, from the commit of   *)
(* its reservation to its end: the PostgreSQL rows, the dispatchers that   *)
(* publish the outbox, the SQS queue with its dead-letter queue, and the   *)
(* workers that claim, execute and finish a job.                           *)
(*                                                                         *)
(* PostgreSQL runs the transactions at READ COMMITTED: what a transaction  *)
(* read may be stale when it writes.  A transaction whose write depends on *)
(* an earlier read is therefore two steps, the read and the write-commit.  *)
(* Time is abstracted: a lease is held until a step makes it expire, and a *)
(* back-off may always be over.                                            *)
(***************************************************************************)
EXTENDS Naturals, FiniteSets

CONSTANTS Jobs,          \* the jobs of the batch, at least one (contracts/jobs.ts)
          Studio,        \* those with a studio background: they need the provider
          Workers,       \* message handlings that can be under way at once
          Dispatchers,   \* dispatcher runs that can be under way at once
          Messages,      \* messages the queue can hold at once
          MaxAttempts,   \* ProcessingJob.maxAttempts
          MaxReceives,   \* maxReceiveCount of the queue's redrive policy
          BatchLimit,    \* the dispatcher's batchSize
          MaxCharges,    \* bound: paid provider calls for one job
          SlowHandling,  \* TRUE: a handling may outlive its lease (local consumer)
          None

ASSUME ConstantsAssumption ==
  /\ Jobs # {} /\ Studio \subseteq Jobs
  /\ MaxAttempts \in Nat \ {0}
  /\ MaxReceives \in Nat \ {0}
  /\ BatchLimit \in Nat \ {0}
  /\ MaxCharges \in Nat
  /\ SlowHandling \in BOOLEAN
  /\ None \notin Workers \cup Dispatchers \cup Messages \cup Jobs

VARIABLES job,         \* ProcessingJob rows
          attempt,     \* ProcessingAttempt rows, by job and attempt number
          asset,       \* the jobs with a ProcessedAsset row
          usage,       \* the jobs with a BACKGROUND_REMOVAL_COMPLETED usage event
          invalid,     \* the jobs whose ImageAsset was marked INVALID
          vehicle,     \* the vehicle's status
          outbox,      \* ProcessingOutboxMessage rows, one per job
          dispatcher,  \* dispatcher runs
          queue,       \* the SQS queue
          dlq,         \* the jobs with a message in the dead-letter queue
          worker,      \* message handlings
          staged,      \* request id of the cutout staged in S3 for the job, 0: none
          charges      \* paid provider calls made for the job

rows  == <<job, attempt, asset, usage, invalid, vehicle, outbox>>
paid  == <<staged, charges>>
sqs   == <<queue, dlq>>
vars  == <<job, attempt, asset, usage, invalid, vehicle, outbox,
           dispatcher, queue, dlq, worker, staged, charges>>
-----------------------------------------------------------------------------
(* Rows and records                                                        *)

Waiting  == {"CREATED", "RETRYING"}
Active   == Waiting \cup {"QUEUED", "PROCESSING"}
Terminal == {"COMPLETED", "FAILED"}
Lease    == {"none", "held", "expired"}

NoAttempt == [status |-> "NONE", request |-> 0]
FreeSlot  == [state |-> "free", job |-> None, receives |-> 0]
IdleRun   == [pc |-> "idle", batch |-> {}, todo |-> {}, acked |-> {}]
Handle(pc, m, j) == [pc |-> pc, msg |-> m, job |-> j, n |-> 0,
                     seen |-> "none", request |-> 0, outcome |-> "none"]

WorkerPc == {"idle", "received", "claim", "exhaust", "source", "pay", "stage",
             "render", "finish", "complete", "fail", "ack"}
Outcome  == {"none", "ok", "retry", "terminal", "invalid"}

(* A handling that holds a claim it has not given up. *)
Claimed == {"source", "pay", "stage", "render", "finish", "complete", "fail"}

JobRow == [status: Active \cup Terminal, attempts: 0..MaxAttempts,
           worker: Workers \cup {None}, lease: Lease]
AttemptRow == [status: {"NONE", "STARTED", "SUCCEEDED", "FAILED"},
               request: 0..MaxCharges]
OutboxRow == [published: BOOLEAN, token: Dispatchers \cup {None}, lease: Lease]
DispatcherRun == [pc: {"idle", "publishing", "releasing"}, batch: SUBSET Jobs,
                  todo: SUBSET Jobs, acked: SUBSET Jobs]
Slot == [state: {"free", "visible", "inflight"}, job: Jobs \cup {None},
         receives: 0..MaxReceives]
Handling == [pc: WorkerPc, msg: Messages \cup {None}, job: Jobs \cup {None},
             n: 0..MaxAttempts, seen: {"none", "QUEUED", "EXPIRED"},
             request: 0..MaxCharges, outcome: Outcome]

TypeOK ==
  /\ job \in [Jobs -> JobRow]
  /\ attempt \in [Jobs -> [1..MaxAttempts -> AttemptRow]]
  /\ asset \subseteq Jobs /\ usage \subseteq Jobs /\ invalid \subseteq Jobs
  /\ vehicle \in {"PROCESSING", "READY", "PARTIALLY_FAILED"}
  /\ outbox \in [Jobs -> OutboxRow]
  /\ dispatcher \in [Dispatchers -> DispatcherRun]
  /\ queue \in [Messages -> Slot]
  /\ dlq \subseteq Jobs
  /\ worker \in [Workers -> Handling]
  /\ staged \in [Jobs -> 0..MaxCharges]
  /\ charges \in [Jobs -> 0..MaxCharges]

(* The reservation has just committed: the jobs and their outbox rows exist *)
(* and the vehicle is PROCESSING.                                           *)
Init ==
  /\ job = [j \in Jobs |-> [status |-> "CREATED", attempts |-> 0,
                            worker |-> None, lease |-> "none"]]
  /\ attempt = [j \in Jobs |-> [n \in 1..MaxAttempts |-> NoAttempt]]
  /\ asset = {} /\ usage = {} /\ invalid = {}
  /\ vehicle = "PROCESSING"
  /\ outbox = [j \in Jobs |-> [published |-> FALSE, token |-> None,
                               lease |-> "none"]]
  /\ dispatcher = [d \in Dispatchers |-> IdleRun]
  /\ queue = [m \in Messages |-> FreeSlot]
  /\ dlq = {}
  /\ worker = [w \in Workers |-> Handle("idle", None, None)]
  /\ staged = [j \in Jobs |-> 0]
  /\ charges = [j \in Jobs |-> 0]
-----------------------------------------------------------------------------
(* Outbox dispatchers                                                      *)

(* Variant: a claim that expired is never taken over.                      *)
PendingUnclaimedOnly(j) == /\ ~outbox[j].published
                           /\ outbox[j].lease = "none"
                           /\ job[j].status \in Waiting

Pending(j) == /\ ~outbox[j].published
              /\ outbox[j].lease # "held"
              /\ job[j].status \in Waiting

(* claimPending: at most BatchLimit unpublished rows whose claim is free or *)
(* expired, restricted to the job ids a request names.                      *)
ClaimOutbox(d) ==
  /\ dispatcher[d].pc = "idle"
  /\ \E batch \in SUBSET {j \in Jobs : Pending(j)} :
       /\ batch # {} /\ Cardinality(batch) <= BatchLimit
       /\ outbox' = [j \in Jobs |->
            IF j \in batch THEN [outbox[j] EXCEPT !.token = d, !.lease = "held"]
                           ELSE outbox[j]]
       /\ dispatcher' = [dispatcher EXCEPT ![d] =
            [pc |-> "publishing", batch |-> batch, todo |-> batch, acked |-> {}]]
  /\ UNCHANGED <<job, attempt, asset, usage, invalid, vehicle, sqs, worker, paid>>

Free(m) == /\ queue[m].state = "free"
           /\ \A w \in Workers : worker[w].msg # m

Send(j) == \E m \in Messages :
             /\ Free(m)
             /\ queue' = [queue EXCEPT ![m] =
                  [state |-> "visible", job |-> j, receives |-> 0]]

(* publishBatch, entry by entry: SQS accepts the message and says so; or it *)
(* accepts it and the answer is lost; or it refuses it (or the remaining    *)
(* lease is too short to try).                                              *)
PublishAccepted(d, j) ==
  /\ j \in dispatcher[d].todo
  /\ Send(j)
  /\ dispatcher' = [dispatcher EXCEPT ![d] =
       [dispatcher[d] EXCEPT !.todo = @ \ {j}, !.acked = @ \cup {j}]]
  /\ UNCHANGED <<rows, dlq, worker, paid>>

PublishUncertain(d, j) ==
  /\ j \in dispatcher[d].todo
  /\ Send(j)
  /\ dispatcher' = [dispatcher EXCEPT ![d] =
       [dispatcher[d] EXCEPT !.todo = @ \ {j}]]
  /\ UNCHANGED <<rows, dlq, worker, paid>>

PublishRefused(d, j) ==
  /\ j \in dispatcher[d].todo
  /\ dispatcher' = [dispatcher EXCEPT ![d] =
       [dispatcher[d] EXCEPT !.todo = @ \ {j}]]
  /\ UNCHANGED <<rows, sqs, worker, paid>>

(* The sends this run still holds the claim of and may record.             *)
Acknowledged(d) ==
  {j \in dispatcher[d].acked : /\ outbox[j].token = d
                               /\ ~outbox[j].published
                               /\ job[j].status \in Waiting}

(* The run once only the claims on these rows are left to release.         *)
Rest(batch) == IF batch = {} THEN IdleRun
               ELSE [pc |-> "releasing", batch |-> batch, todo |-> {}, acked |-> {}]

(* markPublishedBatch, and its failure: nothing is recorded.               *)
MarkPublished(d) ==
  /\ dispatcher[d].pc = "publishing" /\ dispatcher[d].todo = {}
  /\ LET done == Acknowledged(d) IN
       /\ outbox' = [j \in Jobs |->
            IF j \in done
            THEN [published |-> TRUE, token |-> None, lease |-> "none"]
            ELSE outbox[j]]
       /\ job' = [j \in Jobs |->
            IF j \in done THEN [job[j] EXCEPT !.status = "QUEUED"] ELSE job[j]]
       /\ dispatcher' = [dispatcher EXCEPT ![d] = Rest(@.batch \ done)]
  /\ UNCHANGED <<attempt, asset, usage, invalid, vehicle, sqs, worker, paid>>

MarkUnavailable(d) ==
  /\ dispatcher[d].pc = "publishing" /\ dispatcher[d].todo = {}
  /\ dispatcher' = [dispatcher EXCEPT ![d] = Rest(@.batch)]
  /\ UNCHANGED <<rows, sqs, worker, paid>>

(* releaseOutboxClaim, for each row not recorded as published.             *)
Release(d, j) ==
  /\ dispatcher[d].pc = "releasing" /\ j \in dispatcher[d].batch
  /\ outbox' = IF outbox[j].token = d /\ ~outbox[j].published
               THEN [outbox EXCEPT ![j].token = None, ![j].lease = "none"]
               ELSE outbox
  /\ dispatcher' = [dispatcher EXCEPT ![d] = Rest(@.batch \ {j})]
  /\ UNCHANGED <<job, attempt, asset, usage, invalid, vehicle, sqs, worker, paid>>

(* The process running the dispatcher dies; its claims stay until expiry.  *)
CrashDispatcher(d) ==
  /\ dispatcher[d].pc # "idle"
  /\ dispatcher' = [dispatcher EXCEPT ![d] = IdleRun]
  /\ UNCHANGED <<rows, sqs, worker, paid>>

OutboxLeaseExpires(j) ==
  /\ outbox[j].lease = "held"
  /\ outbox' = [outbox EXCEPT ![j].lease = "expired"]
  /\ UNCHANGED <<job, attempt, asset, usage, invalid, vehicle, dispatcher, sqs,
                 worker, paid>>

DispatcherNext(d) ==
  \/ ClaimOutbox(d) \/ MarkPublished(d) \/ MarkUnavailable(d)
  \/ \E j \in Jobs : \/ PublishAccepted(d, j) \/ PublishUncertain(d, j)
                     \/ PublishRefused(d, j) \/ Release(d, j)
-----------------------------------------------------------------------------
(* The queue: at-least-once, with a visibility timeout and a redrive policy *)

Handled(m) == \E w \in Workers : worker[w].msg = m

Becomes(w, handling) == worker' = [worker EXCEPT ![w] = handling]

Receive(w, m) ==
  /\ worker[w].pc = "idle"
  /\ queue[m].state = "visible"
  /\ queue' = [queue EXCEPT ![m].state = "inflight", ![m].receives = @ + 1]
  /\ Becomes(w, Handle("received", m, queue[m].job))
  /\ UNCHANGED <<rows, dispatcher, dlq, paid>>

ReceivesLeft(m) == queue[m].receives < MaxReceives

(* An unacknowledged message comes back, or, received MaxReceives times, is *)
(* moved to the dead-letter queue.                                          *)
VisibilityTimeout(m) ==
  /\ queue[m].state = "inflight"
  /\ SlowHandling \/ ~Handled(m)
  /\ IF ReceivesLeft(m)
     THEN /\ queue' = [queue EXCEPT ![m].state = "visible"]
          /\ UNCHANGED dlq
     ELSE /\ queue' = [queue EXCEPT ![m] = FreeSlot]
          /\ dlq' = dlq \cup {queue[m].job}
  /\ UNCHANGED <<rows, dispatcher, worker, paid>>

(* The operator's redrive of README "A job stuck on Processing".            *)
Redrive(j) ==
  /\ j \in dlq
  /\ Send(j)
  /\ dlq' = dlq \ {j}
  /\ UNCHANGED <<rows, dispatcher, worker, paid>>

(* The handler's two answers: the record is done, and its message is then    *)
(* deleted; or it is reported as failed and stays in flight until its       *)
(* visibility timeout.                                                      *)
Done(w) == Becomes(w, Handle("ack", worker[w].msg, None))

RetryDelivery(w) == Becomes(w, Handle("idle", None, None))

DeleteMessage(w) ==
  /\ worker[w].pc = "ack"
  /\ queue' = [queue EXCEPT ![worker[w].msg] = FreeSlot]
  /\ RetryDelivery(w)
  /\ UNCHANGED <<rows, dispatcher, dlq, paid>>
-----------------------------------------------------------------------------
(* updateVehicleStatus, over the job rows the transaction will commit      *)

(* Variant: a failed job settles the vehicle while others are active.      *)
VehicleAfterFirstFailure(rowsAfter) ==
  IF vehicle # "PROCESSING" THEN vehicle
  ELSE IF \E j \in Jobs : rowsAfter[j].status = "FAILED" THEN "PARTIALLY_FAILED"
  ELSE IF \E j \in Jobs : rowsAfter[j].status \in Active THEN vehicle
  ELSE "READY"

VehicleAfter(rowsAfter) ==
  IF \/ \E j \in Jobs : rowsAfter[j].status \in Active
     \/ vehicle # "PROCESSING"
  THEN vehicle
  ELSE IF \E j \in Jobs : rowsAfter[j].status = "FAILED"
       THEN "PARTIALLY_FAILED" ELSE "READY"

Unclaimed(row, status) == [row EXCEPT !.status = status, !.worker = None,
                                      !.lease = "none"]
-----------------------------------------------------------------------------
(* claimJob                                                                *)

(* Variant: a claim counts as expired while it is held.                    *)
ExpiredAnyClaim(row) == row.status = "PROCESSING"

Expired(row) == row.status = "PROCESSING" /\ row.lease = "expired"

(* A finished job needs nothing: the message is acknowledged.              *)
IgnoreTerminal(w) ==
  /\ worker[w].pc = "received"
  /\ job[worker[w].job].status \in Terminal
  /\ Done(w)
  /\ UNCHANGED <<rows, dispatcher, sqs, paid>>

(* Variant: a message that arrives too early is dropped.                   *)
GiveUpClaimAcknowledged(w) ==
  /\ worker[w].pc = "received"
  /\ job[worker[w].job].status \in Waiting
  /\ Done(w)
  /\ UNCHANGED <<rows, dispatcher, sqs, paid>>

(* Not recorded as queued after the five polls, or claimed by another       *)
(* handling: the message must be delivered again.                           *)
GiveUpClaim(w) ==
  /\ worker[w].pc = "received"
  /\ \/ job[worker[w].job].status \in Waiting
     \/ job[worker[w].job].status = "PROCESSING" /\ job[worker[w].job].lease = "held"
  /\ RetryDelivery(w)
  /\ UNCHANGED <<rows, dispatcher, sqs, paid>>

(* The read of claimJob: a queued job; one whose claim has expired; or one  *)
(* whose last claim has expired.                                           *)
ReadAs(w, pc, seen) ==
  /\ Becomes(w, [worker[w] EXCEPT !.pc = pc,
                                  !.n = job[worker[w].job].attempts,
                                  !.seen = seen])
  /\ UNCHANGED <<rows, dispatcher, sqs, paid>>

ReadQueued(w) ==
  /\ worker[w].pc = "received"
  /\ job[worker[w].job].status = "QUEUED"
  /\ ReadAs(w, "claim", "QUEUED")

ReadExpired(w) ==
  /\ worker[w].pc = "received"
  /\ Expired(job[worker[w].job]) /\ job[worker[w].job].attempts < MaxAttempts
  /\ ReadAs(w, "claim", "EXPIRED")

ReadExhausted(w) ==
  /\ worker[w].pc = "received"
  /\ Expired(job[worker[w].job]) /\ job[worker[w].job].attempts >= MaxAttempts
  /\ ReadAs(w, "exhaust", "EXPIRED")

(* Variant: the attempt of an expired claim stays open.                    *)
CloseAttemptNever(rowsOfJob, n) == rowsOfJob

(* The attempt row n of a job, failed if it is still open.                  *)
CloseAttempt(rowsOfJob, n) ==
  IF n \in 1..MaxAttempts /\ rowsOfJob[n].status = "STARTED"
  THEN [rowsOfJob EXCEPT ![n].status = "FAILED"] ELSE rowsOfJob

(* The budget is spent and the last claim expired: the job fails.  The job  *)
(* update has no condition besides the id.                                  *)
FailExhausted(w) ==
  LET j == worker[w].job
      after == [job EXCEPT ![j] = Unclaimed(@, "FAILED")]
  IN /\ worker[w].pc = "exhaust"
     /\ attempt' = [attempt EXCEPT ![j] = CloseAttempt(@, worker[w].n)]
     /\ job' = after
     /\ vehicle' = VehicleAfter(after)
     /\ Done(w)
     /\ UNCHANGED <<asset, usage, invalid, outbox, dispatcher, sqs, paid>>

(* The condition of the claiming update, re-evaluated on the current row.   *)
StillClaimable(w) ==
  LET row == job[worker[w].job] IN
    IF worker[w].seen = "EXPIRED"
    THEN Expired(row)
    ELSE row.status = "QUEUED"

(* The claim commits unless attemptCount would pass its CHECK or the next   *)
(* attempt row (numbered from the earlier read) exists already.             *)
Claim(w) ==
  LET j == worker[w].job
      n == worker[w].n + 1
      closed == IF worker[w].seen = "EXPIRED"
                THEN CloseAttempt(attempt[j], worker[w].n) ELSE attempt[j]
  IN /\ worker[w].pc = "claim"
     /\ StillClaimable(w)
     /\ job[j].attempts < MaxAttempts
     /\ n <= MaxAttempts /\ attempt[j][n].status = "NONE"
     /\ job' = [job EXCEPT ![j] = [status |-> "PROCESSING",
                                   attempts |-> @.attempts + 1,
                                   worker |-> w, lease |-> "held"]]
     /\ attempt' = [attempt EXCEPT ![j] =
          [closed EXCEPT ![n] = [status |-> "STARTED", request |-> 0]]]
     /\ Becomes(w, [worker[w] EXCEPT !.pc = "source", !.n = n, !.seen = "none"])
     /\ UNCHANGED <<asset, usage, invalid, vehicle, outbox, dispatcher, sqs, paid>>

(* CLAIM_BUSY, or a constraint violation that rolls the claim back.         *)
ClaimRefused(w) ==
  LET j == worker[w].job
      n == worker[w].n + 1
  IN /\ worker[w].pc = "claim"
     /\ \/ ~StillClaimable(w)
        \/ job[j].attempts >= MaxAttempts
        \/ n > MaxAttempts
        \/ n <= MaxAttempts /\ attempt[j][n].status # "NONE"
     /\ RetryDelivery(w)
     /\ UNCHANGED <<rows, dispatcher, sqs, paid>>
-----------------------------------------------------------------------------
(* ProcessingJobExecutor.execute                                           *)

Continue(w, pc) ==
  /\ Becomes(w, [worker[w] EXCEPT !.pc = pc])
  /\ UNCHANGED <<rows, dispatcher, sqs, paid>>

Result(w, outcome, request) ==
  Becomes(w, [worker[w] EXCEPT !.pc = "finish", !.outcome = outcome,
                               !.request = request])

(* The original cannot be read (S3) or is not a valid image.               *)
SourceFails(w) ==
  /\ worker[w].pc = "source"
  /\ \E outcome \in {"retry", "invalid"} : Result(w, outcome, 0)
  /\ UNCHANGED <<rows, dispatcher, sqs, paid>>

(* Nothing to pay for: the photo keeps its own background.                 *)
SkipProvider(w) ==
  /\ worker[w].pc = "source" /\ worker[w].job \notin Studio
  /\ Continue(w, "render")

(* The staged cutout of an earlier attempt, with the request that made it. *)
ReuseStaged(w) ==
  /\ worker[w].pc = "source" /\ worker[w].job \in Studio
  /\ staged[worker[w].job] # 0
  /\ Becomes(w, [worker[w] EXCEPT !.pc = "render",
                                  !.request = staged[worker[w].job]])
  /\ UNCHANGED <<rows, dispatcher, sqs, paid>>

FindNothingStaged(w) ==
  /\ worker[w].pc = "source" /\ worker[w].job \in Studio
  /\ staged[worker[w].job] = 0
  /\ Continue(w, "pay")

(* The provider is paid.  Its result is then usable, unreadable (terminal),  *)
(* cannot be downloaded or was never answered (retryable); a failure names  *)
(* the request only if the provider's answer did.                           *)
PayProvider(w) ==
  LET j == worker[w].job
      request == charges[j] + 1
  IN /\ worker[w].pc = "pay"
     /\ charges[j] < MaxCharges
     /\ charges' = [charges EXCEPT ![j] = request]
     /\ \/ Becomes(w, [worker[w] EXCEPT !.pc = "stage", !.request = request])
        \/ \E outcome \in {"retry", "terminal"}, known \in {0, request} :
             Result(w, outcome, known)
     /\ UNCHANGED <<rows, dispatcher, sqs, staged>>

(* Refused, rate limited, timed out or unreachable: nothing was paid.       *)
ProviderRefuses(w) ==
  /\ worker[w].pc = "pay"
  /\ \E outcome \in {"retry", "terminal"} : Result(w, outcome, 0)
  /\ UNCHANGED <<rows, dispatcher, sqs, paid>>

Stage(w) ==
  /\ worker[w].pc = "stage"
  /\ staged' = [staged EXCEPT ![worker[w].job] = worker[w].request]
  /\ Becomes(w, [worker[w] EXCEPT !.pc = "render"])
  /\ UNCHANGED <<rows, dispatcher, sqs, charges>>

(* Variant: a failed put starts again from the provider.                   *)
StageFailsAndPaysAgain(w) == worker[w].pc = "stage" /\ Continue(w, "pay")

(* The put fails before obtainCutout returns: the failure names no request. *)
StageFails(w) ==
  /\ worker[w].pc = "stage"
  /\ Result(w, "retry", 0)
  /\ UNCHANGED <<rows, dispatcher, sqs, paid>>

(* Composition and the two output puts: done; a photo without a car or that *)
(* cannot be decoded; an S3 error, which is retried; a composition error.   *)
Render(w) ==
  /\ worker[w].pc = "render"
  /\ \E outcome \in {"ok", "invalid", "retry", "terminal"} :
       /\ outcome = "terminal" => worker[w].job \in Studio
       /\ Result(w, outcome, worker[w].request)
  /\ UNCHANGED <<rows, dispatcher, sqs, paid>>
-----------------------------------------------------------------------------
(* completeJob and failJob                                                 *)

Owns(w) == /\ job[worker[w].job].status = "PROCESSING"
           /\ job[worker[w].job].worker = w

(* A provider request id is recorded by one attempt only.                  *)
RequestTaken(w) ==
  LET j == worker[w].job IN
    /\ worker[w].request # 0
    /\ attempt[j][worker[w].n].status = "STARTED"
    /\ \E n \in 1..MaxAttempts \ {worker[w].n} :
         attempt[j][n].request = worker[w].request

(* The read of completeJob or failJob: the job is still this handling's.   *)
(* failJob computes here whether the job is retried.                        *)
ReadOwned(w, pc, outcome) ==
  /\ worker[w].pc = "finish" /\ Owns(w)
  /\ Becomes(w, [worker[w] EXCEPT !.pc = pc, !.outcome = outcome])
  /\ UNCHANGED <<rows, dispatcher, sqs, paid>>

ReadForCompletion(w) == worker[w].outcome = "ok" /\ ReadOwned(w, "complete", "ok")

ReadForRetry(w) ==
  /\ worker[w].outcome = "retry" /\ job[worker[w].job].attempts < MaxAttempts
  /\ ReadOwned(w, "fail", "retry")

ReadForFailure(w) ==
  \/ /\ worker[w].outcome = "retry" /\ job[worker[w].job].attempts >= MaxAttempts
     /\ ReadOwned(w, "fail", "terminal")
  \/ /\ worker[w].outcome \in {"terminal", "invalid"}
     /\ ReadOwned(w, "fail", worker[w].outcome)

(* ALREADY_COMPLETED: the work is done, the message can go.                *)
ReadAlreadyCompleted(w) ==
  /\ worker[w].pc = "finish" /\ worker[w].outcome = "ok"
  /\ job[worker[w].job].status = "COMPLETED" /\ worker[w].job \in asset
  /\ Done(w)
  /\ UNCHANGED <<rows, dispatcher, sqs, paid>>

ReadClaimLost(w) ==
  /\ worker[w].pc = "finish" /\ ~Owns(w)
  /\ ~ /\ worker[w].outcome = "ok"
       /\ job[worker[w].job].status = "COMPLETED" /\ worker[w].job \in asset
  /\ RetryDelivery(w)
  /\ UNCHANGED <<rows, dispatcher, sqs, paid>>

(* The end of this handling's attempt row, if it is still open.            *)
FinishAttempt(w, status) ==
  LET j == worker[w].job IN
    IF attempt[j][worker[w].n].status = "STARTED"
    THEN [attempt EXCEPT ![j][worker[w].n] =
            [status |-> status, request |-> worker[w].request]]
    ELSE attempt

CompleteConflict(w) ==
  worker[w].job \in asset \cup usage \/ RequestTaken(w)

(* Variant: output and usage event commit before the rest.                 *)
CompleteJobInTwoSteps(w) ==
  /\ worker[w].pc = "complete" /\ ~CompleteConflict(w)
  /\ asset' = asset \cup {worker[w].job}
  /\ usage' = usage \cup {worker[w].job}
  /\ UNCHANGED <<job, attempt, invalid, vehicle, outbox, dispatcher, sqs, worker,
                 paid>>

(* Output, usage event, attempt, job and vehicle commit together; the job   *)
(* update has no condition besides the id.                                  *)
CompleteJob(w) ==
  LET j == worker[w].job
      after == [job EXCEPT ![j] = Unclaimed(@, "COMPLETED")]
  IN /\ worker[w].pc = "complete" /\ ~CompleteConflict(w)
     /\ asset' = asset \cup {j}
     /\ usage' = usage \cup {j}
     /\ attempt' = FinishAttempt(w, "SUCCEEDED")
     /\ job' = after
     /\ vehicle' = VehicleAfter(after)
     /\ Done(w)
     /\ UNCHANGED <<invalid, outbox, dispatcher, sqs, paid>>

(* A retry reopens the outbox row; nothing else does.                      *)
RescheduleJob(w) ==
  LET j == worker[w].job IN
  /\ worker[w].pc = "fail" /\ worker[w].outcome = "retry" /\ ~RequestTaken(w)
  /\ attempt' = FinishAttempt(w, "FAILED")
  /\ job' = [job EXCEPT ![j] = Unclaimed(@, "RETRYING")]
  /\ outbox' = [outbox EXCEPT ![j] =
                 [published |-> FALSE, token |-> None, lease |-> "none"]]
  /\ Done(w)
  /\ UNCHANGED <<asset, usage, invalid, vehicle, dispatcher, sqs, paid>>

FailJob(w) ==
  LET j == worker[w].job
      after == [job EXCEPT ![j] = Unclaimed(@, "FAILED")]
  IN /\ worker[w].pc = "fail" /\ worker[w].outcome # "retry" /\ ~RequestTaken(w)
     /\ attempt' = FinishAttempt(w, "FAILED")
     /\ job' = after
     /\ invalid' = IF worker[w].outcome = "invalid" THEN invalid \cup {j} ELSE invalid
     /\ vehicle' = VehicleAfter(after)
     /\ Done(w)
     /\ UNCHANGED <<asset, usage, outbox, dispatcher, sqs, paid>>

(* A unique constraint aborts the transaction and the handler reports the   *)
(* record as failed.                                                        *)
FinishAborts(w) ==
  /\ \/ worker[w].pc = "complete" /\ CompleteConflict(w)
     \/ worker[w].pc = "fail" /\ RequestTaken(w)
  /\ RetryDelivery(w)
  /\ UNCHANGED <<rows, dispatcher, sqs, paid>>
-----------------------------------------------------------------------------
(* The process handling the message dies, is stopped at its time limit, or  *)
(* loses the database: whatever it had not committed is undone.             *)
CrashWorker(w) ==
  /\ worker[w].pc # "idle"
  /\ RetryDelivery(w)
  /\ UNCHANGED <<rows, dispatcher, sqs, paid>>

(* Without SlowHandling a claim expires only once its handling has ended:   *)
(* the Lambda time limit does not exceed the lease.                         *)
Alive(j) == \E w \in Workers : /\ worker[w].pc \in Claimed
                               /\ worker[w].job = j /\ job[j].worker = w

LeaseExpires(j) ==
  /\ job[j].status = "PROCESSING" /\ job[j].lease = "held"
  /\ SlowHandling \/ ~Alive(j)
  /\ job' = [job EXCEPT ![j].lease = "expired"]
  /\ UNCHANGED <<attempt, asset, usage, invalid, vehicle, outbox, dispatcher, sqs,
                 worker, paid>>

ClaimNext(w) ==
  \/ IgnoreTerminal(w) \/ GiveUpClaim(w) \/ ReadQueued(w) \/ ReadExpired(w)
  \/ ReadExhausted(w)
  \/ FailExhausted(w) \/ Claim(w) \/ ClaimRefused(w)

ExecuteNext(w) ==
  \/ SourceFails(w) \/ SkipProvider(w) \/ ReuseStaged(w) \/ FindNothingStaged(w)
  \/ PayProvider(w) \/ ProviderRefuses(w) \/ Stage(w) \/ StageFails(w) \/ Render(w)

FinishNext(w) ==
  \/ ReadForCompletion(w) \/ ReadForRetry(w) \/ ReadForFailure(w)
  \/ ReadAlreadyCompleted(w) \/ ReadClaimLost(w)
  \/ CompleteJob(w) \/ RescheduleJob(w) \/ FailJob(w) \/ FinishAborts(w)
  \/ DeleteMessage(w)

WorkerNext(w) == ClaimNext(w) \/ ExecuteNext(w) \/ FinishNext(w)

Next ==
  \/ \E d \in Dispatchers : DispatcherNext(d) \/ CrashDispatcher(d)
  \/ \E j \in Jobs : OutboxLeaseExpires(j) \/ LeaseExpires(j) \/ Redrive(j)
  \/ \E m \in Messages : VisibilityTimeout(m) \/ \E w \in Workers : Receive(w, m)
  \/ \E w \in Workers : WorkerNext(w) \/ CrashWorker(w)

Spec == Init /\ [][Next]_vars
-----------------------------------------------------------------------------
(* Safety                                                                  *)

(* A job is executed by one handling at a time: two handlings never hold a  *)
(* claim on it together, so no stale result can be committed.               *)
ExclusiveClaim ==
  \A v, w \in Workers :
    /\ worker[v].pc \in Claimed /\ worker[w].pc \in Claimed
    /\ worker[v].job = worker[w].job
    => v = w

(* The attempt rows tell the job's history: one row for each claim, the     *)
(* last one open exactly while the job is PROCESSING, and a success exactly *)
(* when the job is COMPLETED.                                               *)
AttemptHistory ==
  \A j \in Jobs : \A n \in 1..MaxAttempts :
    /\ (attempt[j][n].status = "NONE") <=> (n > job[j].attempts)
    /\ (attempt[j][n].status = "STARTED")
         <=> (job[j].status = "PROCESSING" /\ n = job[j].attempts)
    /\ (attempt[j][n].status = "SUCCEEDED")
         <=> (job[j].status = "COMPLETED" /\ n = job[j].attempts)

(* No job is stranded: one that waits for publication is open in the        *)
(* outbox, and one that was published still has a message in the queue or   *)
(* in the dead-letter queue, whatever crashed in between.                   *)
NeverStranded ==
  \A j \in Jobs :
    /\ job[j].status \in Waiting => ~outbox[j].published
    /\ job[j].status \in {"QUEUED", "PROCESSING"} =>
         /\ outbox[j].published
         /\ j \in dlq \/ \E m \in Messages :
                            queue[m].state # "free" /\ queue[m].job = j

(* The vehicle is PROCESSING exactly while a job of the batch is active,    *)
(* and needs attention exactly when a job of it failed.                     *)
VehicleFollowsJobs ==
  vehicle = IF \E j \in Jobs : job[j].status \in Active THEN "PROCESSING"
            ELSE IF \E j \in Jobs : job[j].status = "FAILED"
            THEN "PARTIALLY_FAILED" ELSE "READY"

(* The provider is paid at most once for an attempt: the budget of attempts *)
(* bounds what a job can cost.                                              *)
ChargesWithinAttempts == \A j \in Jobs : charges[j] <= job[j].attempts

(* A job's outcome is final: no late handling overwrites it.               *)
OutcomeIsFinal ==
  [][\A j \in Jobs : job[j].status \in Terminal => job'[j].status = job[j].status]_vars

(* The pipeline implements JobOutcomes: every step settles at most one job,  *)
(* once, and bills exactly the delivered ones.                              *)
OutcomeOf(row) == CASE row.status = "COMPLETED" -> "delivered"
                    [] row.status = "FAILED"    -> "failed"
                    [] OTHER                    -> "pending"

Promise == INSTANCE JobOutcomes WITH
             outcome <- [j \in Jobs |-> OutcomeOf(job[j])],
             billed <- usage

KeepsPromise == Promise!Spec
-----------------------------------------------------------------------------
(* A claim of the repository's documents that the code does not keep        *)

(* A retry that reuses the staged cutout can be completed by the handling   *)
(* that owns the job: no constraint rolls its completion back.              *)
OwnerCanComplete ==
  \A w \in Workers : worker[w].pc = "complete" /\ Owns(w) => ~CompleteConflict(w)
=============================================================================
