---------------------- MODULE ProcessingPipelineProofs ----------------------
(***************************************************************************)
(* Type correctness of ProcessingPipeline and the proof that it strands no  *)
(* job, for every deployment, whether or not a handling may outlive its     *)
(* lease.  NeverStranded is not inductive: a message in the queue may       *)
(* already be acknowledged, and a dispatcher records a publication later    *)
(* than it sent the message.  StrandInv says both.                         *)
(***************************************************************************)
EXTENDS ProcessingPipeline, TLAPS

(* What the types leave open: a handling under way has a message and a job, *)
(* one that claimed has an attempt number, a message has a job, and a       *)
(* visible one may still be received.                                      *)
GoodHandling(h) ==
  /\ h.pc \notin {"idle", "ack"} => h.job \in Jobs
  /\ h.pc # "idle" => h.msg \in Messages
  /\ h.pc \in Claimed => h.n \in 1..MaxAttempts

GoodSlot(slot) ==
  /\ slot.state # "free" => slot.job \in Jobs
  /\ slot.state = "visible" => slot.receives < MaxReceives

WellFormed == /\ \A w \in Workers : GoodHandling(worker[w])
              /\ \A m \in Messages : GoodSlot(queue[m])

TypeInv == TypeOK /\ WellFormed

-----------------------------------------------------------------------------
(* The initial states are well typed.                                      *)
LEMMA TypeInvInit == Init => TypeInv
<1> SUFFICES ASSUME Init PROVE TypeInv
  OBVIOUS
<1> USE ConstantsAssumption DEF Init
<1>1. job \in [Jobs -> JobRow]
  BY DEF JobRow, Active, Waiting, Lease
<1>2. attempt \in [Jobs -> [1..MaxAttempts -> AttemptRow]]
  BY DEF AttemptRow, NoAttempt
<1>3. outbox \in [Jobs -> OutboxRow]
  BY DEF OutboxRow, Lease
<1>4. dispatcher \in [Dispatchers -> DispatcherRun]
  BY DEF DispatcherRun, IdleRun
<1>5. queue \in [Messages -> Slot] /\ \A m \in Messages : GoodSlot(queue[m])
  BY DEF Slot, FreeSlot, GoodSlot
<1>6. worker \in [Workers -> Handling] /\ \A w \in Workers : GoodHandling(worker[w])
  BY DEF Handling, Handle, GoodHandling, WorkerPc, Outcome, Claimed
<1>7. staged \in [Jobs -> 0..MaxCharges] /\ charges \in [Jobs -> 0..MaxCharges]
  OBVIOUS
<1> QED BY <1>1, <1>2, <1>3, <1>4, <1>5, <1>6, <1>7 DEF TypeInv, TypeOK, WellFormed

(* A handling becomes a well-formed one and no other changes.              *)
LEMMA HandlingTypes ==
  ASSUME TypeInv, NEW w \in Workers, NEW h \in Handling, GoodHandling(h),
         Becomes(w, h)
  PROVE  /\ worker' \in [Workers -> Handling]
         /\ \A v \in Workers : GoodHandling(worker'[v])
  BY DEF TypeInv, TypeOK, WellFormed, Becomes

LEMMA WorkerOnly ==
  ASSUME TypeInv, NEW w \in Workers, NEW h \in Handling, GoodHandling(h),
         Becomes(w, h), UNCHANGED <<rows, dispatcher, sqs, paid>>
  PROVE  TypeInv'
<1>1. UNCHANGED <<job, attempt, asset, usage, invalid, vehicle, outbox, dispatcher,
                  queue, dlq, staged, charges>>
  BY DEF rows, sqs, paid
<1>2. worker' \in [Workers -> Handling] /\ \A v \in Workers : GoodHandling(worker'[v])
  BY HandlingTypes
<1> QED BY <1>1, <1>2 DEF TypeInv, TypeOK, WellFormed

(* The record updates the actions make are well typed.                     *)
LEMMA UpdatePc ==
  ASSUME NEW h \in Handling, NEW pc \in WorkerPc
  PROVE  [h EXCEPT !.pc = pc] \in Handling
  BY DEF Handling

LEMMA UpdateRead ==
  ASSUME NEW h \in Handling, NEW pc \in WorkerPc, NEW n \in 0..MaxAttempts,
         NEW seen \in {"none", "QUEUED", "EXPIRED"}
  PROVE  [h EXCEPT !.pc = pc, !.n = n, !.seen = seen] \in Handling
  BY DEF Handling

LEMMA UpdateRequest ==
  ASSUME NEW h \in Handling, NEW pc \in WorkerPc, NEW request \in 0..MaxCharges
  PROVE  [h EXCEPT !.pc = pc, !.request = request] \in Handling
  BY DEF Handling

LEMMA UpdateOutcome ==
  ASSUME NEW h \in Handling, NEW pc \in WorkerPc, NEW outcome \in Outcome
  PROVE  [h EXCEPT !.pc = pc, !.outcome = outcome] \in Handling
  BY DEF Handling

LEMMA UpdateResult ==
  ASSUME NEW h \in Handling, NEW pc \in WorkerPc, NEW outcome \in Outcome,
         NEW request \in 0..MaxCharges
  PROVE  [h EXCEPT !.pc = pc, !.outcome = outcome, !.request = request] \in Handling
  BY DEF Handling

(* The two ends of a handling.                                             *)
LEMMA EndTypes ==
  ASSUME TypeInv, NEW w \in Workers, Done(w) \/ RetryDelivery(w),
         Done(w) => worker[w].pc # "idle"
  PROVE  \E h \in Handling : GoodHandling(h) /\ Becomes(w, h)
<1>1. worker[w] \in Handling /\ GoodHandling(worker[w])
  BY DEF TypeInv, TypeOK, WellFormed
<1>2. CASE Done(w)
  <2>1. Handle("ack", worker[w].msg, None) \in Handling
    BY <1>1, ConstantsAssumption DEF Handle, Handling, WorkerPc, Outcome
  <2>2. GoodHandling(Handle("ack", worker[w].msg, None))
    BY <1>1, <1>2 DEF GoodHandling, Handle, Claimed
  <2> QED BY <1>2, <2>1, <2>2 DEF Done
<1>3. CASE RetryDelivery(w)
  <2>1. Handle("idle", None, None) \in Handling
    BY ConstantsAssumption DEF Handle, Handling, WorkerPc, Outcome
  <2>2. GoodHandling(Handle("idle", None, None))
    BY DEF GoodHandling, Handle, Claimed
  <2> QED BY <1>3, <2>1, <2>2 DEF RetryDelivery
<1> QED BY <1>2, <1>3

(* A dispatcher run that publishes: one message is sent, or none.          *)
LEMMA SendTypes ==
  ASSUME TypeInv, NEW j \in Jobs, Send(j)
  PROVE  queue' \in [Messages -> Slot] /\ \A m \in Messages : GoodSlot(queue'[m])
<1>1. PICK m \in Messages :
        queue' = [queue EXCEPT ![m] =
                    [state |-> "visible", job |-> j, receives |-> 0]]
  BY DEF Send
<1> DEFINE slot == [state |-> "visible", job |-> j, receives |-> 0]
<1>2. slot \in Slot /\ GoodSlot(slot)
  BY ConstantsAssumption DEF Slot, GoodSlot
<1> HIDE DEF slot
<1> QED BY <1>1, <1>2 DEF TypeInv, TypeOK, WellFormed, slot

LEMMA RestType == \A batch \in SUBSET Jobs : Rest(batch) \in DispatcherRun
  BY DEF Rest, IdleRun, DispatcherRun

LEMMA RunType ==
  ASSUME NEW run \in DispatcherRun, NEW j \in Jobs
  PROVE  /\ [run EXCEPT !.todo = @ \ {j}, !.acked = @ \cup {j}] \in DispatcherRun
         /\ [run EXCEPT !.todo = @ \ {j}] \in DispatcherRun
<1> DEFINE todo == run.todo \ {j}
           acked == run.acked \cup {j}
<1>1. todo \in SUBSET Jobs /\ acked \in SUBSET Jobs
  BY DEF DispatcherRun
<1> HIDE DEF todo, acked
<1>2. [run EXCEPT !.todo = todo, !.acked = acked] \in DispatcherRun
  BY <1>1 DEF DispatcherRun
<1>3. [run EXCEPT !.todo = todo] \in DispatcherRun
  BY <1>1 DEF DispatcherRun
<1> QED BY <1>2, <1>3 DEF todo, acked

LEMMA DispatcherTypes ==
  ASSUME TypeInv, NEW d \in Dispatchers, DispatcherNext(d) \/ CrashDispatcher(d)
  PROVE  TypeInv'
<1>1. dispatcher[d] \in DispatcherRun /\ dispatcher[d].batch \in SUBSET Jobs
  BY DEF TypeInv, TypeOK, DispatcherRun
<1>2. CASE ClaimOutbox(d)
  <2>1. PICK batch \in SUBSET Jobs :
          /\ outbox' = [j \in Jobs |->
               IF j \in batch THEN [outbox[j] EXCEPT !.token = d, !.lease = "held"]
                              ELSE outbox[j]]
          /\ dispatcher' = [dispatcher EXCEPT ![d] =
               [pc |-> "publishing", batch |-> batch, todo |-> batch, acked |-> {}]]
    BY <1>2 DEF ClaimOutbox
  <2>2. \A j \in Jobs : [outbox[j] EXCEPT !.token = d, !.lease = "held"] \in OutboxRow
    BY DEF TypeInv, TypeOK, OutboxRow, Lease
  <2>3. outbox' \in [Jobs -> OutboxRow]
    BY <2>1, <2>2 DEF TypeInv, TypeOK
  <2>4. dispatcher' \in [Dispatchers -> DispatcherRun]
    BY <2>1 DEF TypeInv, TypeOK, DispatcherRun
  <2> QED BY <1>2, <2>3, <2>4 DEF ClaimOutbox, TypeInv, TypeOK, WellFormed, sqs, paid
<1>3. CASE MarkPublished(d)
  <2> DEFINE done == Acknowledged(d)
  <2>1. /\ outbox' = [j \in Jobs |->
             IF j \in done THEN [published |-> TRUE, token |-> None, lease |-> "none"]
             ELSE outbox[j]]
        /\ job' = [j \in Jobs |->
             IF j \in done THEN [job[j] EXCEPT !.status = "QUEUED"] ELSE job[j]]
        /\ dispatcher' = [dispatcher EXCEPT ![d] = Rest(dispatcher[d].batch \ done)]
    BY <1>3 DEF MarkPublished
  <2> HIDE DEF done
  <2>2. outbox' \in [Jobs -> OutboxRow]
    BY <2>1 DEF TypeInv, TypeOK, OutboxRow, Lease
  <2>3. \A j \in Jobs : [job[j] EXCEPT !.status = "QUEUED"] \in JobRow
    BY DEF TypeInv, TypeOK, JobRow, Active
  <2>4. job' \in [Jobs -> JobRow]
    BY <2>1, <2>3 DEF TypeInv, TypeOK
  <2>5. dispatcher' \in [Dispatchers -> DispatcherRun]
    BY <1>1, <2>1, RestType DEF TypeInv, TypeOK
  <2> QED BY <1>3, <2>2, <2>4, <2>5
          DEF MarkPublished, TypeInv, TypeOK, WellFormed, sqs, paid
<1>4. CASE MarkUnavailable(d)
  BY <1>1, <1>4, RestType
  DEF MarkUnavailable, TypeInv, TypeOK, WellFormed, rows, sqs, paid
<1>5. ASSUME NEW j \in Jobs, Release(d, j) PROVE TypeInv'
  <2>1. outbox[j] \in OutboxRow
    BY DEF TypeInv, TypeOK
  <2>2. [outbox[j] EXCEPT !.token = None, !.lease = "none"] \in OutboxRow
    BY <2>1 DEF OutboxRow, Lease
  <2>3. outbox' \in [Jobs -> OutboxRow]
    BY <1>5, <2>2 DEF Release, TypeInv, TypeOK
  <2>4. dispatcher' \in [Dispatchers -> DispatcherRun]
    BY <1>1, <1>5, RestType DEF Release, TypeInv, TypeOK
  <2> QED BY <1>5, <2>3, <2>4 DEF Release, TypeInv, TypeOK, WellFormed, sqs, paid
<1>6. ASSUME NEW j \in Jobs,
             PublishAccepted(d, j) \/ PublishUncertain(d, j) \/ PublishRefused(d, j)
      PROVE  TypeInv'
  <2>1. LET run == dispatcher[d] IN
        /\ [run EXCEPT !.todo = @ \ {j}, !.acked = @ \cup {j}] \in DispatcherRun
        /\ [run EXCEPT !.todo = @ \ {j}] \in DispatcherRun
    BY <1>1, <1>6, RunType
  <2>2. dispatcher' \in [Dispatchers -> DispatcherRun]
    BY <1>6, <2>1
    DEF PublishAccepted, PublishUncertain, PublishRefused, TypeInv, TypeOK
  <2>3. queue' \in [Messages -> Slot] /\ \A m \in Messages : GoodSlot(queue'[m])
    BY <1>6, SendTypes
    DEF PublishAccepted, PublishUncertain, PublishRefused, TypeInv, TypeOK,
        WellFormed, sqs
  <2> QED BY <1>6, <2>2, <2>3
          DEF PublishAccepted, PublishUncertain, PublishRefused, TypeInv, TypeOK,
              WellFormed, rows, sqs, paid
<1>7. CASE CrashDispatcher(d)
  BY <1>7 DEF CrashDispatcher, IdleRun, DispatcherRun, TypeInv, TypeOK, WellFormed,
              rows, sqs, paid
<1> QED BY <1>2, <1>3, <1>4, <1>5, <1>6, <1>7 DEF DispatcherNext

LEMMA SlotTypes ==
  ASSUME NEW slot \in Slot, GoodSlot(slot)
  PROVE  /\ slot.receives < MaxReceives =>
              /\ [slot EXCEPT !.state = "visible"] \in Slot
              /\ slot.state = "inflight" => GoodSlot([slot EXCEPT !.state = "visible"])
         /\ slot.state = "visible" =>
              LET next == [slot EXCEPT !.state = "inflight", !.receives = @ + 1] IN
                next \in Slot /\ GoodSlot(next)
<1>1. [slot EXCEPT !.state = "visible"] \in Slot
  BY DEF Slot
<1>2. slot.receives < MaxReceives /\ slot.state = "inflight"
        => GoodSlot([slot EXCEPT !.state = "visible"])
  BY DEF Slot, GoodSlot
<1>3. ASSUME slot.state = "visible"
      PROVE  LET next == [slot EXCEPT !.state = "inflight", !.receives = @ + 1] IN
                next \in Slot /\ GoodSlot(next)
  <2>1. slot.receives + 1 \in 0..MaxReceives
    BY <1>3, ConstantsAssumption DEF Slot, GoodSlot
  <2> DEFINE n == slot.receives + 1
  <2>2. n \in 0..MaxReceives
    BY <2>1
  <2> HIDE DEF n
  <2>3. [slot EXCEPT !.state = "inflight", !.receives = n] \in Slot
    BY <2>2 DEF Slot
  <2>4. GoodSlot([slot EXCEPT !.state = "inflight", !.receives = n])
    BY <1>3 DEF Slot, GoodSlot
  <2> QED BY <2>3, <2>4 DEF n
<1> QED BY <1>1, <1>2, <1>3

LEMMA ClockTypes ==
  ASSUME TypeInv, NEW j \in Jobs,
         OutboxLeaseExpires(j) \/ LeaseExpires(j) \/ Redrive(j)
  PROVE  TypeInv'
<1>1. CASE OutboxLeaseExpires(j)
  <2>1. [outbox[j] EXCEPT !.lease = "expired"] \in OutboxRow
    BY DEF TypeInv, TypeOK, OutboxRow, Lease
  <2>2. outbox' \in [Jobs -> OutboxRow]
    BY <1>1, <2>1 DEF OutboxLeaseExpires, TypeInv, TypeOK
  <2> QED BY <1>1, <2>2 DEF OutboxLeaseExpires, TypeInv, TypeOK, WellFormed, sqs, paid
<1>2. CASE LeaseExpires(j)
  <2>1. [job[j] EXCEPT !.lease = "expired"] \in JobRow
    BY DEF TypeInv, TypeOK, JobRow, Lease
  <2>2. job' \in [Jobs -> JobRow]
    BY <1>2, <2>1 DEF LeaseExpires, TypeInv, TypeOK
  <2> QED BY <1>2, <2>2 DEF LeaseExpires, TypeInv, TypeOK, WellFormed, sqs, paid
<1>3. CASE Redrive(j)
  BY <1>3, SendTypes DEF Redrive, TypeInv, TypeOK, WellFormed, rows, paid
<1> QED BY <1>1, <1>2, <1>3

LEMMA QueueTypes ==
  ASSUME TypeInv, NEW m \in Messages,
         VisibilityTimeout(m) \/ \E w \in Workers : Receive(w, m)
  PROVE  TypeInv'
<1>1. CASE VisibilityTimeout(m)
  <2>1. queue[m] \in Slot /\ GoodSlot(queue[m])
    BY DEF TypeInv, TypeOK, WellFormed
  <2>2. FreeSlot \in Slot /\ GoodSlot(FreeSlot)
    BY ConstantsAssumption DEF FreeSlot, Slot, GoodSlot
  <2>3. ReceivesLeft(m) => /\ [queue[m] EXCEPT !.state = "visible"] \in Slot
                           /\ GoodSlot([queue[m] EXCEPT !.state = "visible"])
    BY <1>1, <2>1, SlotTypes DEF VisibilityTimeout, ReceivesLeft
  <2>4. queue' \in [Messages -> Slot] /\ \A k \in Messages : GoodSlot(queue'[k])
    BY <1>1, <2>2, <2>3 DEF VisibilityTimeout, TypeInv, TypeOK, WellFormed
  <2>5. dlq' \subseteq Jobs
    BY <1>1, <2>1 DEF VisibilityTimeout, TypeInv, TypeOK, GoodSlot
  <2> QED BY <1>1, <2>4, <2>5
          DEF VisibilityTimeout, TypeInv, TypeOK, WellFormed, rows, paid
<1>2. ASSUME NEW w \in Workers, Receive(w, m) PROVE TypeInv'
  <2>1. queue[m] \in Slot /\ GoodSlot(queue[m])
    BY DEF TypeInv, TypeOK, WellFormed
  <2> DEFINE h == Handle("received", m, queue[m].job)
             slot == [queue[m] EXCEPT !.state = "inflight", !.receives = @ + 1]
  <2>2. h \in Handling /\ GoodHandling(h)
    BY <1>2, <2>1, ConstantsAssumption
    DEF Receive, Slot, GoodSlot, Handle, Handling, GoodHandling, WorkerPc, Outcome,
        Claimed
  <2>3. slot \in Slot /\ GoodSlot(slot)
    BY <1>2, <2>1, SlotTypes DEF Receive
  <2>4. queue' = [queue EXCEPT ![m] = slot] /\ Becomes(w, h)
    BY <1>2 DEF Receive
  <2> HIDE DEF h, slot
  <2>5. worker' \in [Workers -> Handling] /\ \A v \in Workers : GoodHandling(worker'[v])
    BY <2>2, <2>4, HandlingTypes
  <2>6. queue' \in [Messages -> Slot] /\ \A k \in Messages : GoodSlot(queue'[k])
    BY <2>3, <2>4 DEF TypeInv, TypeOK, WellFormed
  <2> QED BY <1>2, <2>5, <2>6 DEF Receive, TypeInv, TypeOK, WellFormed, rows, paid
<1> QED BY <1>1, <1>2

LEMMA DeleteTypes ==
  ASSUME TypeInv, NEW w \in Workers, DeleteMessage(w)
  PROVE  TypeInv'
<1>1. worker[w].msg \in Messages
  BY DEF DeleteMessage, TypeInv, TypeOK, WellFormed, GoodHandling
<1>2. FreeSlot \in Slot /\ GoodSlot(FreeSlot)
  BY ConstantsAssumption DEF FreeSlot, Slot, GoodSlot
<1>3. queue' \in [Messages -> Slot] /\ \A k \in Messages : GoodSlot(queue'[k])
  BY <1>1, <1>2 DEF DeleteMessage, TypeInv, TypeOK, WellFormed
<1>4. PICK h \in Handling : GoodHandling(h) /\ Becomes(w, h)
  BY EndTypes DEF DeleteMessage
<1>5. worker' \in [Workers -> Handling] /\ \A v \in Workers : GoodHandling(worker'[v])
  BY <1>4, HandlingTypes
<1> QED BY <1>3, <1>5
        DEF DeleteMessage, TypeInv, TypeOK, WellFormed, rows, paid

LEMMA ClosedType ==
  ASSUME NEW rowsOfJob \in [1..MaxAttempts -> AttemptRow], NEW n
  PROVE  CloseAttempt(rowsOfJob, n) \in [1..MaxAttempts -> AttemptRow]
<1>1. \A row \in AttemptRow : [row EXCEPT !.status = "FAILED"] \in AttemptRow
  BY DEF AttemptRow
<1>2. CASE n \in 1..MaxAttempts /\ rowsOfJob[n].status = "STARTED"
  BY <1>1, <1>2 DEF CloseAttempt
<1>3. CASE ~(n \in 1..MaxAttempts /\ rowsOfJob[n].status = "STARTED")
  BY <1>3 DEF CloseAttempt
<1> QED BY <1>2, <1>3

LEMMA ClaimTypes ==
  ASSUME TypeInv, NEW w \in Workers, ClaimNext(w)
  PROVE  TypeInv'
<1> DEFINE j == worker[w].job
<1>1. worker[w] \in Handling /\ GoodHandling(worker[w])
  BY DEF TypeInv, TypeOK, WellFormed
<1>2. CASE IgnoreTerminal(w) \/ GiveUpClaim(w) \/ ClaimRefused(w)
  BY <1>2, EndTypes, WorkerOnly DEF IgnoreTerminal, GiveUpClaim, ClaimRefused
<1>3. ASSUME NEW pc \in {"claim", "exhaust"}, NEW seen \in {"QUEUED", "EXPIRED"},
             worker[w].pc = "received", ReadAs(w, pc, seen)
      PROVE  TypeInv'
  <2> DEFINE n == job[worker[w].job].attempts
  <2>1. n \in 0..MaxAttempts
    BY <1>1, <1>3 DEF GoodHandling, TypeInv, TypeOK, JobRow
  <2>2. Becomes(w, [worker[w] EXCEPT !.pc = pc, !.n = n, !.seen = seen])
    BY <1>3 DEF ReadAs
  <2> HIDE DEF n
  <2>3. [worker[w] EXCEPT !.pc = pc, !.n = n, !.seen = seen] \in Handling
    BY <1>1, <2>1, UpdateRead DEF WorkerPc
  <2>4. GoodHandling([worker[w] EXCEPT !.pc = pc, !.n = n, !.seen = seen])
    BY <1>1, <1>3 DEF GoodHandling, Handling, Claimed
  <2> QED BY <1>3, <2>2, <2>3, <2>4, WorkerOnly DEF ReadAs
<1>4. CASE ReadQueued(w) \/ ReadExpired(w) \/ ReadExhausted(w)
  BY <1>3, <1>4 DEF ReadQueued, ReadExpired, ReadExhausted
<1>5. CASE FailExhausted(w)
  <2>1. j \in Jobs
    BY <1>1, <1>5 DEF FailExhausted, GoodHandling
  <2>2. \A row \in JobRow : Unclaimed(row, "FAILED") \in JobRow
    BY DEF Unclaimed, JobRow, Terminal, Lease
  <2>3. job' \in [Jobs -> JobRow]
    BY <1>5, <2>1, <2>2 DEF FailExhausted, TypeInv, TypeOK
  <2>4. attempt' \in [Jobs -> [1..MaxAttempts -> AttemptRow]]
    BY <1>5, <2>1, ClosedType DEF FailExhausted, TypeInv, TypeOK
  <2>5. vehicle' \in {"PROCESSING", "READY", "PARTIALLY_FAILED"}
    BY <1>5 DEF FailExhausted, VehicleAfter, TypeInv, TypeOK
  <2>6. worker' \in [Workers -> Handling] /\ \A v \in Workers : GoodHandling(worker'[v])
    BY <1>5, EndTypes, HandlingTypes DEF FailExhausted
  <2> QED BY <1>5, <2>3, <2>4, <2>5, <2>6
          DEF FailExhausted, TypeInv, TypeOK, WellFormed, sqs, paid
<1>6. CASE Claim(w)
  <2> DEFINE n == worker[w].n + 1
             row == [status |-> "PROCESSING", attempts |-> job[j].attempts + 1,
                     worker |-> w, lease |-> "held"]
             closed == IF worker[w].seen = "EXPIRED"
                       THEN CloseAttempt(attempt[j], worker[w].n) ELSE attempt[j]
             h == [worker[w] EXCEPT !.pc = "source", !.n = n, !.seen = "none"]
  <2>1. j \in Jobs /\ n \in 1..MaxAttempts
    BY <1>1, <1>6, ConstantsAssumption DEF Claim, GoodHandling, Handling
  <2>2. job[j] \in JobRow /\ job[j].attempts < MaxAttempts
    BY <1>6, <2>1 DEF Claim, TypeInv, TypeOK
  <2>3. row \in JobRow
    BY <2>2, ConstantsAssumption DEF JobRow, Active, Lease
  <2>4. closed \in [1..MaxAttempts -> AttemptRow]
    BY <2>1, ClosedType DEF TypeInv, TypeOK
  <2>5. [status |-> "STARTED", request |-> 0] \in AttemptRow
    BY ConstantsAssumption DEF AttemptRow
  <2>6. /\ job' = [job EXCEPT ![j] = row]
        /\ attempt' = [attempt EXCEPT ![j] =
             [closed EXCEPT ![n] = [status |-> "STARTED", request |-> 0]]]
        /\ Becomes(w, h)
    BY <1>6 DEF Claim
  <2>7. h \in Handling /\ GoodHandling(h)
    <3>0. n \in 0..MaxAttempts /\ "source" \in WorkerPc
      BY <2>1 DEF WorkerPc
    <3> HIDE DEF n
    <3>1. h \in Handling
      BY <1>1, <3>0, UpdateRead
    <3>2. GoodHandling(h)
      BY <1>1, <1>6, <2>1 DEF GoodHandling, Handling, Claim
    <3> QED BY <3>1, <3>2
  <2> HIDE DEF n, row, closed, h
  <2>8. job' \in [Jobs -> JobRow]
    BY <2>3, <2>6 DEF TypeInv, TypeOK
  <2>9. attempt' \in [Jobs -> [1..MaxAttempts -> AttemptRow]]
    BY <2>1, <2>4, <2>5, <2>6 DEF TypeInv, TypeOK
  <2>10. worker' \in [Workers -> Handling] /\ \A v \in Workers : GoodHandling(worker'[v])
    BY <2>6, <2>7, HandlingTypes
  <2> QED BY <1>6, <2>8, <2>9, <2>10 DEF Claim, TypeInv, TypeOK, WellFormed, sqs, paid
<1> QED BY <1>2, <1>4, <1>5, <1>6 DEF ClaimNext

LEMMA ExecuteTypes ==
  ASSUME TypeInv, NEW w \in Workers, ExecuteNext(w)
  PROVE  TypeInv'
<1> DEFINE j == worker[w].job
<1>1. worker[w] \in Handling /\ GoodHandling(worker[w])
  BY DEF TypeInv, TypeOK, WellFormed
<1>2. 0 \in 0..MaxCharges
  BY ConstantsAssumption
<1>3. ASSUME worker[w].pc \in {"source", "pay", "stage", "render"},
             NEW outcome \in Outcome, NEW request \in 0..MaxCharges,
             Result(w, outcome, request)
      PROVE  \E h \in Handling : GoodHandling(h) /\ Becomes(w, h)
  <2> DEFINE h == [worker[w] EXCEPT !.pc = "finish", !.outcome = outcome,
                                   !.request = request]
  <2>1. h \in Handling
    <3>1. "finish" \in WorkerPc
      BY DEF WorkerPc
    <3> QED BY <1>1, <3>1, UpdateResult
  <2>2. GoodHandling(h)
    BY <1>1, <1>3 DEF GoodHandling, Handling, Claimed
  <2> QED BY <1>3, <2>1, <2>2 DEF Result
<1>4. ASSUME worker[w].pc \in {"source", "stage"},
             NEW pc \in {"pay", "render"}, Becomes(w, [worker[w] EXCEPT !.pc = pc])
      PROVE  \E h \in Handling : GoodHandling(h) /\ Becomes(w, h)
  <2>1. [worker[w] EXCEPT !.pc = pc] \in Handling
    BY <1>1, UpdatePc DEF WorkerPc
  <2>2. GoodHandling([worker[w] EXCEPT !.pc = pc])
    BY <1>1, <1>4 DEF GoodHandling, Handling, Claimed
  <2> QED BY <1>4, <2>1, <2>2
<1>5. ASSUME worker[w].pc \in {"source", "pay"}, NEW pc \in {"render", "stage"},
             NEW request \in 0..MaxCharges,
             Becomes(w, [worker[w] EXCEPT !.pc = pc, !.request = request])
      PROVE  \E h \in Handling : GoodHandling(h) /\ Becomes(w, h)
  <2>1. [worker[w] EXCEPT !.pc = pc, !.request = request] \in Handling
    BY <1>1, UpdateRequest DEF WorkerPc
  <2>2. GoodHandling([worker[w] EXCEPT !.pc = pc, !.request = request])
    BY <1>1, <1>5 DEF GoodHandling, Handling, Claimed
  <2> QED BY <1>5, <2>1, <2>2
<1>6. CASE SourceFails(w) \/ ProviderRefuses(w) \/ StageFails(w)
  BY <1>2, <1>3, <1>6, WorkerOnly DEF SourceFails, ProviderRefuses, StageFails, Outcome
<1>7. CASE Render(w)
  <2>1. worker[w].request \in 0..MaxCharges
    BY <1>1 DEF Handling
  <2> QED BY <1>3, <1>7, <2>1, WorkerOnly DEF Render, Outcome
<1>8. CASE SkipProvider(w) \/ FindNothingStaged(w)
  BY <1>4, <1>8, WorkerOnly DEF SkipProvider, FindNothingStaged, Continue
<1>9. CASE ReuseStaged(w)
  <2>1. staged[j] \in 0..MaxCharges
    BY <1>1, <1>9 DEF ReuseStaged, GoodHandling, TypeInv, TypeOK
  <2> QED BY <1>5, <1>9, <2>1, WorkerOnly DEF ReuseStaged
<1>10. CASE PayProvider(w)
  <2> DEFINE request == charges[j] + 1
  <2>1. j \in Jobs /\ worker[w].pc = "pay"
    BY <1>1, <1>10 DEF PayProvider, GoodHandling
  <2>2. request \in 0..MaxCharges
    BY <1>10, <2>1, ConstantsAssumption DEF PayProvider, TypeInv, TypeOK
  <2>3. /\ charges' = [charges EXCEPT ![j] = request]
        /\ \/ Becomes(w, [worker[w] EXCEPT !.pc = "stage", !.request = request])
           \/ \E outcome \in {"retry", "terminal"}, known \in {0, request} :
                Result(w, outcome, known)
        /\ UNCHANGED <<rows, dispatcher, sqs, staged>>
    BY <1>10 DEF PayProvider
  <2> HIDE DEF request
  <2>4. PICK h \in Handling : GoodHandling(h) /\ Becomes(w, h)
    BY <1>2, <1>3, <1>5, <2>1, <2>2, <2>3 DEF Outcome
  <2>5. worker' \in [Workers -> Handling] /\ \A v \in Workers : GoodHandling(worker'[v])
    BY <2>4, HandlingTypes
  <2>6. charges' \in [Jobs -> 0..MaxCharges]
    BY <2>2, <2>3 DEF TypeInv, TypeOK
  <2> QED BY <2>3, <2>5, <2>6 DEF TypeInv, TypeOK, WellFormed, rows, sqs
<1>11. CASE Stage(w)
  <2>1. worker[w].request \in 0..MaxCharges
    BY <1>1 DEF Handling
  <2>2. staged' \in [Jobs -> 0..MaxCharges]
    BY <1>11, <2>1 DEF Stage, TypeInv, TypeOK
  <2>3. PICK h \in Handling : GoodHandling(h) /\ Becomes(w, h)
    BY <1>4, <1>11 DEF Stage
  <2>4. worker' \in [Workers -> Handling] /\ \A v \in Workers : GoodHandling(worker'[v])
    BY <2>3, HandlingTypes
  <2> QED BY <1>11, <2>2, <2>4 DEF Stage, TypeInv, TypeOK, WellFormed, rows, sqs
<1> QED BY <1>6, <1>7, <1>8, <1>9, <1>10, <1>11 DEF ExecuteNext

LEMMA FinishedType ==
  ASSUME TypeInv, NEW w \in Workers, worker[w].pc \in Claimed,
         NEW status \in {"SUCCEEDED", "FAILED"}
  PROVE  FinishAttempt(w, status) \in [Jobs -> [1..MaxAttempts -> AttemptRow]]
<1> DEFINE row == [status |-> status, request |-> worker[w].request]
<1>1. worker[w].job \in Jobs /\ worker[w].n \in 1..MaxAttempts
  BY DEF TypeInv, WellFormed, GoodHandling, Claimed
<1>2. row \in AttemptRow
  BY DEF AttemptRow, TypeInv, TypeOK, Handling
<1> HIDE DEF row
<1>3. FinishAttempt(w, status) =
        IF attempt[worker[w].job][worker[w].n].status = "STARTED"
        THEN [attempt EXCEPT ![worker[w].job][worker[w].n] = row] ELSE attempt
  BY DEF FinishAttempt, row
<1> QED BY <1>1, <1>2, <1>3 DEF TypeInv, TypeOK

LEMMA FinishTypes ==
  ASSUME TypeInv, NEW w \in Workers, FinishNext(w)
  PROVE  TypeInv'
<1> DEFINE j == worker[w].job
<1>1. worker[w] \in Handling /\ GoodHandling(worker[w])
  BY DEF TypeInv, TypeOK, WellFormed
<1>2. ASSUME NEW pc \in {"complete", "fail"}, NEW outcome \in Outcome,
             ReadOwned(w, pc, outcome)
      PROVE  TypeInv'
  <2> DEFINE h == [worker[w] EXCEPT !.pc = pc, !.outcome = outcome]
  <2>1. h \in Handling
    BY <1>1, UpdateOutcome DEF WorkerPc
  <2>2. GoodHandling(h)
    BY <1>1, <1>2 DEF ReadOwned, GoodHandling, Handling, Claimed
  <2> QED BY <1>2, <2>1, <2>2, WorkerOnly DEF ReadOwned
<1>3. CASE ReadForCompletion(w) \/ ReadForRetry(w) \/ ReadForFailure(w)
  BY <1>2, <1>3 DEF ReadForCompletion, ReadForRetry, ReadForFailure, Outcome
<1>4. CASE ReadAlreadyCompleted(w) \/ ReadClaimLost(w) \/ FinishAborts(w)
  BY <1>4, EndTypes, WorkerOnly DEF ReadAlreadyCompleted, ReadClaimLost, FinishAborts
<1>5. ASSUME worker[w].pc \in {"complete", "fail"}, Done(w)
      PROVE  /\ worker' \in [Workers -> Handling]
             /\ \A v \in Workers : GoodHandling(worker'[v])
             /\ j \in Jobs
  BY <1>1, <1>5, EndTypes, HandlingTypes DEF GoodHandling
<1>6. ASSUME NEW status \in {"COMPLETED", "RETRYING", "FAILED"}, j \in Jobs
      PROVE  [job EXCEPT ![j] = Unclaimed(@, status)] \in [Jobs -> JobRow]
  <2>1. \A row \in JobRow : Unclaimed(row, status) \in JobRow
    BY <1>6 DEF Unclaimed, JobRow, Active, Waiting, Terminal, Lease
  <2> QED BY <1>6, <2>1 DEF TypeInv, TypeOK
<1>7. CASE CompleteJob(w)
  <2>1. job' \in [Jobs -> JobRow]
    BY <1>5, <1>6, <1>7 DEF CompleteJob
  <2>2. attempt' \in [Jobs -> [1..MaxAttempts -> AttemptRow]]
    BY <1>7, FinishedType DEF CompleteJob, Claimed
  <2>3. vehicle' \in {"PROCESSING", "READY", "PARTIALLY_FAILED"}
    BY <1>7 DEF CompleteJob, VehicleAfter, TypeInv, TypeOK
  <2> QED BY <1>5, <1>7, <2>1, <2>2, <2>3
          DEF CompleteJob, TypeInv, TypeOK, WellFormed, sqs, paid
<1>8. CASE RescheduleJob(w)
  <2>1. job' \in [Jobs -> JobRow]
    BY <1>5, <1>6, <1>8 DEF RescheduleJob
  <2>2. attempt' \in [Jobs -> [1..MaxAttempts -> AttemptRow]]
    BY <1>8, FinishedType DEF RescheduleJob, Claimed
  <2>3. [published |-> FALSE, token |-> None, lease |-> "none"] \in OutboxRow
    BY DEF OutboxRow, Lease
  <2>4. outbox' \in [Jobs -> OutboxRow]
    BY <1>8, <2>3 DEF RescheduleJob, TypeInv, TypeOK
  <2> QED BY <1>5, <1>8, <2>1, <2>2, <2>4
          DEF RescheduleJob, TypeInv, TypeOK, WellFormed, sqs, paid
<1>9. CASE FailJob(w)
  <2>1. job' \in [Jobs -> JobRow]
    BY <1>5, <1>6, <1>9 DEF FailJob
  <2>2. attempt' \in [Jobs -> [1..MaxAttempts -> AttemptRow]]
    BY <1>9, FinishedType DEF FailJob, Claimed
  <2>3. vehicle' \in {"PROCESSING", "READY", "PARTIALLY_FAILED"}
    BY <1>9 DEF FailJob, VehicleAfter, TypeInv, TypeOK
  <2>4. invalid' \subseteq Jobs
    BY <1>5, <1>9 DEF FailJob, TypeInv, TypeOK
  <2> QED BY <1>5, <1>9, <2>1, <2>2, <2>3, <2>4
          DEF FailJob, TypeInv, TypeOK, WellFormed, sqs, paid
<1>10. CASE DeleteMessage(w)
  BY <1>10, DeleteTypes
<1> QED BY <1>3, <1>4, <1>7, <1>8, <1>9, <1>10 DEF FinishNext

LEMMA TypeInvStep == TypeInv /\ [Next]_vars => TypeInv'
<1> SUFFICES ASSUME TypeInv, [Next]_vars PROVE TypeInv'
  OBVIOUS
<1>1. ASSUME NEW d \in Dispatchers, DispatcherNext(d) \/ CrashDispatcher(d)
      PROVE  TypeInv'
  BY <1>1, DispatcherTypes
<1>2. ASSUME NEW j \in Jobs, OutboxLeaseExpires(j) \/ LeaseExpires(j) \/ Redrive(j)
      PROVE  TypeInv'
  BY <1>2, ClockTypes
<1>3. ASSUME NEW m \in Messages,
             VisibilityTimeout(m) \/ \E w \in Workers : Receive(w, m)
      PROVE  TypeInv'
  BY <1>3, QueueTypes
<1>4. ASSUME NEW w \in Workers, WorkerNext(w) PROVE TypeInv'
  BY <1>4, ClaimTypes, ExecuteTypes, FinishTypes DEF WorkerNext
<1>5. ASSUME NEW w \in Workers, CrashWorker(w) PROVE TypeInv'
  BY <1>5, EndTypes, WorkerOnly DEF CrashWorker
<1>6. CASE UNCHANGED vars
  BY <1>6 DEF vars, TypeInv, TypeOK, WellFormed
<1> QED BY <1>1, <1>2, <1>3, <1>4, <1>5, <1>6 DEF Next

(* Every reachable state is well typed and well formed.                    *)
THEOREM TypeInvariance == Spec => []TypeInv
  BY TypeInvInit, TypeInvStep, PTL DEF Spec

(* Every reachable state is well typed: no counter leaves its range, and    *)
(* no handling, message or row refers to anything that does not exist.     *)
THEOREM TypeCorrectness == Spec => []TypeOK
<1>1. TypeInv => TypeOK
  BY DEF TypeInv
<1> QED BY <1>1, TypeInvariance, PTL
-----------------------------------------------------------------------------

(* A message of job j will be delivered again, or waits in the dead-letter  *)
(* queue: no handling has acknowledged it.                                 *)
Deliverable(j) ==
  \/ j \in dlq
  \/ \E m \in Messages :
       /\ queue[m].state # "free" /\ queue[m].job = j
       /\ \A w \in Workers : worker[w].msg = m => worker[w].pc # "ack"

(* A handling's message, while it is in the queue, is about its job.       *)
OwnMessage ==
  \A w \in Workers : worker[w].pc \notin {"idle", "ack"} =>
    LET slot == queue[worker[w].msg] IN
      slot.state = "free" \/ slot.job = worker[w].job

(* A dispatcher that may record a job as published has sent its message.   *)
SentBeforeRecorded ==
  \A d \in Dispatchers, j \in Jobs :
    /\ dispatcher[d].pc = "publishing" /\ j \in dispatcher[d].acked
    /\ outbox[j].token = d /\ ~outbox[j].published /\ job[j].status \in Waiting
    => Deliverable(j)

Published ==
  \A j \in Jobs :
    /\ job[j].status \in Waiting => ~outbox[j].published
    /\ job[j].status \in {"QUEUED", "PROCESSING"} =>
         outbox[j].published /\ Deliverable(j)

StrandInv == OwnMessage /\ SentBeforeRecorded /\ Published
-----------------------------------------------------------------------------
LEMMA StrandInvImplies == TypeInv /\ StrandInv => NeverStranded
  BY DEF StrandInv, Published, Deliverable, NeverStranded

LEMMA StrandInvInit == Init => StrandInv
  BY DEF Init, Handle, IdleRun, StrandInv, OwnMessage, SentBeforeRecorded, Published,
         Waiting

(* A handling moves on, or gives its message up, or acknowledges it because *)
(* its job needs it no more: a deliverable job stays deliverable.          *)
LEMMA DeliverableKept ==
  ASSUME TypeInv, StrandInv, NEW w \in Workers, NEW h, Becomes(w, h),
         UNCHANGED sqs, NEW j \in Jobs, Deliverable(j),
         h.pc = "ack" => /\ worker[w].pc \notin {"idle", "ack"}
                         /\ h.msg = worker[w].msg /\ worker[w].job # j
  PROVE  Deliverable(j)'
<1>1. queue' = queue /\ dlq' = dlq
  BY DEF sqs
<1>2. worker' = [worker EXCEPT ![w] = h] /\ worker \in [Workers -> Handling]
  BY DEF Becomes, TypeInv, TypeOK
<1>3. CASE j \in dlq
  BY <1>1, <1>3 DEF Deliverable
<1>4. CASE j \notin dlq
  <2>1. PICK m \in Messages :
          /\ queue[m].state # "free" /\ queue[m].job = j
          /\ \A v \in Workers : worker[v].msg = m => worker[v].pc # "ack"
    BY <1>4 DEF Deliverable
  <2>2. h.pc = "ack" => h.msg # m
    BY <2>1 DEF StrandInv, OwnMessage
  <2>3. \A v \in Workers : worker'[v].msg = m => worker'[v].pc # "ack"
    BY <1>2, <2>1, <2>2
  <2> QED BY <1>1, <2>1, <2>3 DEF Deliverable
<1> QED BY <1>3, <1>4

(* The same, for the steps that leave the outbox alone.                    *)
LEMMA HandlingKeeps ==
  ASSUME TypeInv, StrandInv, NEW w \in Workers, NEW h, Becomes(w, h),
         UNCHANGED <<outbox, dispatcher, sqs>>,
         worker[w].pc \notin {"idle", "ack"},
         NEW row, job' = [job EXCEPT ![worker[w].job] = row],
         \/ row.status \in Terminal
         \/ row.status = job[worker[w].job].status
         \/ /\ row.status = "PROCESSING"
            /\ job[worker[w].job].status \in {"QUEUED", "PROCESSING"},
         h.pc = "ack" => h.msg = worker[w].msg /\ row.status \in Terminal,
         h.pc \notin {"idle", "ack"} => h.msg = worker[w].msg /\ h.job = worker[w].job
  PROVE  StrandInv'
<1> DEFINE j == worker[w].job
<1>1. j \in Jobs /\ job \in [Jobs -> JobRow]
  BY DEF TypeInv, TypeOK, WellFormed, GoodHandling
<1>2. worker' = [worker EXCEPT ![w] = h] /\ worker \in [Workers -> Handling]
  BY DEF Becomes, TypeInv, TypeOK
<1>3. queue' = queue /\ outbox' = outbox /\ dispatcher' = dispatcher
  BY DEF sqs
<1>4. \A k \in Jobs : job'[k].status \notin Terminal /\ Deliverable(k) => Deliverable(k)'
  BY <1>1, DeliverableKept
<1>5. OwnMessage'
  BY <1>2, <1>3 DEF StrandInv, OwnMessage
<1>6. SentBeforeRecorded'
  BY <1>1, <1>3, <1>4 DEF StrandInv, SentBeforeRecorded, Waiting, Terminal
<1>7. Published'
  BY <1>1, <1>3, <1>4 DEF StrandInv, Published, Waiting, Terminal
<1> QED BY <1>5, <1>6, <1>7 DEF StrandInv

(* A handling that goes on with its job, whose row it does not touch.      *)
LEMMA MovesOn ==
  ASSUME TypeInv, StrandInv, NEW w \in Workers, NEW h, Becomes(w, h),
         UNCHANGED <<rows, dispatcher, sqs>>, worker[w].pc \notin {"idle", "ack"},
         h.pc \notin {"idle", "ack"}, h.msg = worker[w].msg, h.job = worker[w].job
  PROVE  StrandInv'
<1>1. UNCHANGED <<outbox, dispatcher, sqs>>
  BY DEF rows
<1>2. job' = [job EXCEPT ![worker[w].job] = job[worker[w].job]]
  BY DEF rows, TypeInv, TypeOK
<1> QED BY <1>1, <1>2, HandlingKeeps

(* A handling that gives its message up, or dies.                          *)
LEMMA GivesUp ==
  ASSUME TypeInv, StrandInv, NEW w \in Workers, RetryDelivery(w),
         UNCHANGED <<rows, dispatcher, sqs>>
  PROVE  StrandInv'
<1> DEFINE h == Handle("idle", None, None)
<1>1. h.pc = "idle" /\ Becomes(w, h)
  BY DEF Handle, RetryDelivery
<1> HIDE DEF h
<1>2. worker' = [worker EXCEPT ![w] = h] /\ worker \in [Workers -> Handling]
  BY <1>1 DEF Becomes, TypeInv, TypeOK
<1>3. job' = job /\ queue' = queue /\ outbox' = outbox /\ dispatcher' = dispatcher
  BY DEF rows, sqs
<1>4. \A k \in Jobs : Deliverable(k) => Deliverable(k)'
  BY <1>1, DeliverableKept
<1>5. OwnMessage'
  BY <1>1, <1>2, <1>3 DEF StrandInv, OwnMessage
<1>6. SentBeforeRecorded' /\ Published'
  BY <1>3, <1>4 DEF StrandInv, SentBeforeRecorded, Published
<1> QED BY <1>5, <1>6 DEF StrandInv

LEMMA ClaimStrandsNone ==
  ASSUME TypeInv, StrandInv, NEW w \in Workers, ClaimNext(w)
  PROVE  StrandInv'
<1> DEFINE j == worker[w].job
<1> USE DEF rows
<1>1. /\ worker[w] \in Handling
      /\ job \in [Jobs -> JobRow] /\ worker \in [Workers -> Handling]
  BY DEF TypeInv, TypeOK
<1>2. worker[w].pc \notin {"idle", "ack"} => j \in Jobs
  BY DEF TypeInv, WellFormed, GoodHandling
<1>3. CASE GiveUpClaim(w) \/ ClaimRefused(w)
  BY <1>3, GivesUp DEF GiveUpClaim, ClaimRefused
<1>4. CASE IgnoreTerminal(w)
  <2>1. job' = [job EXCEPT ![j] = job[j]] /\ worker[w].pc \notin {"idle", "ack"}
    BY <1>1, <1>4 DEF IgnoreTerminal
  <2> DEFINE h == Handle("ack", worker[w].msg, None)
  <2>2. h.pc = "ack" /\ h.msg = worker[w].msg /\ Becomes(w, h)
    BY <1>4 DEF Handle, IgnoreTerminal, Done
  <2>3. job[j].status \in Terminal /\ UNCHANGED <<outbox, dispatcher, sqs>>
    BY <1>4 DEF IgnoreTerminal
  <2> HIDE DEF h, j
  <2> QED BY <2>1, <2>2, <2>3, HandlingKeeps DEF j
<1>5. CASE ReadQueued(w) \/ ReadExpired(w) \/ ReadExhausted(w)
  <2>1. PICK pc \in {"claim", "exhaust"}, seen \in {"QUEUED", "EXPIRED"} : ReadAs(w, pc, seen)
    BY <1>5 DEF ReadQueued, ReadExpired, ReadExhausted
  <2>2. worker[w].pc = "received"
    BY <1>5 DEF ReadQueued, ReadExpired, ReadExhausted
  <2> DEFINE h == [worker[w] EXCEPT !.pc = pc, !.n = job[worker[w].job].attempts,
                                    !.seen = seen]
  <2>3. h.pc = pc /\ h.msg = worker[w].msg /\ h.job = worker[w].job
    BY <1>1 DEF Handling
  <2>4. Becomes(w, h) /\ UNCHANGED <<rows, dispatcher, sqs>>
    BY <2>1 DEF ReadAs
  <2> HIDE DEF h
  <2> QED BY <2>1, <2>2, <2>3, <2>4, MovesOn
<1>6. CASE FailExhausted(w)
  <2> DEFINE h == Handle("ack", worker[w].msg, None)
             row == Unclaimed(job[j], "FAILED")
  <2>1. h.pc = "ack" /\ h.msg = worker[w].msg /\ Becomes(w, h)
    BY <1>6 DEF Handle, FailExhausted, Done
  <2>2. job[j] \in JobRow
    BY <1>1, <1>2, <1>6 DEF FailExhausted
  <2>3. row.status \in Terminal
    BY <2>2 DEF Unclaimed, Terminal, JobRow
  <2>4. job' = [job EXCEPT ![j] = row] /\ worker[w].pc \notin {"idle", "ack"}
    BY <1>1, <1>6 DEF FailExhausted
  <2>5. UNCHANGED <<outbox, dispatcher, sqs>>
    BY <1>6 DEF FailExhausted
  <2> HIDE DEF h, row
  <2> QED BY <2>1, <2>3, <2>4, <2>5, HandlingKeeps
<1>7. CASE Claim(w)
  <2> DEFINE h == [worker[w] EXCEPT !.pc = "source", !.n = worker[w].n + 1,
                                    !.seen = "none"]
             row == [status |-> "PROCESSING", attempts |-> job[j].attempts + 1,
                     worker |-> w, lease |-> "held"]
  <2>1. Becomes(w, h) /\ worker[w].pc \notin {"idle", "ack"}
    BY <1>7 DEF Claim
  <2>2. h.pc = "source" /\ h.msg = worker[w].msg /\ h.job = worker[w].job
    BY <1>1 DEF Handling
  <2>3. row.status = "PROCESSING" /\ job[j].status \in {"QUEUED", "PROCESSING"}
    BY <1>7 DEF Claim, StillClaimable, Expired
  <2>4. job' = [job EXCEPT ![j] = row] /\ UNCHANGED <<outbox, dispatcher, sqs>>
    BY <1>1, <1>7 DEF Claim
  <2> HIDE DEF h, row
  <2> QED BY <2>1, <2>2, <2>3, <2>4, HandlingKeeps
<1> QED BY <1>3, <1>4, <1>5, <1>6, <1>7 DEF ClaimNext

LEMMA ExecuteStrandsNone ==
  ASSUME TypeInv, StrandInv, NEW w \in Workers, ExecuteNext(w)
  PROVE  StrandInv'
<1>1. worker[w] \in Handling
  BY DEF TypeInv, TypeOK
<1>2. worker[w].pc \notin {"idle", "ack"} /\ UNCHANGED <<rows, dispatcher, sqs>>
  BY DEF ExecuteNext, SourceFails, SkipProvider, ReuseStaged, FindNothingStaged,
         PayProvider, ProviderRefuses, Stage, StageFails, Render, Continue
<1>3. /\ \A pc : LET h == [worker[w] EXCEPT !.pc = pc]
                IN h.pc = pc /\ h.msg = worker[w].msg /\ h.job = worker[w].job
      /\ \A pc, request : LET h == [worker[w] EXCEPT !.pc = pc, !.request = request]
                         IN h.pc = pc /\ h.msg = worker[w].msg /\ h.job = worker[w].job
      /\ \A pc, outcome, request :
            LET h == [worker[w] EXCEPT !.pc = pc, !.outcome = outcome,
                                       !.request = request]
            IN h.pc = pc /\ h.msg = worker[w].msg /\ h.job = worker[w].job
  BY <1>1 DEF Handling
<1> DEFINE Moves == \E h : /\ Becomes(w, h) /\ h.pc \notin {"idle", "ack"}
                         /\ h.msg = worker[w].msg /\ h.job = worker[w].job
<1>4. Moves
  <2>1. ASSUME NEW outcome, NEW request, Result(w, outcome, request)
        PROVE  Moves
    <3> DEFINE h == [worker[w] EXCEPT !.pc = "finish", !.outcome = outcome,
                                      !.request = request]
    <3>1. /\ Becomes(w, h) /\ h.pc \notin {"idle", "ack"}
          /\ h.msg = worker[w].msg /\ h.job = worker[w].job
      BY <1>3, <2>1 DEF Result
    <3> HIDE DEF h
    <3> QED BY <3>1
  <2>2. ASSUME NEW pc, pc \notin {"idle", "ack"}, Becomes(w, [worker[w] EXCEPT !.pc = pc])
        PROVE  Moves
    <3> DEFINE h == [worker[w] EXCEPT !.pc = pc]
    <3>1. /\ Becomes(w, h) /\ h.pc \notin {"idle", "ack"}
          /\ h.msg = worker[w].msg /\ h.job = worker[w].job
      BY <1>3, <2>2
    <3> HIDE DEF h
    <3> QED BY <3>1
  <2>3. ASSUME NEW pc, pc \notin {"idle", "ack"}, NEW request,
               Becomes(w, [worker[w] EXCEPT !.pc = pc, !.request = request])
        PROVE  Moves
    <3> DEFINE h == [worker[w] EXCEPT !.pc = pc, !.request = request]
    <3>1. /\ Becomes(w, h) /\ h.pc \notin {"idle", "ack"}
          /\ h.msg = worker[w].msg /\ h.job = worker[w].job
      BY <1>3, <2>3
    <3> HIDE DEF h
    <3> QED BY <3>1
  <2>4. CASE SourceFails(w) \/ ProviderRefuses(w) \/ StageFails(w) \/ Render(w)
    BY <2>1, <2>4 DEF SourceFails, ProviderRefuses, StageFails, Render
  <2>5. CASE SkipProvider(w) \/ FindNothingStaged(w) \/ Stage(w)
    BY <2>2, <2>5 DEF SkipProvider, FindNothingStaged, Stage, Continue
  <2>6. CASE ReuseStaged(w)
    BY <2>3, <2>6 DEF ReuseStaged
  <2>7. CASE PayProvider(w)
    BY <2>1, <2>3, <2>7 DEF PayProvider
  <2> QED BY <2>4, <2>5, <2>6, <2>7 DEF ExecuteNext
<1> QED BY <1>2, <1>4, MovesOn

(* A retry reopens the outbox row of its job before it acknowledges its    *)
(* message.                                                                *)
LEMMA RescheduleKeeps ==
  ASSUME TypeInv, StrandInv, NEW w \in Workers, RescheduleJob(w)
  PROVE  StrandInv'
<1> DEFINE j == worker[w].job
           h == Handle("ack", worker[w].msg, None)
           open == [published |-> FALSE, token |-> None, lease |-> "none"]
<1>1. /\ worker \in [Workers -> Handling] /\ job \in [Jobs -> JobRow]
      /\ outbox \in [Jobs -> OutboxRow] /\ j \in Jobs
  BY DEF TypeInv, TypeOK, WellFormed, GoodHandling, RescheduleJob
<1>2. /\ h.pc = "ack" /\ h.msg = worker[w].msg /\ Becomes(w, h)
      /\ worker[w].pc \notin {"idle", "ack"}
  BY DEF Handle, RescheduleJob, Done
<1>3. job[j] \in JobRow /\ job' = [job EXCEPT ![j] = Unclaimed(job[j], "RETRYING")]
  BY <1>1 DEF RescheduleJob
<1>4. job'[j].status = "RETRYING" /\ \A k \in Jobs \ {j} : job'[k] = job[k]
  BY <1>1, <1>3 DEF Unclaimed, JobRow
<1>5. /\ outbox' = [outbox EXCEPT ![j] = open] /\ dispatcher' = dispatcher
      /\ queue' = queue /\ UNCHANGED sqs
  BY DEF RescheduleJob, sqs
<1>6. \A k \in Jobs \ {j} : outbox'[k] = outbox[k]
  BY <1>1, <1>5
<1>7. outbox'[j].token = None /\ outbox'[j].published = FALSE
  BY <1>1, <1>5
<1> HIDE DEF h, open, j
<1>8. \A k \in Jobs \ {j} : Deliverable(k) => Deliverable(k)'
  BY <1>2, <1>5, DeliverableKept DEF j
<1>9. OwnMessage'
  BY <1>1, <1>2, <1>5 DEF StrandInv, OwnMessage, Becomes
<1>10. SentBeforeRecorded'
  BY <1>4, <1>5, <1>6, <1>7, <1>8, ConstantsAssumption
     DEF StrandInv, SentBeforeRecorded
<1>11. Published'
  BY <1>4, <1>6, <1>7, <1>8 DEF StrandInv, Published
<1> QED BY <1>9, <1>10, <1>11 DEF StrandInv

LEMMA DeleteKeeps ==
  ASSUME TypeInv, StrandInv, NEW w \in Workers, DeleteMessage(w)
  PROVE  StrandInv'
<1> DEFINE h == Handle("idle", None, None)
<1>1. worker \in [Workers -> Handling] /\ queue \in [Messages -> Slot]
  BY DEF TypeInv, TypeOK
<1>2. worker' = [worker EXCEPT ![w] = h] /\ h.pc = "idle"
  BY DEF DeleteMessage, RetryDelivery, Becomes, Handle
<1>3. /\ worker[w].pc = "ack" /\ worker[w].msg \in Messages
      /\ queue' = [queue EXCEPT ![worker[w].msg] = FreeSlot]
      /\ job' = job /\ outbox' = outbox /\ dispatcher' = dispatcher /\ dlq' = dlq
  BY DEF DeleteMessage, rows, TypeInv, WellFormed, GoodHandling
<1> HIDE DEF h
<1>4. \A j \in Jobs : Deliverable(j) => Deliverable(j)'
  BY <1>1, <1>2, <1>3 DEF Deliverable
<1>5. OwnMessage'
  <2> SUFFICES ASSUME NEW v \in Workers, worker'[v].pc \notin {"idle", "ack"}
               PROVE  LET slot == queue'[worker'[v].msg]
                      IN slot.state = "free" \/ slot.job = worker'[v].job
    BY DEF OwnMessage
  <2>1. worker'[v] = worker[v] /\ worker[v].msg \in Messages
    BY <1>1, <1>2 DEF TypeInv, WellFormed, GoodHandling
  <2>2. CASE worker[v].msg = worker[w].msg
    BY <1>1, <1>3, <2>1, <2>2 DEF FreeSlot
  <2>3. CASE worker[v].msg # worker[w].msg
    BY <1>1, <1>3, <2>1, <2>3 DEF StrandInv, OwnMessage
  <2> QED BY <2>2, <2>3
<1>6. SentBeforeRecorded' /\ Published'
  BY <1>3, <1>4 DEF StrandInv, SentBeforeRecorded, Published
<1> QED BY <1>5, <1>6 DEF StrandInv

LEMMA FinishStrandsNone ==
  ASSUME TypeInv, StrandInv, NEW w \in Workers, FinishNext(w)
  PROVE  StrandInv'
<1> DEFINE j == worker[w].job
           h == Handle("ack", worker[w].msg, None)
<1> USE DEF rows
<1>1. worker[w] \in Handling /\ job \in [Jobs -> JobRow]
  BY DEF TypeInv, TypeOK
<1>2. worker[w].pc \notin {"idle", "ack"} => job[j] \in JobRow
  BY <1>1 DEF TypeInv, WellFormed, GoodHandling
<1>3. h.pc = "ack" /\ h.msg = worker[w].msg /\ (Done(w) => Becomes(w, h))
  BY DEF Handle, Done
<1> HIDE DEF h
<1>4. CASE ReadForCompletion(w) \/ ReadForRetry(w) \/ ReadForFailure(w)
  <2>1. PICK pc \in {"complete", "fail"}, outcome \in Outcome : ReadOwned(w, pc, outcome)
    BY <1>4 DEF ReadForCompletion, ReadForRetry, ReadForFailure, Outcome
  <2> DEFINE g == [worker[w] EXCEPT !.pc = pc, !.outcome = outcome]
  <2>2. /\ g.pc = pc /\ g.msg = worker[w].msg /\ g.job = worker[w].job
    BY <1>1 DEF Handling
  <2>3. Becomes(w, g) /\ worker[w].pc = "finish" /\ UNCHANGED <<rows, dispatcher, sqs>>
    BY <2>1 DEF ReadOwned
  <2> HIDE DEF g
  <2> QED BY <2>1, <2>2, <2>3, MovesOn
<1>5. CASE ReadClaimLost(w) \/ FinishAborts(w)
  BY <1>5, GivesUp DEF ReadClaimLost, FinishAborts
<1>6. ASSUME Done(w), UNCHANGED <<outbox, dispatcher, sqs>>,
             worker[w].pc \notin {"idle", "ack"},
             NEW row, row.status \in Terminal, job' = [job EXCEPT ![j] = row]
      PROVE  StrandInv'
  <2>1. Becomes(w, h)
    BY <1>3, <1>6
  <2> HIDE DEF j
  <2> QED BY <1>3, <1>6, <2>1, HandlingKeeps DEF j
<1>7. CASE ReadAlreadyCompleted(w)
  <2>1. job' = [job EXCEPT ![j] = job[j]]
    BY <1>1, <1>7 DEF ReadAlreadyCompleted
  <2>2. job[j].status \in Terminal
    BY <1>7 DEF ReadAlreadyCompleted, Terminal
  <2> QED BY <1>6, <1>7, <2>1, <2>2 DEF ReadAlreadyCompleted
<1>8. CASE CompleteJob(w) \/ FailJob(w)
  <2>1. PICK status \in Terminal : job' = [job EXCEPT ![j] = Unclaimed(job[j], status)]
    BY <1>1, <1>8 DEF CompleteJob, FailJob, Terminal
  <2>2. worker[w].pc \notin {"idle", "ack"}
    BY <1>8 DEF CompleteJob, FailJob
  <2>3. Unclaimed(job[j], status).status \in Terminal
    BY <1>2, <2>2 DEF Unclaimed, JobRow
  <2> QED BY <1>6, <1>8, <2>1, <2>2, <2>3 DEF CompleteJob, FailJob
<1> QED BY <1>4, <1>5, <1>7, <1>8, RescheduleKeeps, DeleteKeeps DEF FinishNext
-----------------------------------------------------------------------------
(* The dispatchers                                                         *)

LEMMA SendKeeps ==
  ASSUME TypeInv, StrandInv, NEW j \in Jobs, Send(j), worker' = worker,
         dlq \ {j} \subseteq dlq'
  PROVE  /\ OwnMessage' /\ Deliverable(j)'
         /\ \A k \in Jobs : Deliverable(k) => Deliverable(k)'
<1> DEFINE slot == [state |-> "visible", job |-> j, receives |-> 0]
<1>1. PICK m \in Messages : Free(m) /\ queue' = [queue EXCEPT ![m] = slot]
  BY DEF Send
<1>2. queue \in [Messages -> Slot] /\ slot.state = "visible" /\ slot.job = j
  BY DEF TypeInv, TypeOK
<1> HIDE DEF slot
<1>3. /\ queue'[m].state = "visible" /\ queue'[m].job = j /\ queue[m].state = "free"
      /\ \A w \in Workers : worker[w].msg # m
      /\ \A k \in Messages \ {m} : queue'[k] = queue[k]
  BY <1>1, <1>2 DEF Free
<1>4. Deliverable(j)'
  BY <1>3 DEF Deliverable
<1>5. \A k \in Jobs : Deliverable(k) => Deliverable(k)'
  BY <1>3, <1>4 DEF Deliverable
<1>6. OwnMessage'
  BY <1>3 DEF OwnMessage, StrandInv, TypeInv, WellFormed, GoodHandling
<1> QED BY <1>4, <1>5, <1>6

(* The steps of a run towards the queue.                                   *)
LEMMA PublishKeeps ==
  ASSUME TypeInv, StrandInv, NEW d \in Dispatchers, NEW j \in Jobs,
         PublishAccepted(d, j) \/ PublishUncertain(d, j) \/ PublishRefused(d, j)
  PROVE  StrandInv'
<1> USE DEF rows
<1>1. dispatcher[d] \in DispatcherRun /\ dispatcher \in [Dispatchers -> DispatcherRun]
  BY DEF TypeInv, TypeOK
<1>2. job' = job /\ outbox' = outbox /\ dlq' = dlq /\ worker' = worker
  BY DEF PublishAccepted, PublishUncertain, PublishRefused, sqs
<1>3. /\ OwnMessage' /\ \A k \in Jobs : Deliverable(k) => Deliverable(k)'
      /\ PublishAccepted(d, j) => Deliverable(j)'
  <2>1. CASE Send(j)
    BY <1>2, <2>1, SendKeeps
  <2>2. CASE queue' = queue /\ ~PublishAccepted(d, j)
    BY <1>2, <2>2 DEF Deliverable, StrandInv, OwnMessage
  <2> QED BY <2>1, <2>2 DEF PublishAccepted, PublishUncertain, PublishRefused, sqs
<1>4. \A e \in Dispatchers \ {d} : dispatcher'[e] = dispatcher[e]
  BY <1>1 DEF PublishAccepted, PublishUncertain, PublishRefused
<1>5. /\ dispatcher'[d].pc = dispatcher[d].pc
      /\ dispatcher'[d].acked \subseteq dispatcher[d].acked \cup {j}
      /\ ~PublishAccepted(d, j) => dispatcher'[d].acked = dispatcher[d].acked
  <2> DEFINE run == dispatcher[d]
             accepted == [run EXCEPT !.todo = @ \ {j}, !.acked = @ \cup {j}]
             other == [run EXCEPT !.todo = @ \ {j}]
  <2>1. /\ accepted.pc = run.pc /\ accepted.acked = run.acked \cup {j}
        /\ other.pc = run.pc /\ other.acked = run.acked
    BY <1>1 DEF DispatcherRun
  <2>2. /\ PublishAccepted(d, j) => dispatcher'[d] = accepted
        /\ PublishUncertain(d, j) \/ PublishRefused(d, j) => dispatcher'[d] = other
    BY <1>1 DEF PublishAccepted, PublishUncertain, PublishRefused
  <2> QED BY <2>1, <2>2
<1>6. SentBeforeRecorded'
  BY <1>2, <1>3, <1>4, <1>5 DEF StrandInv, SentBeforeRecorded
<1>7. Published'
  BY <1>2, <1>3 DEF StrandInv, Published
<1> QED BY <1>3, <1>6, <1>7 DEF StrandInv

LEMMA OutboxKeeps ==
  ASSUME TypeInv, StrandInv, UNCHANGED <<queue, dlq, worker>>,
         \A j \in Jobs : \/ job'[j].status = job[j].status
                         \/ /\ job'[j].status = "QUEUED" /\ outbox'[j].published
                            /\ Deliverable(j),
         \A j \in Jobs : \/ outbox'[j].published = outbox[j].published
                         \/ outbox'[j].published /\ job'[j].status = "QUEUED",
         \A d \in Dispatchers, j \in Jobs :
            /\ dispatcher'[d].pc = "publishing" /\ j \in dispatcher'[d].acked
            /\ outbox'[j].token = d /\ ~outbox'[j].published
            => /\ dispatcher[d].pc = "publishing" /\ j \in dispatcher[d].acked
               /\ outbox[j].token = d /\ ~outbox[j].published
  PROVE  StrandInv'
<1>1. \A j \in Jobs : Deliverable(j)' <=> Deliverable(j)
  BY DEF Deliverable
<1>2. OwnMessage'
  BY DEF StrandInv, OwnMessage
<1>3. SentBeforeRecorded'
  BY <1>1 DEF StrandInv, SentBeforeRecorded, Waiting
<1>4. Published'
  BY <1>1 DEF StrandInv, Published, Waiting
<1> QED BY <1>2, <1>3, <1>4 DEF StrandInv

LEMMA DispatcherKeeps ==
  ASSUME TypeInv, StrandInv, NEW d \in Dispatchers,
         DispatcherNext(d) \/ CrashDispatcher(d)
  PROVE  StrandInv'
<1> USE DEF rows
<1>1. /\ dispatcher \in [Dispatchers -> DispatcherRun] /\ job \in [Jobs -> JobRow]
      /\ outbox \in [Jobs -> OutboxRow]
  BY DEF TypeInv, TypeOK
<1>2. \A batch : Rest(batch).pc # "publishing"
  BY DEF Rest, IdleRun
<1>3. CASE \E j \in Jobs : \/ PublishAccepted(d, j) \/ PublishUncertain(d, j)
                            \/ PublishRefused(d, j)
  BY <1>3, PublishKeeps
<1>4. CASE ClaimOutbox(d)
  <2>1. PICK batch \in SUBSET Jobs :
          /\ outbox' = [j \in Jobs |->
               IF j \in batch THEN [outbox[j] EXCEPT !.token = d, !.lease = "held"]
                              ELSE outbox[j]]
          /\ dispatcher' = [dispatcher EXCEPT ![d] =
               [pc |-> "publishing", batch |-> batch, todo |-> batch, acked |-> {}]]
    BY <1>4 DEF ClaimOutbox
  <2>2. UNCHANGED <<job, queue, dlq, worker>>
    BY <1>4 DEF ClaimOutbox, sqs
  <2>3. \A j \in Jobs : /\ outbox'[j].published = outbox[j].published
                        /\ outbox'[j].token \in {d, outbox[j].token}
    BY <1>1, <2>1 DEF OutboxRow
  <2>4. dispatcher'[d].acked = {} /\ \A e \in Dispatchers \ {d} : dispatcher'[e] = dispatcher[e]
    BY <1>1, <2>1
  <2> QED BY <2>2, <2>3, <2>4, OutboxKeeps
<1>5. CASE MarkPublished(d)
  <2> DEFINE done == Acknowledged(d)
  <2>1. \A j \in done : j \in Jobs /\ Deliverable(j)
    <3> SUFFICES ASSUME NEW j \in done PROVE j \in Jobs /\ Deliverable(j)
      OBVIOUS
    <3>1. j \in dispatcher[d].acked /\ outbox[j].token = d /\ ~outbox[j].published
          /\ job[j].status \in Waiting
      BY DEF Acknowledged
    <3>2. dispatcher[d].acked \subseteq Jobs /\ dispatcher[d].pc = "publishing"
      BY <1>1, <1>5 DEF DispatcherRun, MarkPublished
    <3> QED BY <3>1, <3>2 DEF StrandInv, SentBeforeRecorded
  <2>2. /\ outbox' = [j \in Jobs |->
            IF j \in done
            THEN [published |-> TRUE, token |-> None, lease |-> "none"]
            ELSE outbox[j]]
        /\ job' = [j \in Jobs |->
            IF j \in done THEN [job[j] EXCEPT !.status = "QUEUED"] ELSE job[j]]
        /\ dispatcher' = [dispatcher EXCEPT ![d] = Rest(dispatcher[d].batch \ done)]
        /\ UNCHANGED <<queue, dlq, worker>>
    BY <1>5 DEF MarkPublished, sqs
  <2> HIDE DEF done
  <2>3. \A j \in Jobs : IF j \in done
                        THEN job'[j].status = "QUEUED" /\ outbox'[j].published
                        ELSE job'[j] = job[j] /\ outbox'[j] = outbox[j]
    BY <1>1, <2>2 DEF JobRow
  <2>4. /\ dispatcher'[d].pc # "publishing"
        /\ \A e \in Dispatchers \ {d} : dispatcher'[e] = dispatcher[e]
    BY <1>1, <1>2, <2>2
  <2> QED BY <2>1, <2>2, <2>3, <2>4, OutboxKeeps
<1>6. CASE MarkUnavailable(d) \/ CrashDispatcher(d)
  <2>1. UNCHANGED <<job, outbox, queue, dlq, worker>>
    BY <1>6 DEF MarkUnavailable, CrashDispatcher, sqs
  <2>2. /\ dispatcher'[d].pc # "publishing"
        /\ \A e \in Dispatchers \ {d} : dispatcher'[e] = dispatcher[e]
    BY <1>1, <1>2, <1>6 DEF MarkUnavailable, CrashDispatcher, IdleRun
  <2> QED BY <2>1, <2>2, OutboxKeeps
<1>7. ASSUME NEW j \in Jobs, Release(d, j) PROVE StrandInv'
  <2>1. UNCHANGED <<job, queue, dlq, worker>>
    BY <1>7 DEF Release, sqs
  <2>2. \A k \in Jobs : /\ outbox'[k].published = outbox[k].published
                        /\ outbox'[k].token \in {None, outbox[k].token}
    BY <1>1, <1>7 DEF Release, OutboxRow
  <2>3. /\ dispatcher'[d].pc # "publishing"
        /\ \A e \in Dispatchers \ {d} : dispatcher'[e] = dispatcher[e]
    BY <1>1, <1>2, <1>7 DEF Release
  <2> QED BY <2>1, <2>2, <2>3, OutboxKeeps, ConstantsAssumption
<1> QED BY <1>3, <1>4, <1>5, <1>6, <1>7 DEF DispatcherNext
-----------------------------------------------------------------------------
(* The queue and the clocks                                                *)

LEMMA QueueKeeps ==
  ASSUME TypeInv, StrandInv,
         \/ \E m \in Messages : VisibilityTimeout(m)
         \/ \E w \in Workers, m \in Messages : Receive(w, m)
         \/ \E j \in Jobs : Redrive(j)
  PROVE  StrandInv'
<1> USE DEF rows
<1>1. queue \in [Messages -> Slot] /\ worker \in [Workers -> Handling]
  BY DEF TypeInv, TypeOK
<1>2. job' = job /\ outbox' = outbox /\ dispatcher' = dispatcher
  BY DEF VisibilityTimeout, Receive, Redrive
<1>3. OwnMessage' /\ \A k \in Jobs : Deliverable(k) => Deliverable(k)'
  <2>1. CASE \E j \in Jobs : Redrive(j)
    BY <2>1, SendKeeps DEF Redrive
  <2>2. ASSUME NEW m \in Messages, VisibilityTimeout(m)
        PROVE  OwnMessage' /\ \A k \in Jobs : Deliverable(k) => Deliverable(k)'
    <3>1. worker' = worker /\ queue[m].state # "free"
      BY <2>2 DEF VisibilityTimeout
    <3>2. CASE ReceivesLeft(m)
      <4>1. /\ queue' = [queue EXCEPT ![m].state = "visible"] /\ dlq' = dlq
        BY <2>2, <3>2 DEF VisibilityTimeout
      <4>2. \A k \in Messages : /\ queue'[k].job = queue[k].job
                                /\ (queue'[k].state = "free") <=> (queue[k].state = "free")
        BY <1>1, <3>1, <4>1 DEF Slot
      <4> QED BY <3>1, <4>1, <4>2
              DEF Deliverable, OwnMessage, StrandInv, TypeInv, WellFormed, GoodHandling
    <3>3. CASE ~ReceivesLeft(m)
      <4>1. queue' = [queue EXCEPT ![m] = FreeSlot] /\ dlq' = dlq \cup {queue[m].job}
        BY <2>2, <3>3 DEF VisibilityTimeout
      <4>2. queue'[m].state = "free" /\ \A k \in Messages \ {m} : queue'[k] = queue[k]
        BY <1>1, <4>1 DEF FreeSlot
      <4> QED BY <3>1, <4>1, <4>2
              DEF Deliverable, OwnMessage, StrandInv, TypeInv, WellFormed, GoodHandling
    <3> QED BY <3>2, <3>3
  <2>3. ASSUME NEW w \in Workers, NEW m \in Messages, Receive(w, m)
        PROVE  OwnMessage' /\ \A k \in Jobs : Deliverable(k) => Deliverable(k)'
    <3> DEFINE h == Handle("received", m, queue[m].job)
    <3>1. /\ h.pc = "received" /\ h.msg = m /\ h.job = queue[m].job
          /\ worker' = [worker EXCEPT ![w] = h] /\ dlq' = dlq
      BY <2>3 DEF Handle, Receive, Becomes
    <3>2. /\ queue' = [queue EXCEPT ![m].state = "inflight", ![m].receives = @ + 1]
          /\ queue[m].state = "visible"
      BY <2>3 DEF Receive
    <3>3. \A k \in Messages : /\ queue'[k].job = queue[k].job
                              /\ (queue'[k].state = "free") <=> (queue[k].state = "free")
      BY <1>1, <3>2 DEF Slot
    <3> HIDE DEF h
    <3> QED BY <1>1, <3>1, <3>3
            DEF Deliverable, OwnMessage, StrandInv, TypeInv, WellFormed, GoodHandling
  <2> QED BY <2>1, <2>2, <2>3
<1>4. SentBeforeRecorded' /\ Published'
  BY <1>2, <1>3 DEF StrandInv, SentBeforeRecorded, Published
<1> QED BY <1>3, <1>4 DEF StrandInv

LEMMA ClockKeeps ==
  ASSUME TypeInv, StrandInv, NEW j \in Jobs, LeaseExpires(j) \/ OutboxLeaseExpires(j)
  PROVE  StrandInv'
<1>1. job \in [Jobs -> JobRow] /\ outbox \in [Jobs -> OutboxRow]
  BY DEF TypeInv, TypeOK
<1>2. UNCHANGED <<queue, dlq, worker, dispatcher>>
  BY DEF LeaseExpires, OutboxLeaseExpires, sqs
<1>3. \A k \in Jobs : /\ job'[k].status = job[k].status
                      /\ outbox'[k].published = outbox[k].published
                      /\ outbox'[k].token = outbox[k].token
  BY <1>1 DEF LeaseExpires, OutboxLeaseExpires, JobRow, OutboxRow
<1> QED BY <1>2, <1>3, OutboxKeeps

LEMMA StrandInvStep == TypeInv /\ StrandInv /\ [Next]_vars => StrandInv'
<1> SUFFICES ASSUME TypeInv, StrandInv, [Next]_vars PROVE StrandInv'
  OBVIOUS
<1>1. ASSUME NEW d \in Dispatchers, DispatcherNext(d) \/ CrashDispatcher(d)
      PROVE  StrandInv'
  BY <1>1, DispatcherKeeps
<1>2. ASSUME NEW w \in Workers, WorkerNext(w) PROVE StrandInv'
  BY <1>2, ClaimStrandsNone, ExecuteStrandsNone, FinishStrandsNone DEF WorkerNext
<1>3. ASSUME NEW w \in Workers, CrashWorker(w) PROVE StrandInv'
  BY <1>3, GivesUp DEF CrashWorker
<1>4. ASSUME NEW j \in Jobs, LeaseExpires(j) \/ OutboxLeaseExpires(j) PROVE StrandInv'
  BY <1>4, ClockKeeps
<1>5. CASE UNCHANGED vars
  BY <1>5 DEF vars, StrandInv, OwnMessage, SentBeforeRecorded, Published, Deliverable
<1> QED BY <1>1, <1>2, <1>3, <1>4, <1>5, QueueKeeps DEF Next

(* No job is stranded, in every deployment: the rows of the outbox, the      *)
(* messages of the queue and the dispatchers' memory of what they sent never *)
(* disagree so that a job that waits is neither to be published nor to be   *)
(* delivered (claimPending, markPublishedBatch, claimJob, failJob).         *)
THEOREM NoJobStranded == Spec => []NeverStranded
<1>1. Init => StrandInv
  BY StrandInvInit
<1>2. TypeInv /\ TypeInv' /\ StrandInv /\ [Next]_vars => StrandInv'
  BY StrandInvStep
<1>3. TypeInv /\ StrandInv => NeverStranded
  BY StrandInvImplies
<1> QED BY <1>1, <1>2, <1>3, TypeInvariance, PTL DEF Spec
=============================================================================
