# A verification of StudioCar AI

StudioCar AI lets a car dealer upload photographs of a vehicle and have a worker put each of them
on a studio background. This directory holds TLA+ models of the parts of it in which requests,
workers, queues and crashes meet, the TLC runs that check them and the TLAPS proofs about them.
Paths are relative to the repository.

1. [The system](#1-the-system)
2. [The modules](#2-the-modules)
3. [The runs](#3-the-runs)
4. [Disagreements between documents and code](#4-disagreements-between-documents-and-code)
5. [The proofs](#5-the-proofs)
6. [Abstractions and limits](#6-abstractions-and-limits)
7. [The plan](#7-the-plan)

## 1. The system

The control plane is Browser → Next.js (`apps/web`) → PostgreSQL; the data plane is Browser → S3
→ SQS → worker (`workers/image-processing`) → background-removal provider → S3. PostgreSQL
transactions run at READ COMMITTED. Nothing ties S3, SQS, the provider and PostgreSQL together:
every step of one of them may happen and the next may not.

Paths below `apps/web/src/server/` are shortened to `server/`.

| Component | State | Operations | Hard behaviour | Correct when |
|---|---|---|---|---|
| Processing pipeline: `packages/processing`, `packages/database-runtime` (`processing-worker-repository.ts`), `workers/image-processing/src/execution`, `packages/local-queue` | jobs, attempts, outbox rows, queue and dead-letter queue, staged cutout and output in S3 | claim and publish outbox rows; receive, claim, execute, complete, reschedule, fail | at-least-once delivery, crashes between any two steps, leases and takeover, a paid call whose answer is lost | a job has one owner and one outcome, is never stranded, is billed when and only when delivered |
| Original uploads and storage cleanup: `server/uploads`, `server/storage-cleanup`, `image-asset-repository.ts`, `storage-deletion-repository.ts` | image assets, S3 originals, deletion outbox | intent, PUT, commit, removal, reservation of originals, cleanup | S3 and rows change in separate steps; commit, removal, reservation and cleanup race; dying cleanup runs | an uploaded original is in S3, a reserved one is kept, a deleted one is owed its deletion until its object is gone |
| Batch reservation: `processing-job-repository.ts`, `server/jobs`; the settling of vehicles in `processing-worker-repository.ts` | jobs of batches, session usage events, vehicle status, allowance | reserve with an Idempotency-Key, finish a job, settle the vehicle | retries and competing requests, a count and a write under different locks, the last two jobs finishing together, the month turning | a key names one batch, an allowance is not exceeded, a vehicle is PROCESSING while it has an active job |
| Vehicle dialog and upload queue: `apps/web/src/features/vehicle-create` | the dialog's step, session, vehicle; the store's rows; slots, waiting uploads | open, close, edit, save, choose, upload, retry, replace, remove, process | aborted uploads that still run, answers after the dialog was closed or went away with its page, a store that outlives its dialog, lost answers, a step left and entered again | slots are neither lost nor exceeded, only what is wanted is uploaded, only stored photos go on |
| Phone forms: `apps/web/src/features/auth`, `connect-phone-form.tsx` | each page's stage, number, challenge, provider request; the browser's two cookies | ask for a code, resend, verify, change the number, create the account, connect | a resend that is half done, calls of the widget never answered, pages sharing cookies, reloads | what a form shows, asks for and submits is about one number |
| Vehicles: `vehicle-repository.ts` | vehicles | creation under an Idempotency-Key, update of drafts; lists | repeated creation, the same key with another body | one vehicle a session of the dialog |
| Phone sign-in: `server/auth/phone`, `phone-otp-*-repository.ts`, `phone-account-repository.ts`, `link-phone-identity-in-transaction.ts` | challenges, attempts, token hashes, accounts, identities | start, claim an attempt, ask the provider, record, complete, create the account, link | a provider call between two transactions, one token presented twice, six kinds of transactions with several locks | attempts stay under the cap, a proof opens one session |
| Google sign-in: `server/auth/google`, `google-oauth-*`, `verified-phone-google-repository.ts` | one-use authorizations, identities | start, callback, link, continue a proved number | two callbacks, two sign-ups of one identity, an account found to be somebody else's number after it was made | identities never move, primary contacts are proved |
| Sessions: `session-repository.ts`, `session-service.ts` | session rows | issue, revoke one or all, rotate (no handler calls it) | | a session is its proofs' holder's |
| Administrators: `admin-*-repository.ts`, `admin-bootstrap-service.ts` | roles, invitations, the bootstrap record | bootstrap, grant, invite, accept, dismiss, withdraw | acceptance against withdrawal and creation, two administrators dismissing each other, a dismissed one signing in | never without an administrator, an invitation reaches its holder, who was dismissed stays out |
| Subscriptions: `manual-subscription-repository.ts` | subscriptions | assign and end by hand, beside a provider's | two administrators at once | one live plan by hand an account; ended means none in force |
| Command rate limiter | events per user and scope | consume | one lock per key | a window holds at most the maximum |
| Lifecycle cleanup, social links, read paths, webhook signatures, configuration, user interface | rows deleted by age; single-row edits; none | | little | |
| Image composition and plate branding | pixels | pure | none for TLC | |

The first four are the program's own core: each joins several processes and several stores, and a
mistake in any of them costs money or loses photographs. They interact like this. The dialog creates a
vehicle, uploads its originals (intent, PUT, commit) and submits a batch. A reservation
needs originals that are UPLOADED, takes their advisory locks (the same locks a removal takes),
moves the vehicle to PROCESSING and inserts the jobs with their outbox rows; a dispatcher publishes
the rows; a worker claims, executes and finishes a job, and the transaction that finishes the last
job settles the vehicle. What is in flight counts against the allowance until it is billed or failed.

`PROJECT.json` lists under "hazards" the places where this code can go wrong in a way that a test
hardly reaches, with the properties that watch them, or the reason why none does.

## 2. The modules

### ProcessingPipeline

One batch of jobs from the commit of its reservation to its end. Module variables are the rows
(`job`, `attempt`, `asset`, `usage`, `invalid`, `vehicle`, `outbox`), the queue (`queue`, `dlq`), the
S3 cutout and the provider's bill (`staged`, `charges`), and the local state of the processes
(`dispatcher`, `worker`).

| Code | Actions |
|---|---|
| `dispatchProcessingOutboxBatches`, `processing-outbox-repository.ts` | `ClaimOutbox`, `PublishAccepted`, `PublishUncertain` (sent, but unanswered), `PublishRefused`, `MarkPublished`, `MarkUnavailable`, `Release`, `CrashDispatcher`, `OutboxLeaseExpires` |
| SQS as the templates configure it (external) | `Receive`, `VisibilityTimeout` (which moves a message to the dead-letter queue), `Redrive`, `DeleteMessage` |
| `claimJob` | `IgnoreTerminal`, `GiveUpClaim`, `ReadQueued`, `ReadExpired`, `ReadExhausted`, then `Claim`, `ClaimRefused` or `FailExhausted` |
| `ProcessingJobExecutor.execute` | `SourceFails`, `SkipProvider`, `ReuseStaged`, `FindNothingStaged`, `PayProvider`, `ProviderRefuses`, `Stage`, `StageFails`, `Render` |
| `completeJob`, `rescheduleJob`, `failJob` | `ReadForCompletion`, `ReadForRetry`, `ReadForFailure`, `ReadAlreadyCompleted`, `ReadClaimLost`, then `CompleteJob`, `RescheduleJob`, `FailJob` or `FinishAborts` |
| crash, expiry | `CrashWorker`, `LeaseExpires` |

A transaction whose write depends on an earlier read of a row that others can change is two steps,
because READ COMMITTED lets another transaction commit in between; where the code writes with a
condition (`updateMany` with a status and a token) the condition is the guard of the second step, and
where it writes by id alone there is none. `SlowHandling` selects the deployment. The Lambda template
gives a handling 180 s, and says that this must not exceed the claim's lease or the queue's visibility
(`infrastructure/aws/image-processing-worker.yml:66`), so there a live handling always has its lease
(`SlowHandling = FALSE`); the local consumer has no limit (`TRUE`).

`JobOutcomes` is what the pipeline promises, without its machinery: each job is settled once,
delivered and billed together or failed and never billed, and the vehicle follows. `KeepsPromise`
is the refinement (`Promise == INSTANCE JobOutcomes WITH outcome <- ..., billed <- usage`).

`ProcessingPipelineLiveness` adds the fairness, `MCProcessingPipeline` the symmetry of the runs.

### OriginalUploads

The life of an original: `CreateIntent`, the presigned PUT (`StartPut`, `PutLands`, `PutLost`,
`UrlExpires`, `RetentionEnds`), the commit (`BeginCommit`, `HeadObject`, `MarkUploaded`,
`MarkInvalid`, `CommitEnds`), the removal (`ReadForRemoval`, `WriteRemoval`, `DeleteForRemoval`,
`CompleteRemoval`, `RemovalEnds`), the part of a reservation that concerns the originals
(`BeginReservation`, `ReadForReservation`, `InsertJobs`, `ReservationEnds`), the worker's verdict
(`InvalidateOriginal`) and the cleanup (`ReserveExpired`, `ClaimDeletions`, `DeleteObject`,
`DeleteFails`, `MarkDeletionCompleted`, `HandleDeletionFailure`, `CrashCleaner`, `ClaimExpires`).
`OriginalUploadsLiveness` adds fairness and `MCOriginalUploads` the symmetry.

### BatchReservation

`ProcessingJobService.createBatch` and `reserveBatchOwned`, one step per statement: `Lookup`,
`LockTenant`, `Count`, `ReadAssets`, `WriteBatch`, `WriteFails`, `WriteRefused`, `Recheck`, with
`RequestLost` when the process or its transaction dies; and the transactions that finish a job and
settle its vehicle (`updateVehicleStatus`): `WriteOutcome`, `CountActive` (under the vehicle's
lock), `CommitOutcome`, `OutcomeLost`. `MonthTurns` moves the billing period. `MCBatchReservation`
says what the requests ask for.

It implements two abstract specifications. `BatchLedger` is what a tenant is promised, without locks,
transactions and rechecks: a request is answered once and in one step, a batch is accepted whole or not
at all and only while the allowance covers it, a refusal is true when it is given, a job ends once, delivered
and charged or failed and free, and its end settles the vehicle. `KeepsLedger` is the refinement
(`Ledger == INSTANCE BatchLedger WITH answer <- ...`). The other is `JobOutcomes`, once for each batch:
`Pipeline(r)` is that specification for the jobs, the charges and the vehicle of the request `r`, and
`BatchesRunAsPromised` says that a batch starts as `JobOutcomes` starts when it is accepted and makes only its
steps while it is under way. With `KeepsPromise`, by which `ProcessingPipeline` implements the same
specification for one batch alone, this is what lets the two be modelled apart: the batches of an account
do not get in each other's way.

The three modules overlap on purpose and nowhere else: `BatchReservation` creates what
`ProcessingPipeline` starts from (`Init`: jobs CREATED, outbox rows open, vehicle PROCESSING) and
keeps of the pipeline only that a job ends, in one of three ways; `OriginalUploads` keeps of the
reservation its locks and its read of the originals.

### VehicleWizard

The browser's side. A handler of the page runs to its end, so it is one action; every `await` ends one.

| Code | Actions |
|---|---|
| dialog and store (`vehicle-create-dialog.tsx`, `vehicle-create-store.ts`) | `OpenNew`, `OpenExisting`, `Close`, `Leave` (its page goes away), `SetDetails`, `Continue`, `BackToDetails`, `BackToPhotos`, `ToReview`, `BackFromReview`, `Toggle`; `Becomes` unmounts a form that is shown no more |
| `photo-upload-step.tsx`, `create-upload-scheduler.ts` | `AddPhoto`, `Retry`, `Replace`, `Remove` start, drop or abort an upload in the same step; `Settle` gives its slot to the next |
| `upload-photo.ts`, `put-file-with-progress.ts` | `IntentAnswered`, `IntentFails`, `PutDone`, `PutFails`, `CommitAnswered`, `CommitFails` |
| the server's part (`vehicle-repository.ts` and what `OriginalUploads` and `BatchReservation` detail) | `FindByKey`, `ReplayCreate`, `InsertVehicle`, `UpdateDraft`, `ReserveBatch`, `DeleteHandled` |
| requests | `SaveDetails`, `Process`, `Answered` (with `CloseWizard`, or `CloseLeft` of a dialog that went away), `CallFails`, `GiveUp` (closed while the request is still handled), `RemovalAnswered`, `RemovalFails` |

`asset` is what the server holds of a photo, `photos` what the page believes: most of the properties
relate the two. A record `wizard` holds the dialog (`open`, `context`, `session`, `pending`), the dialogs that
went away unclosed (`left`) and the store without its rows (`step`, `mode`, `vehicle`, `details`). The store is one
for the whole document. `Close` (Cancel, Escape, the end of Process) resets it and renews the session. `Leave` is the
other way out: navigation unmounts the page the dialog is in (the launchers are in `dashboard/page.tsx`,
`inventory/page.tsx` and `inventory/[vehicleId]/page.tsx`), its uploads are aborted, and nothing else happens: the next
dialog finds the store as it was, and the handlers of the one that left still wait for their answers, with a
`wizardSession` of their own that never changes again. The session number counts both kinds of end, since the
next dialog has new Idempotency-Keys after either.

### PhoneForms

The pages of one browser that prove a number, between the server of `SignIn` and the provider's widget.
A handler of a page runs to its next `await`; a step is an event, or the answer an await was for.

| Code | Actions |
|---|---|
| the pages and their widget (`phone-sign-in-form.tsx`, `connect-phone-form.tsx`, `request-phone-otp-widget.ts`) | `LoadPage`, `ResolveWidget` |
| `startVerification`, `sendCode`, `resendOtp` | `StartVerification`, `ResendOtp` reserve a challenge (`Reserved`, `ReservedUnsent`, `ReserveFails`), await the provider's script if the page has not loaded it (`load-msg91-widget.ts`: `Loaded`, `LoadFails`), then send or retry (`Sent`, `Retried`, `CallFails`, `CallTellsOver`) |
| `verifyOtp`, `connect` | `VerifyOtp`, the provider's proof (`Proved`, `CallFails`, `CallTellsOver`), the submission (`Verified`, `Linked`, `NotVerified`) |
| `changePhoneNumber`, Cancel, `createAccount` | `ChangeNumber`, `Cancel`, `ChooseCreate`, `BackToChoices`, `SubmitAccount`, `AccountCreated`, `AccountNotCreated` |

What a handler's closure captured at the click is in `flow`, what the page's state says now in `page`: the
properties relate the two to the cookies, which all pages share, and to the provider's requests. The server
here refuses what does not fit together and may refuse anything else; `SignIn` says why it would.

### SignIn

One module for the proofs of a number and of a Google account, because their transactions share
locks and identities. A transaction takes its locks one by one in the order of `LocksOf` (`TakeLock`),
reads (`ReadClaim`, `ReadCompletion`, `ReadAccount`, `ReadLink`, `ReadGoogle`, `ReadGoogleLink`,
`ReadContinuation`) and writes what it read (`Claim`, `Record`, `Authenticate`, `AnswerUnknown`,
`CreateAccount`, `LinkPhone`, `ResolveGoogle`, `IssueSession`, `LinkGoogle`, `Continue`) or rolls back
(`Refuse`, `RollBack`, `RequestLost`). The unique keys of the schema are guards of the writes. `AskProvider`
stands between two transactions, without locks, as `phone-otp-service.ts` has it. `Start`, `StartGoogle`,
`Expire`, `SignOut`, `SignOutEverywhere` complete it.

### Administration

A Google sign-in verifies an address (`Verify`, `VerifyByPhone`) and is considered for the role in
another transaction (`ReadInvite`, `AcceptInvite`, `Bootstrap`, `EvaluateFails`). An administrator's request
is authorized (`Ask`) before its transaction: `FindIdentity`, `CreateRole`, `CreateInvite`
(`grantOrInvite`); `CountAdministrators`, `DeleteRole` (`revoke`); `Withdraw` (`revokeInvite`, without the
lock); `FindProvider`, `ReplacePlan`, `FindPlan`, `CancelPlan` (plans, under the account's lock). `unheard` and
`dismissed` are history variables: no guard reads them.

`SignIn` has how a Google account becomes a session and `Administration` what follows from the address;
they share no state but the identity, which `Administration` keeps as the set `verified`.

In each module a definition whose comment begins with "Variant:" is a plausible error in the
definition below it. No specification uses it: replaced by it, the definition makes the property
named for it in `PROJECT.json` fail, which is how the properties were tested.

## 3. The runs

| Run | Instance | What it shows |
|---|---|---|
| `pipeline_batch` | 2 jobs (one with studio background), 2 handlings, 1 dispatcher, 2 queue slots, 2 attempts, 1 delivery | a claim is exclusive, the attempts tell the job's history, charges stay within attempts, the vehicle follows several jobs, and the pipeline implements `JobOutcomes` |
| `pipeline_recovery` | 1 job, handlings that may outlive leases, 1 queue slot, 3 deliveries | in the local consumer's regime no job is stranded, and the system recovers once faults stop |
| `uploads_races` | 1 original, 2 commits, 2 removals, 2 cleanup runs, a reservation, PUTs that land at any time | uploaded originals are stored, reserved ones kept, and deletion is final |
| `uploads_cleanup` | 2 originals (one unsound), 1 commit, 1 removal, 1 cleanup run, 2 attempts, batches of 1 | a deletion stays owed while its object exists, and the cleanup ends with everything settled |
| `batch_races` | 5 requests: a batch, its retry, another batch of the vehicle, the key used again for another vehicle, a batch too large; a lifetime allowance of 3 | vehicle, jobs and answers agree whatever finishes when; a key names one batch; each batch runs as `JobOutcomes` has it, whatever the others do |
| `batch_allowance` | 3 requests of one tenant for 2 vehicles (one has a key too long), a monthly allowance of 2, 2 months; with fairness | the allowance holds across reservations, completions and the turn of the month; the answers are those of `BatchLedger`; every request is answered and every vehicle settles |
| `vehicle_wizard` | 2 dialogs, the first closed or gone with its page, 2 new photos and a failed original, 2 uploads, 1 slot, 2 requests of which 1 may be given up | slots match the running uploads, only wanted photos are uploaded, photos that go on are stored, the store's vehicle is of a dialog nobody closed, one vehicle and one batch a session |
| `sign_in` | 2 requests, 2 challenges of one number, 2 tokens, each presented from an address of its own, 1 expiry, 1 authorization, 2 accounts, 2 attempts | attempts stay under the cap, a proof opens one session, which is the holder's; contacts are proved; no circular wait for locks |
| `administration` | 2 sign-ins, 2 requests, 2 users, 2 addresses, 1 invitation, 2 plans | never without an administrator, invitations reach their holder, the dismissed stay out, an ended plan is not in force |
| `phone_forms` | a sign-in page and a profile page of one browser, 2 numbers, 3 challenges, 2 requests at the provider; with fairness | the number shown, the challenge, the provider's request and the browser's cookie of a form belong together; a spent request is replaced; no form waits for ever, unless for the provider's script |
| `staged_reuse`, `aborted_before_put` | 1 studio job, 2 handlings, 2 dispatchers, 2 queue slots, 2 attempts, 2 deliveries; 1 session, 1 photo, 1 slot | section 4 |

**Bounds.** Two of each actor is where the races are: the transactions exclude or overtake each
other in pairs, and a third process can only repeat what one of two did (a process that ended is
reused, so a run has arbitrarily many of them in sequence). Two attempts are the least with a
retry and an exhausted budget, and the code's five only lengthen the sequence; two deliveries are the
least with a redelivery and a dead letter (the queue allows 5). With one delivery in `pipeline_batch`
redelivery is left to `pipeline_recovery`, a second message of the same job being sent there by a second
publication. Two dispatchers over two jobs are beyond the runs; what they could break, `NeverStranded`, and
the rest of what `pipeline_batch` checks is proved for any number of dispatchers and deliveries (section 5). `MaxCharges` equals the attempts, `MaxFlying = 1` PUT in flight for an original suffices
because all PUTs of an intent store the same bytes. The batch size of the cleanup is 1 so that one
original waits behind another. Symmetry is used for handlings, dispatcher runs, queue slots, commits,
removals, cleanup runs, uploads, requests, sign-ins and accounts where they differ in name only; the
liveness runs use none.

In `vehicle_wizard` one slot for two uploads makes one wait (the code has four slots), and one request may be
under way that the page gave up on: with two dialogs that is the least in which an answer arrives in another
than asked for it. `MaxTroubled = 1`: details are edited (once) and requests given up in the first dialog only,
because only its requests can be answered in a later one. `LeftWith` is the details with which a dialog may go
away, here the blank ones (no property tells a left draft's details apart), and it goes away only if another can still
be opened. In the proofs all of these are parameters. In `sign_in` two challenges of one
number let one token be presented to both, and one authorization can be called back twice; each token comes
from one of two browsers' addresses, so two claims can want one address or two, and one of the two
challenges may expire. In
`administration` one invitation suffices because a closed one is never opened again, and two
addresses belong to two users so that each can dismiss, invite and be invited. In `phone_forms` three
challenges are a code, the resend of another and a number changed in between; two requests are the least
with one to be replaced; and any page can be loaded again at any time, so two stand for many.

**Deadlock** is not checked in any run: the jobs of a batch, the requests and the uploads end,
and an ended system stops. That they end is what the liveness properties say.

**Fairness.** `RecoversAfterFaults` and `CleanupSettles` have the form
`<>[][CalmNext]_vars => <>[]Good`: of the behaviours whose steps are, from some point on, those of
a system without crashes, lost answers and new requests, they say that they settle, from whatever
the faults before left behind.

- Pipeline: weak fairness of a dispatcher's run (`infrastructure` schedules it for ever), of a
  handling's own steps, of clocks (leases, visibility); strong fairness of delivery, because a
  visible message may be taken by another handling again and again.
- Cleanup: weak fairness of a run's steps (it is scheduled) and of the expiry of a dead run's claim.
  A live run is assumed to end within its lease of 120 s; two runs that always outlive theirs could
  take a message from each other for ever.
- Reservation: weak fairness of the requests together and of a finishing transaction's write; strong fairness of
  the steps of a finish that wait for the vehicle's lock or may be rolled back (`CountActive`,
  `CommitOutcome`): PostgreSQL grants locks in order, and a job's end is tried again until it commits, which
  is the pipeline's recovery.
- Phone forms: weak fairness, page by page, of answers from the server and of timers (a `fetch` ends; each
  call of the widget has its 20 s). The provider is not assumed to answer anything, and its script is assumed
  neither to load nor to fail: `loadMsg91Widget` times what comes after the script's `onload`, not the load
  (`Script` has no fairness).
- Dialog: weak fairness of each upload's steps, that is, requests and timers end. It is assumed for
  `aborted_before_put` alone, whose upload has no step left to be fair to.

## 4. Disagreements between documents and code

Two runs end in a counterexample on purpose; the quotations are in `PROJECT.json`.

- `staged_reuse` (`OwnerCanComplete`): a cutout is staged with the provider's request id of the attempt
  that paid. If that attempt then fails in an orderly way, its row records the id; the retry reuses the
  cutout and records the same id, which `@@unique([provider, providerRequestId])` forbids, so its
  completion rolls back each time.
- `aborted_before_put` (`AbortedUploadsEnd`): an upload aborted before it has its URL opens a request and
  aborts it unsent. That fires no event, so the upload never settles and its slot is lost; after four
  such removals no photo of the step uploads any more, although docs/progress.md:675-676 has active requests
  abort.

Four more are in the models and show in them, but no run is spent on them.

- A crash between the paid call and the staging pays twice (context.md:75); what does hold is
  `ChargesWithinAttempts`.
- The key of the session's usage event is 21 characters longer than the client's, so keys of 108 to
  128 characters, valid by `packages/contracts/src/api.ts:40`, never work (`schema.prisma:573`; `WriteFails`).
- Where handlings may outlive their lease, the branch of `claimJob` for exhausted jobs writes FAILED
  by id over a completion that committed since its read. In the Lambda deployment this does not happen
  (`KeepsPromise`, `OutcomeIsFinal`).
- An invitation withdrawn between the read and the write of its acceptance is accepted
  (docs/security.md:78-79; `AcceptInvite` writes by id, `Withdraw` takes no lock).

Smaller ones that no run is spent on. A dead-lettered job may be PROCESSING, not only QUEUED
(README.md:122): deliveries refused as CLAIM_BUSY count. An exact retry that looked its key up before
the first request committed, and was delayed until that batch ended, can be refused for the allowance
the batch used, because `reserveInTransaction` counts before anything looks for the key again
(docs/progress.md:1079 has competitors resolve to the same records). Batch keys are unique within a
tenant, but the session's usage event is unique over all tenants, so equal keys of two tenants collide
(docs/progress.md:1077); the clients' keys are random.

Of the dialog: only `closeWizard` resets the store (vehicle-create-dialog.tsx:98-105), and it is the only thing a late
answer looks for. After browser Back or another navigation (`Leave`), "create vehicle" opens on the vehicle, step and
photos of the dialog that left, with keys of its own, and its batch is one of the old vehicle. An
answer that the left dialog still waited for is written to the store, whatever is open then: a creation puts its vehicle
and the photos step there, under uploads for another vehicle too (of whose photos the
server makes no batch with the new one's: `ReserveBatch` wants photos of the batch's vehicle), and blanks a dialog opened on an
existing vehicle; the answer to an update shows the photos step of a store that may have no vehicle by now, where each added
photo fails at once; the answer to a batch empties the store under the open dialog. `VehicleOfSession` therefore
speaks of dialogs nobody closed, not of the one that is open, and holds for those.

Leaving the photos step by Back aborts its uploads and leaves their rows SELECTED, PREPARING
or UPLOADING, for which there is no retry (docs/progress.md:1059). A commit whose answer was lost shows
FAILED, and each Retry of it is an IDEMPOTENCY_CONFLICT because an intent needs PENDING_UPLOAD. A photo removed
while it finalizes leaves its committed original behind. Each mount of the step has a scheduler of its own,
so more than four uploads can run after Back and Continue (docs/progress.md:673-675). Details edited while
they are saved can differ from the draft; and if the answer to the creation was lost, saving edited
details is refused until the dialog is closed.

Of the phone forms: the first code of a page awaits the provider's script (`loadMsg91Widget`), which no timer
bounds until its `onload`. A script that neither loads nor reports an error, or whose `initSendOTP` throws inside
`onload` (load-msg91-widget.ts:48), leaves that promise unsettled, with the form's buttons disabled; only a
reload helps, because `loading ??=` gives every later attempt in the document the same promise. `FormsAnswer` therefore
excepts a form that awaits the script, and says that nothing else keeps one waiting.

The connect form's button does not wait for the widget, so a click before the page
has heard of one, or where it never does, reserves a challenge and shows the code field for a code that nobody
sent (docs/phone-otp.md:18-20 sends one; `ReservedUnsent`). The connect form does not remember that a request is
spent and lets it be verified again. A sign-in page opened with a verified number goes on showing it
after another number was proved in the page, and the account is made for the number of the cookies, so with
two pages it can be made for another number than the one shown (`verifiedPhoneNumber`, `SubmitAccount`).

Of the accounts: authorization is read before the lock, so an administrator dismissed meanwhile still
acts once. A dismissed administrator for whom an invitation was left pending regains the role at the next
Google sign-in. A sign-in that continues a phone verification never looks for invitations. A phone challenge
used to link a number is not consumed (docs/phone-otp.md:21 calls it single use). Deleting old
challenges forgets the hashes of their tokens.

## 5. The proofs

The proofs about a module are in modules beside it, named after it. All theorems
hold for every value of the constants the modules' `ConstantsAssumption` allows: any number of jobs,
handlings, dispatchers, messages, originals, requests, cleanup runs, tenants, vehicles, challenges, tokens,
authorizations, accounts, invitations, plans, photos, uploads, pages and phone numbers, infinite sets of them
included.
The assumption only says that the numbers are natural numbers, that subsets are subsets, that a batch has a
job (the contract's `.min(1)`) and finitely many of them, that a vehicle of a request is its tenant's, that
there are details a dialog can hold, that `None` (and `Reserver`) is the name of nothing else, that sign-ins
are not requests, tokens not authorizations, and that no page is both a sign-in and a connect form.

Some theorems assume more, and what they assume is stated in the theorem. Those of
`ProcessingPipelineOutcomes` assume `~SlowHandling`, the Lambda deployment; with `SlowHandling` they
are not claimed (section 2). `DeletionStaysOwed` assumes `~LatePuts`, and `AllowanceHolds` and
`ImplementsLedger` assume `~LateRequests \/ Lifetime`, as the runs of these properties do (section 6).

| Module | Theorem | Property |
|---|---|---|
| `ProcessingPipelineProofs` | `TypeCorrectness` (from `TypeInvariance`) | `TypeOK` (in no run) |
| `ProcessingPipelineProofs` | `NoJobStranded` | `NeverStranded` |
| `ProcessingPipelineOutcomes` | `ClaimsExclude` | `ExclusiveClaim` |
| `ProcessingPipelineOutcomes` | `AttemptsTell` | `AttemptHistory` |
| `ProcessingPipelineOutcomes` | `VehicleFollows` | `VehicleFollowsJobs` |
| `ProcessingPipelineOutcomes` | `ChargesBounded` | `ChargesWithinAttempts` |
| `ProcessingPipelineOutcomes` | `OutcomesAreFinal` | `OutcomeIsFinal` (in no run; `KeepsPromise` implies it) |
| `ProcessingPipelineOutcomes` | `ImplementsOutcomes` | `KeepsPromise` (refinement) |
| `OriginalUploadsProofs` | `UploadedStaysStored` | `UploadedIsStored` |
| `OriginalUploadsProofs` | `ReservedStaysKept` | `ReservedIsKept` |
| `OriginalUploadsProofs` | `DeletedForEver` | `DeletedIsFinal` |
| `OriginalUploadsProofs` | `ObjectsLostByDeletionOnly` | `OnlyDeletedLoseObjects` (proved, in no run) |
| `OriginalUploadsProofs` | `DeletionStaysOwed` | `DeletionIsOwed` |
| `BatchReservationProofs` | `TypeCorrectness` | `TypeOK` (in no run) |
| `BatchReservationProofs` | `OneBatch` | `OneBatchPerKey` |
| `BatchReservationProofs` | `AcceptedHasBatch` | `AcceptedIsRecorded` |
| `BatchReservationProofs` | `ProcessingFollowsBatch` | `ProcessingIffActive` |
| `BatchReservationProofs` | `AttentionFollows` | `AttentionFollowsNewest` |
| `BatchReservationProofs` | `AllowanceHolds` | `AllowanceRespected` |
| `BatchReservationProofs` | `ImplementsLedger` | `KeepsLedger` (refinement) |
| `BatchReservationProofs` | `BatchesCompose` | `BatchesRunAsPromised` |
| `SignInProofs` | `TypeCorrectness` (from `SignInInvariance`) | `TypeOK` |
| `SignInProofs` | `SubmissionsCapped` | `SubmissionsWithinCap` |
| `SignInProofs` | `ProofsOpenOneSession` | `OneSessionPerProof` |
| `SignInProofs` | `SessionsOfHolders` | `SessionIsHolders` |
| `SignInProofs` | `ContactsProven` | `ContactsAreProven` |
| `SignInProofs` | `NoDeadlock` | `NoCircularWait` |
| `VehicleWizardProofs` | `TypeCorrectness` (from `WizardInvariance`) | `TypeOK` (in no run) |
| `VehicleWizardProofs` | `SlotsAreTrue` | `SlotsMatch` |
| `VehicleWizardProofs` | `OnlyWantedUploads` | `UploadsAreWanted` |
| `VehicleWizardProofs` | `StoredPhotosContinue` | `ContinuesWithStoredPhotos` |
| `VehicleWizardProofs` | `OwnVehicle` | `VehicleOfSession` |
| `VehicleWizardProofs` | `CreatedOnce` | `OncePerSession` |
| `AdministrationProofs` | `TypeCorrectness` | `TypeOK` (in no run) |
| `AdministrationProofs` | `AdministratorRemains` | `NeverWithoutAdministrator` |
| `AdministrationProofs` | `DismissalStands` | `DismissedStayOut` |
| `AdministrationProofs` | `InvitationsArrive` | `InvitationReachesHolder` |
| `AdministrationProofs` | `EndedPlansEnd` | `EndedHasNoPlan` |
| `PhoneFormsProofs` | `TypeCorrectness` | `TypeOK` (in no run) |
| `PhoneFormsProofs` | `CodeStepsAgree` | `CodeStepAgrees` |
| `PhoneFormsProofs` | `CookiesBind` | `CookieBindsTheForm` |
| `PhoneFormsProofs` | `SpentReplaced` | `SpentIsReplaced` |

**TypeInv** of the pipeline adds to `TypeOK` what the record types leave open (`WellFormed`): a
handling under way has a message and a job, one that claimed has an attempt number in range, a visible
message may still be received. Without it, `job[worker[w].job]` in an action has no known type.

**StrandInv.** `NeverStranded` is not inductive. A message that is in the queue may already be
acknowledged, so that it vanishes in the next step; and a dispatcher records a publication some steps
after it sent the message. `StrandInv` has one part for each: `Published` asks for a *deliverable*
message (one no handling has acknowledged), `OwnMessage` ties a handling to the job of its message,
and `SentBeforeRecorded` says that a dispatcher which may still record a job as published has sent a
message that is deliverable. The proof has a lemma per kind of step: a handling that moves on, gives up
or acknowledges because its job is done keeps every other job's messages. It uses neither leases nor
`SlowHandling`, so it covers both deployments.

**OutcomeInv** carries everything the pipeline promises about outcomes. `Owned`: a handling in `Claimed` is
the worker of its row, under the attempt number it claimed and a lease that has not expired, so it is the only
one. `ReadBefore` and `Spent` are about the reads whose write comes later: the attempt count a claim read has
only grown since, so the claim either continues the history or hits an existing attempt row and is refused;
and an exhausted job is still the expired row that was read, or failed already, so that the write by id, which
checks nothing, changes nothing it should not. `Delivered`: output, usage event and COMPLETED are the same set
of jobs. `Unpaid`: before the provider is called the charges are below the attempt's number. With
`AttemptHistory`, `VehicleFollowsJobs` and `ChargesWithinAttempts` these are inductive: one lemma for each
kind of step (`ClaimKeeps`, `PayKeeps`, `SettleKeeps`, `ExhaustKeeps`, `RowsMove` for the outbox and the
clock, `HandlingMoves` for everything else). The only use of `~SlowHandling` is in `LeaseKeeps`: a lease that
expires belongs to nobody. The refinement maps every step to the settlement of one job or to a stutter
(`StepSettles`), and gets the vehicle from `VehicleFollowsJobs` before and after the step.

**UploadInv** has six parts: what a commit has read it may rely on (`VerdictsHold`, `CheckedIsStored`),
what a removal or a reservation read under the lock still holds when it writes (`RemovalsHold`,
`ReservationHolds`), a used original is kept (`UsedIsKept`), and a deletion row, a cleanup's work list and
a removal in its S3 step all concern DELETED originals (`DeletionsHold`). The last part is the reason why a
`DeleteObject` issued long after its read cannot hit a live original: DELETED is final, so what was
true when the claim was taken is true when the request arrives. The proof is one lemma for each actor
(`UploadKeeps`, `CommitKeeps`, `RemovalKeeps`, `ReservationKeeps`, `CleanerKeeps`) with one step for each
action. The action properties follow from the same invariant.

**OwedInv** adds to it `DeletionIsOwed` and `ConfirmedIsGone`: the object that a removal or a cleanup run was
told is deleted is still not there when it records its row COMPLETED. That is where `~LatePuts` is needed: a
PUT which lands between the two creates the object again, and the row that owed it is closed.

**RecordInv** of the batches says what rows and answers have to do with each other: the request that was told
CREATED has all its jobs and nobody else's under its key (`BatchWhole`), a job belongs to a request told
CREATED (`JobRecorded`), and a replay found what it asked for (`Replays`). One lemma, `MovesKeepsRecords`, is
about all steps that only move a request; only `WriteKeepsRecords` has to look at the keys, and there
`Duplicate` is what keeps two requests with one key apart: the lookup before the transaction is not needed
for it. **VehicleInv** adds that a job which counted holds its vehicle's lock and that its count is still
what it would find (`CountHolds`); a reservation cannot make it stale, because the vehicle is PROCESSING as
long as the counting job is active. **LedgerInv** adds that a request which was told the allowance suffices
holds its tenant's lock and that it still suffices (`Granted`), which needs that the month it counted is
the current one (`InPeriod`), and that the jobs recorded are finitely many, without which a sum of them says
nothing. A completion moves a job from one of the two sums to the other (`UsedStands`).

**BookInv** and **ChargeInv** are for the two abstract specifications. `ChargeInv` adds to `VehicleInv` that an
active job is not charged yet, and that an end under way bears a month gone by if it is a completion and
none if it is a failure (`EndBills`); `BookInv` is `ChargeInv` and `LedgerInv` with the size of the batches
past the count. The refinement of `BatchLedger` takes an answer, the commit of a batch, the commit of a job's
end and the turn of the month as one step each and the rest as stutters (`LedgerMoves`). The case that matters is
the commit of a batch (`WriteAccepts`): `BatchLedger` asks at that moment for what the code read some steps
before, and the invariant says that it still holds (`Granted`); that the key is free and the vehicle idle is
what the write itself checks. `BatchesCompose` needs that a batch under way is its vehicle's newest and that
all that is active there is its own (`UnderwayIsNewest`): a new batch is of another vehicle, because this one is
PROCESSING, and under another key (`WriteTouchesNone`), and the end of another batch's job is of another
vehicle (`EndElsewhere`). The end of its own job is then a step of `JobOutcomes` (`EndInBatch`), which sees one
batch where the code counts the vehicle's jobs and looks its newest batch up. It needs no assumption on months.

**SignInInv** has four parts. `RowInv`: a token stands in one challenge, and for its number; with it
`SubmissionsWithinCap` and `ContactsAreProven`. `Fit`: what a request under way is about exists
and agrees. `Verdict`: what a transaction has read still holds when it writes, since only the holder of a
challenge's lock counts its attempts or consumes it (`Locking`), and since identities never change hands.
`SessionInv`: the proofs of a session are spent, and an authorization that a request is acting on has opened no
session. That is what `OneSessionPerProof` rests on: a token is spent by the step that opens the session, but an
authorization is used up before, by `Callback`, and the session comes transactions later. One lemma
(`MoveKeepsRequests`) shows that a step of one request keeps what is said of the others; a lemma for each step
then shows what it leaves of its own request. `NoCircularWait` follows from the order of every list of locks
(`Ordered`): what a transaction holds ranks below what it waits for, so in a set of transactions that wait for
each other every one would wait for a lock of a higher rank than another does.

**WizardInv** is two invariants that are proved apart. **UploadInv**, of the photos step: `QueueInv` (queue and
uploads agree, nobody is in the queue twice, the count is the number of slots taken, and somebody waits only when
all slots are), `ControlInv` (an upload that nobody aborted has its photo's controller, so a photo has one such
upload; a controller belongs to the mounted step) and `RowInv` (a photo shown UPLOADED without an error is stored,
unless its row is gone). The last is not inductive without the trace that a DELETE leaves: a request that may still
delete the asset has a row that is gone, is REMOVING or shows an error, and a photo with a controller has no such
request. `DrainKeeps` is about the function the scheduler drains its queue with, and is used by every step that
frees a slot. **RequestInv**, of the dialog: `KeyInv` says that a request carries its own session's key, that of
the open dialog or of one that ended, and that a creation is answered with that session's vehicle; `DialogInv` says
that the store's vehicle is of a dialog nobody closed, and that the dialogs that left are of earlier sessions. With
these a late creation cannot name the vehicle of a closed dialog, because a closed session's number is neither the
open dialog's nor a left one's. The steps of the photos leave the dialog alone and the requests leave the queue
alone (`PhotoStepsRequests`, `UploadsSame`), so that each step is proved for one half only, except those that mount
or unmount the step.

**RoleInv** makes the three invariants about administrators inductive together. `LockHeld` says who holds
the lock in the middle of a transaction. `SomebodyElse`: who is about to be dismissed is an administrator and
not the only one, which stays true because every other step that removes a role needs the same lock.
`BeforeFirst`: until the one-time grant there is no role, no invitation and no request, so the grant cannot
undo a dismissal. `StayOut`: neither a pending invitation nor one about to be accepted is for somebody
dismissed. `Wanted` is about invitations: a pending one is `Considered`, that is, its address is not verified,
or was verified without being considered, or some sign-in is still going to look; it is the only one of its
address; and a sign-in about to accept one has read that one. The case that needs all of these is a sign-in that
ends: what it leaves must not be an invitation that only it would have found.

**PlanInv** says that a request in the middle of a change of plans holds the account's lock
(`PlanLockHeld`), that an account has one live plan by hand (`OneManual`, the promise of the partial index)
and that a plan in force of the account whose plan is about to be cancelled is the row that was read
(`OnlyRow`).

**FormInv** says of each page that it has a good `Form`. `RunsAlone`: a handler runs in its stage with its
buttons disabled, so no other runs beside it. That is why what it captured at the click is still the page's when
its answer comes (`HandlersFit`), although nothing compares the two. `OwnRequest`: the request a page names
was opened by its own widget, so what one page is told about its requests concerns no other. `CodeFits` has the
three properties of a code field, and `LastIsFor`, which they need when the provider reports no id: the
widget then means the last request the page opened, and that has to be for the number shown. A page's step
has to be shown harmless to the others' forms only where it adds a challenge, adds a request, or ends one
(`ChallengeGrows`, `RequestGrows`, `OverGrows`); the rest is a lemma for each handler and answer.

Only model-checked: all liveness (`RecoversAfterFaults`, `CleanupSettles`, `EveryRequestAnswered`,
`VehicleSettles`, `FormsAnswer`), because reasoning about fairness and ENABLED is outside what the prover does; and
the two runs of section 4, which show a counterexample. Of the pipeline with handlings that outlive their lease only
`TypeOK` and `NeverStranded` are proved. Every other property of a passing run is stated by a theorem above.
Induction over data and RECURSIVE operators, which are out of its reach as well, occur in no module.

## 6. Abstractions and limits

- Time is a lease or window that a step may end, and a back-off that may always be over.
- Pixels, checksums, image formats, prices, logs and metrics are left out; an execution ends in an
  outcome (`ok`, `retry`, `terminal`, `invalid`).
- A worker's id and a dispatcher's claim token are fresh for each handling or run in the code; here
  they are the names of slots, which is sound because a slot is reused only when its process ended
  and no row is written with the token of an ended one.
- Dispatchers publish in sub-batches of 10 messages; here messages are sent one by one in any order.
- A staged cutout always carries a provider request id.
- `dlq` is a set of jobs; a message returns from it only when an operator redrives it (`Redrive`; README
  "A job stuck on Processing").
- The newest batch is the last committed one; the code orders by `createdAt`.
- Requests of batches and uploads are authenticated, own their vehicle and are not rate limited. ARCHIVED is
  never written.
- `DeletionIsOwed` is checked for PUTs that end before the original leaves PENDING_UPLOAD: an object
  that a late PUT creates again after its deletion was COMPLETED is owed nothing, and no document says
  otherwise.
- `AllowanceRespected` is checked for months that turn between requests; a request under way at the
  turn is counted in the month it began.
- Hashing a photo and asking for its intent are one await of an upload; several files chosen at once
  are several `AddPhoto` steps; a row's order, progress, labels and treatment are left out.
- A dialog of `VehicleWizard` is handed one vehicle, always the same existing one, and initialises the store
  when it opens; that a page hands another to an open dialog, or the same anew between a close and the navigation that
  follows, is left out, and its details are the blank ones. A dialog that left is gone: that the back-forward
  cache or the router shows its page again is left out.
- The audit outcomes of phone attempts are left out, and so are the windows that limit codes per number and
  per address and attempts per address. A code is counted and inserted in one transaction under the lock of
  the number and then that of the address, which no other transaction takes; an attempt under its challenge's
  lock and then that of the address it comes from, which are both in `LocksOf`.
- The code typed, messages, focus, the resend countdown (which may always be over) and the local driver
  without a provider are left out of `PhoneForms`. An answer of the server is heard whole or not at all: one cut
  off after its headers would leave the new cookie without its challenge. A request that was opened by a
  call given up on is not counted, for no page knows of it.
- A page of `PhoneForms` is a form in a document of its own. Mounting the form again in the same document
  is modelled as another page: its own state, handlers and cookies are so, that the two would share the loaded
  script (or a load that never settles) and the widget's last request is not modelled.
- The provider's subscriptions appear and end at any time; no handler of a payment provider's
  webhooks is in the repository yet.

**Not modelled.** The command rate limiter (its bound is what the statement under its lock says), lifecycle
cleanup (deletes by age), social links (single rows), read paths, the user interface, configuration and
observability, webhook signatures, image composition and plate branding. Most lines of the repository are
these: components that render, schemas that validate, pixels, scripts and copy; a model of them would
restate them.

## 7. The plan

Done: `ProcessingPipeline` with `JobOutcomes` and its liveness, `OriginalUploads` with its liveness,
`BatchReservation` with `BatchLedger` and its composition with `JobOutcomes`, `VehicleWizard`, `PhoneForms`,
`SignIn`, `Administration`; the proofs of section 5.

Next: an abstract specification of an original (an upload is offered, kept or gone), implemented by
`OriginalUploads`, and its use by `VehicleWizard`, whose `asset` is what it promises.
