--------------------------- MODULE OriginalUploads ---------------------------
(***************************************************************************)
(* The originals a dealer uploads: the ImageAsset row, the object a         *)
(* presigned PUT leaves in S3, the commit that checks it, its removal by    *)
(* the user, its reservation for processing and the cleanup of abandoned    *)
(* uploads through the storage-deletion outbox.                             *)
(*                                                                          *)
(* S3 and PostgreSQL share no transaction: every order of the object and    *)
(* row operations of concurrent requests is a behaviour here.  Transactions *)
(* run at READ COMMITTED; those that hold the asset's advisory lock are a   *)
(* read step and a write step.  Time is abstracted into the window of the   *)
(* presigned URL, the lease of a deletion claim, and a back-off that may    *)
(* always be over.                                                          *)
(***************************************************************************)
EXTENDS Naturals, FiniteSets

CONSTANTS Assets,       \* upload intents, one per (user, Idempotency-Key)
          Unsound,      \* those whose file fails the header validation
          Commits,      \* commit requests under way at once
          Removals,     \* removal requests under way at once
          Cleaners,     \* storage-cleanup runs under way at once
          Reserver,     \* the reservation holding the tenant's advisory lock
          MaxAttempts,  \* the cleanup's maximumAttempts
          BatchSize,    \* the cleanup's batchSize
          MaxFlying,    \* bound: PUTs in flight for one object
          LatePuts,     \* TRUE: a PUT may land after its asset left PENDING_UPLOAD
          None

ASSUME ConstantsAssumption ==
  /\ Unsound \subseteq Assets
  /\ MaxAttempts \in Nat \ {0}
  /\ BatchSize \in Nat \ {0}
  /\ MaxFlying \in Nat
  /\ LatePuts \in BOOLEAN
  /\ None \notin Assets \cup Removals \cup Cleaners \cup {Reserver}
  /\ Reserver \notin Removals

VARIABLES asset,      \* ImageAsset.status, NONE before the intent
          reason,     \* why a DELETED asset was deleted (invalidReason)
          used,       \* the assets with a ProcessingJob
          deletion,   \* StorageDeletionOutboxMessage rows, one per asset at most
          window,     \* the presigned URL: open, closed, or past the retention
          flying,     \* PUTs S3 has not finished receiving
          stored,     \* the assets whose object is in S3
          lock,       \* holder of the asset's advisory lock
          commit,     \* commit requests
          removal,    \* removal requests
          reserver,   \* the batch reservation
          cleaner     \* storage-cleanup runs

rows == <<asset, reason, used, deletion>>
s3   == <<window, flying, stored>>
vars == <<asset, reason, used, deletion, window, flying, stored, lock,
          commit, removal, reserver, cleaner>>
-----------------------------------------------------------------------------
Status == {"PENDING_UPLOAD", "UPLOADED", "INVALID", "DELETED"}

NoRow   == [status |-> "NONE", owner |-> None, leased |-> FALSE, attempts |-> 0]
NewRow  == [NoRow EXCEPT !.status = "PENDING"]
IdleRun == [pc |-> "idle", todo |-> {}, at |-> None]
Idle    == [pc |-> "idle", at |-> None]

DeletionRow == [status: {"NONE", "PENDING", "COMPLETED", "FAILED"},
                owner: Cleaners \cup {None}, leased: BOOLEAN,
                attempts: 0..MaxAttempts]
Request(pcs) == [pc: pcs \cup {"idle"}, at: Assets \cup {None}]
Batch(pcs)   == [pc: pcs \cup {"idle"}, todo: SUBSET Assets, at: Assets \cup {None}]

TypeOK ==
  /\ asset \in [Assets -> Status \cup {"NONE"}]
  /\ reason \in [Assets -> {"NONE", "UPLOAD_EXPIRED", "USER_REMOVED_UPLOAD"}]
  /\ used \subseteq Assets
  /\ deletion \in [Assets -> DeletionRow]
  /\ window \in [Assets -> {"open", "closed", "abandoned"}]
  /\ flying \in [Assets -> 0..MaxFlying]
  /\ stored \subseteq Assets
  /\ lock \in [Assets -> Removals \cup {Reserver, None}]
  /\ commit \in [Commits -> Request({"head", "valid", "invalid"})]
  /\ removal \in [Removals -> Request({"write", "delete", "complete"})]
  /\ reserver \in Batch({"read", "insert"})
  /\ cleaner \in [Cleaners -> Batch({"claim", "work", "deleted", "failed"})]

Init ==
  /\ asset = [a \in Assets |-> "NONE"]
  /\ reason = [a \in Assets |-> "NONE"]
  /\ used = {}
  /\ deletion = [a \in Assets |-> NoRow]
  /\ window = [a \in Assets |-> "open"]
  /\ flying = [a \in Assets |-> 0]
  /\ stored = {}
  /\ lock = [a \in Assets |-> None]
  /\ commit = [c \in Commits |-> Idle]
  /\ removal = [r \in Removals |-> Idle]
  /\ reserver = IdleRun
  /\ cleaner = [k \in Cleaners |-> IdleRun]
-----------------------------------------------------------------------------
(* The intent and the upload                                               *)

(* A new intent.  A replay of its key finds the row (the unique key decides *)
(* a race) and hands out the same URL again, or conflicts: no state changes.*)
CreateIntent(a) ==
  /\ asset[a] = "NONE"
  /\ asset' = [asset EXCEPT ![a] = "PENDING_UPLOAD"]
  /\ UNCHANGED <<reason, used, deletion, s3, lock, commit, removal, reserver, cleaner>>

(* The browser sends the file, again after an error of its own.            *)
StartPut(a) ==
  /\ asset[a] # "NONE" /\ window[a] = "open" /\ flying[a] < MaxFlying
  /\ flying' = [flying EXCEPT ![a] = @ + 1]
  /\ UNCHANGED <<rows, window, stored, lock, commit, removal, reserver, cleaner>>

(* S3 has the whole object.  The signature binds length, type, checksum and *)
(* metadata, so every PUT of one intent stores the same object.             *)
PutLands(a) ==
  /\ flying[a] > 0
  /\ LatePuts \/ asset[a] = "PENDING_UPLOAD"
  /\ flying' = [flying EXCEPT ![a] = @ - 1]
  /\ stored' = stored \cup {a}
  /\ UNCHANGED <<rows, window, lock, commit, removal, reserver, cleaner>>

PutLost(a) ==
  /\ flying[a] > 0
  /\ flying' = [flying EXCEPT ![a] = @ - 1]
  /\ UNCHANGED <<rows, window, stored, lock, commit, removal, reserver, cleaner>>

UrlExpires(a) ==
  /\ asset[a] # "NONE" /\ window[a] = "open"
  /\ window' = [window EXCEPT ![a] = "closed"]
  /\ UNCHANGED <<rows, flying, stored, lock, commit, removal, reserver, cleaner>>

(* The retention after uploadExpiresAt is over: no PUT lasts that long.    *)
RetentionEnds(a) ==
  /\ window[a] = "closed" /\ flying[a] = 0
  /\ window' = [window EXCEPT ![a] = "abandoned"]
  /\ UNCHANGED <<rows, flying, stored, lock, commit, removal, reserver, cleaner>>
-----------------------------------------------------------------------------
(* Commit                                                                  *)

(* Any other status is answered without a change.                          *)
BeginCommit(c, a) ==
  /\ commit[c].pc = "idle" /\ asset[a] = "PENDING_UPLOAD"
  /\ commit' = [commit EXCEPT ![c] = [pc |-> "head", at |-> a]]
  /\ UNCHANGED <<rows, s3, lock, removal, reserver, cleaner>>

(* HEAD and the prefix of the object.  An ETag of another PUT, when the     *)
(* browser sends one, makes a sound file invalid.                           *)
Verdicts(a) == IF a \in Unsound THEN {"invalid"} ELSE {"valid", "invalid"}

HeadObject(c) ==
  /\ commit[c].pc = "head"
  /\ IF commit[c].at \in stored
       THEN \E verdict \in Verdicts(commit[c].at) :
              commit' = [commit EXCEPT ![c].pc = verdict]
       ELSE commit' = [commit EXCEPT ![c] = Idle]
  /\ UNCHANGED <<rows, s3, lock, removal, reserver, cleaner>>

(* Variant: the update forgets its condition on PENDING_UPLOAD.            *)
AfterCommitAnyStatus(a, status) == [asset EXCEPT ![a] = status]

AfterCommit(a, status) ==
  [asset EXCEPT ![a] = IF @ = "PENDING_UPLOAD" THEN status ELSE @]

MarkUploaded(c) ==
  /\ commit[c].pc = "valid"
  /\ asset' = AfterCommit(commit[c].at, "UPLOADED")
  /\ commit' = [commit EXCEPT ![c] = Idle]
  /\ UNCHANGED <<reason, used, deletion, s3, lock, removal, reserver, cleaner>>

MarkInvalid(c) ==
  /\ commit[c].pc = "invalid"
  /\ asset' = AfterCommit(commit[c].at, "INVALID")
  /\ commit' = [commit EXCEPT ![c] = Idle]
  /\ UNCHANGED <<reason, used, deletion, s3, lock, removal, reserver, cleaner>>

(* The request dies, or S3 does not answer it.                             *)
CommitEnds(c) ==
  /\ commit[c].pc # "idle"
  /\ commit' = [commit EXCEPT ![c] = Idle]
  /\ UNCHANGED <<rows, s3, lock, removal, reserver, cleaner>>
-----------------------------------------------------------------------------
(* Removal by the user                                                     *)

(* Variant: an original with a job may be removed too.                     *)
RemovableWithJobs(a) == asset[a] = "UPLOADED"

(* An unused upload, or one whose removal is unfinished.                   *)
Removable(a) ==
  /\ a \notin used
  /\ \/ asset[a] = "UPLOADED"
     \/ /\ asset[a] = "DELETED" /\ reason[a] = "USER_REMOVED_UPLOAD"
        /\ deletion[a].status # "COMPLETED"

(* Under the asset's advisory lock; another answer releases it unchanged.  *)
ReadForRemoval(r, a) ==
  /\ removal[r].pc = "idle" /\ lock[a] = None /\ Removable(a)
  /\ lock' = [lock EXCEPT ![a] = r]
  /\ removal' = [removal EXCEPT ![r] = [pc |-> "write", at |-> a]]
  /\ UNCHANGED <<rows, s3, commit, reserver, cleaner>>

(* The row of an earlier attempt is made due again by id alone: its claim   *)
(* and its attempt count stay, and a completion since the read is undone.   *)
WriteRemoval(r) ==
  LET a == removal[r].at IN
  /\ removal[r].pc = "write"
  /\ asset' = [asset EXCEPT ![a] = "DELETED"]
  /\ reason' = [reason EXCEPT ![a] = "USER_REMOVED_UPLOAD"]
  /\ deletion' = [deletion EXCEPT ![a] =
                    IF @.status = "NONE" THEN NewRow
                                         ELSE [@ EXCEPT !.status = "PENDING"]]
  /\ lock' = [lock EXCEPT ![a] = None]
  /\ removal' = [removal EXCEPT ![r].pc = "delete"]
  /\ UNCHANGED <<used, s3, commit, reserver, cleaner>>

(* Variant: a failed delete is reported as done.                           *)
DeleteForRemovalUnchecked(r) ==
  /\ removal[r].pc = "delete"
  /\ stored' \in {stored, stored \ {removal[r].at}}
  /\ removal' = [removal EXCEPT ![r].pc = "complete"]
  /\ UNCHANGED <<rows, window, flying, lock, commit, reserver, cleaner>>

DeleteForRemoval(r) ==
  /\ removal[r].pc = "delete"
  /\ stored' = stored \ {removal[r].at}
  /\ removal' = [removal EXCEPT ![r].pc = "complete"]
  /\ UNCHANGED <<rows, window, flying, lock, commit, reserver, cleaner>>

Completed(row) == [row EXCEPT !.status = "COMPLETED", !.owner = None, !.leased = FALSE]

CompleteRemoval(r) ==
  LET a == removal[r].at IN
  /\ removal[r].pc = "complete"
  /\ deletion' = [deletion EXCEPT ![a] =
       IF @.status \in {"PENDING", "FAILED"} THEN Completed(@) ELSE @]
  /\ removal' = [removal EXCEPT ![r] = Idle]
  /\ UNCHANGED <<asset, reason, used, s3, lock, commit, reserver, cleaner>>

(* The request dies, its delete fails or its transaction rolls back.       *)
RemovalEnds(r) ==
  /\ removal[r].pc # "idle"
  /\ lock' = [a \in Assets |-> IF lock[a] = r THEN None ELSE lock[a]]
  /\ removal' = [removal EXCEPT ![r] = Idle]
  /\ UNCHANGED <<rows, s3, commit, reserver, cleaner>>
-----------------------------------------------------------------------------
(* Reservation for processing, and the worker's verdict on an original     *)

(* Variant: the reservation does not take the assets' advisory locks.      *)
LockAssetsNever(batch) == UNCHANGED lock

LockAssets(batch) ==
  /\ \A a \in batch : lock[a] = None
  /\ lock' = [a \in Assets |-> IF a \in batch THEN Reserver ELSE lock[a]]

BeginReservation(batch) ==
  /\ reserver.pc = "idle" /\ batch # {}
  /\ LockAssets(batch)
  /\ reserver' = [pc |-> "read", todo |-> batch, at |-> None]
  /\ UNCHANGED <<rows, s3, commit, removal, cleaner>>

Unlocked == [a \in Assets |-> IF lock[a] = Reserver THEN None ELSE lock[a]]

ReadForReservation ==
  /\ reserver.pc = "read"
  /\ IF \A a \in reserver.todo : asset[a] = "UPLOADED"
       THEN reserver' = [reserver EXCEPT !.pc = "insert"] /\ UNCHANGED lock
       ELSE reserver' = IdleRun /\ lock' = Unlocked
  /\ UNCHANGED <<rows, s3, commit, removal, cleaner>>

InsertJobs ==
  /\ reserver.pc = "insert"
  /\ used' = used \cup reserver.todo
  /\ lock' = Unlocked
  /\ reserver' = IdleRun
  /\ UNCHANGED <<asset, reason, deletion, s3, commit, removal, cleaner>>

ReservationEnds ==
  /\ reserver.pc # "idle"
  /\ lock' = Unlocked
  /\ reserver' = IdleRun
  /\ UNCHANGED <<rows, s3, commit, removal, cleaner>>

(* failJob marks the original of a job whose image cannot be processed.    *)
InvalidateOriginal(a) ==
  /\ a \in used
  /\ asset' = [asset EXCEPT ![a] = "INVALID"]
  /\ UNCHANGED <<reason, used, deletion, s3, lock, commit, removal, reserver, cleaner>>
-----------------------------------------------------------------------------
(* Storage cleanup                                                         *)

(* A candidate list cut at BatchSize, in an order the model leaves open.   *)
FirstOf(candidates) ==
  {batch \in SUBSET candidates :
     \/ batch = candidates /\ Cardinality(batch) <= BatchSize
     \/ Cardinality(batch) = BatchSize}

Abandoned(a) == asset[a] = "PENDING_UPLOAD" /\ window[a] = "abandoned"

ReserveExpired(k) ==
  /\ cleaner[k].pc = "idle"
  /\ \E batch \in FirstOf({a \in Assets : Abandoned(a)}) :
       /\ asset' = [a \in Assets |-> IF a \in batch THEN "DELETED" ELSE asset[a]]
       /\ reason' = [a \in Assets |-> IF a \in batch THEN "UPLOAD_EXPIRED" ELSE reason[a]]
       /\ deletion' = [a \in Assets |-> IF a \in batch THEN NewRow ELSE deletion[a]]
  /\ cleaner' = [cleaner EXCEPT ![k].pc = "claim"]
  /\ UNCHANGED <<used, s3, lock, commit, removal, reserver>>

(* Variant: the claim of a run that died is never taken over.              *)
DueNeverClaimed(a) == deletion[a].status = "PENDING" /\ deletion[a].owner = None

Due(a) == deletion[a].status = "PENDING" /\ ~deletion[a].leased

Claimed(row, k) ==
  [row EXCEPT !.owner = k, !.leased = TRUE,
              !.attempts = IF @ < MaxAttempts THEN @ + 1 ELSE @]

(* attemptCount is only compared with MaxAttempts: it saturates there.     *)
ClaimDeletions(k) ==
  /\ cleaner[k].pc = "claim"
  /\ \E batch \in FirstOf({a \in Assets : Due(a)}) :
       /\ deletion' = [a \in Assets |->
            IF a \in batch THEN Claimed(deletion[a], k) ELSE deletion[a]]
       /\ cleaner' = [cleaner EXCEPT ![k] =
            [pc |-> IF batch = {} THEN "idle" ELSE "work", todo |-> batch, at |-> None]]
  /\ UNCHANGED <<asset, reason, used, s3, lock, commit, removal, reserver>>

DeleteObject(k, a) ==
  /\ cleaner[k].pc = "work" /\ a \in cleaner[k].todo
  /\ stored' = stored \ {a}
  /\ cleaner' = [cleaner EXCEPT ![k] = [@ EXCEPT !.pc = "deleted", !.at = a]]
  /\ UNCHANGED <<rows, window, flying, lock, commit, removal, reserver>>

DeleteFails(k, a) ==
  /\ cleaner[k].pc = "work" /\ a \in cleaner[k].todo
  /\ cleaner' = [cleaner EXCEPT ![k] = [@ EXCEPT !.pc = "failed", !.at = a]]
  /\ UNCHANGED <<rows, s3, lock, commit, removal, reserver>>

(* The row still is what this run claimed, even if the lease ran out.      *)
Holds(k, a) == deletion[a].status = "PENDING" /\ deletion[a].owner = k

(* The run goes on with its next message.                                  *)
NextMessage(k) ==
  LET rest == cleaner[k].todo \ {cleaner[k].at} IN
  cleaner' = [cleaner EXCEPT ![k] =
    IF rest = {} THEN IdleRun ELSE [pc |-> "work", todo |-> rest, at |-> None]]

MarkDeletionCompleted(k) ==
  LET a == cleaner[k].at IN
  /\ cleaner[k].pc = "deleted"
  /\ deletion' = IF Holds(k, a) THEN [deletion EXCEPT ![a] = Completed(@)] ELSE deletion
  /\ NextMessage(k)
  /\ UNCHANGED <<asset, reason, used, s3, lock, commit, removal, reserver>>

Released(row) == [row EXCEPT !.owner = None, !.leased = FALSE]

(* The claim is released for a later run, or the message given up.         *)
HandleDeletionFailure(k) ==
  LET a == cleaner[k].at
      given == IF deletion[a].attempts >= MaxAttempts THEN "FAILED" ELSE "PENDING" IN
  /\ cleaner[k].pc = "failed"
  /\ deletion' = IF Holds(k, a)
                   THEN [deletion EXCEPT ![a] = [Released(@) EXCEPT !.status = given]]
                   ELSE deletion
  /\ NextMessage(k)
  /\ UNCHANGED <<asset, reason, used, s3, lock, commit, removal, reserver>>

CrashCleaner(k) ==
  /\ cleaner[k].pc # "idle"
  /\ cleaner' = [cleaner EXCEPT ![k] = IdleRun]
  /\ UNCHANGED <<rows, s3, lock, commit, removal, reserver>>

ClaimExpires(a) ==
  /\ deletion[a].leased
  /\ deletion' = [deletion EXCEPT ![a].leased = FALSE]
  /\ UNCHANGED <<asset, reason, used, s3, lock, commit, removal, reserver, cleaner>>
-----------------------------------------------------------------------------
UploadNext(a) ==
  CreateIntent(a) \/ StartPut(a) \/ PutLands(a) \/ PutLost(a)
    \/ UrlExpires(a) \/ RetentionEnds(a)

CommitNext(c) ==
  \/ \E a \in Assets : BeginCommit(c, a)
  \/ HeadObject(c) \/ MarkUploaded(c) \/ MarkInvalid(c) \/ CommitEnds(c)

RemovalNext(r) ==
  \/ \E a \in Assets : ReadForRemoval(r, a)
  \/ WriteRemoval(r) \/ DeleteForRemoval(r) \/ CompleteRemoval(r) \/ RemovalEnds(r)

ReservationNext ==
  \/ \E batch \in SUBSET Assets : BeginReservation(batch)
  \/ ReadForReservation \/ InsertJobs \/ ReservationEnds

(* A run that does not die.                                                *)
CleanerSteps(k) ==
  \/ ReserveExpired(k) \/ ClaimDeletions(k)
  \/ \E a \in Assets : DeleteObject(k, a) \/ DeleteFails(k, a)
  \/ MarkDeletionCompleted(k) \/ HandleDeletionFailure(k)

Next ==
  \/ \E a \in Assets : UploadNext(a) \/ InvalidateOriginal(a) \/ ClaimExpires(a)
  \/ \E c \in Commits : CommitNext(c)
  \/ \E r \in Removals : RemovalNext(r)
  \/ ReservationNext
  \/ \E k \in Cleaners : CleanerSteps(k) \/ CrashCleaner(k)

Spec == Init /\ [][Next]_vars
-----------------------------------------------------------------------------
(* Properties                                                              *)

(* A committed original is in S3 and passed validation, whatever removal,   *)
(* cleanup or second commit raced with its commit (commit-upload-service).  *)
UploadedIsStored == \A a \in Assets : asset[a] = "UPLOADED" => a \in stored \ Unsound

(* An original a job was reserved for keeps its object and no deletion is   *)
(* ever intended for it: the advisory lock makes removal and reservation    *)
(* exclude each other (createImageAssetLockKey).                            *)
ReservedIsKept ==
  \A a \in used : /\ asset[a] \in {"UPLOADED", "INVALID"}
                  /\ a \in stored
                  /\ deletion[a].status = "NONE"

(* Retry authority: while the object of a deleted asset is still in S3, its *)
(* deletion row is not COMPLETED; and a row exists for deleted assets only  *)
(* (docs/progress.md, SC018B1b and SC051).                                  *)
DeletionIsOwed ==
  \A a \in Assets :
    /\ asset[a] = "DELETED" <=> deletion[a].status # "NONE"
    /\ asset[a] = "DELETED" /\ a \in stored => deletion[a].status \in {"PENDING", "FAILED"}

(* Only the object of a deleted asset disappears; an invalid upload keeps   *)
(* its object for audit (docs/progress.md: invalid objects remain retained). *)
OnlyDeletedLoseObjects ==
  [][\A a \in Assets : a \in stored /\ a \notin stored' => asset[a] = "DELETED"]_vars

(* No commit, verdict or reservation brings a deleted asset back.          *)
DeletedIsFinal ==
  [][\A a \in Assets : asset[a] = "DELETED" => asset'[a] = "DELETED"]_vars
=============================================================================
