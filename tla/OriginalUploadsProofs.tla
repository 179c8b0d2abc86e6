------------------------ MODULE OriginalUploadsProofs ------------------------
(***************************************************************************)
(* Proofs about OriginalUploads for any number of originals, requests and   *)
(* cleanup runs: types; that a committed or reserved original keeps its     *)
(* object; that a deletion is final, that only a deletion removes an object *)
(* and that the row which owes the deletion outlives it.                    *)
(***************************************************************************)
EXTENDS OriginalUploads, TLAPS

(* What the types leave open: a request or run under way has its asset.    *)
WellFormed ==
  /\ \A c \in Commits : commit[c].pc # "idle" => commit[c].at \in Assets
  /\ \A r \in Removals : removal[r].pc # "idle" => removal[r].at \in Assets
  /\ \A k \in Cleaners : cleaner[k].pc \in {"deleted", "failed"} => cleaner[k].at \in Assets

TypeInv == TypeOK /\ WellFormed
-----------------------------------------------------------------------------
LEMMA TypeInvInit == Init => TypeInv
<1> SUFFICES ASSUME Init PROVE TypeInv
  OBVIOUS
<1> USE ConstantsAssumption DEF Init
<1>1. deletion \in [Assets -> DeletionRow]
  BY DEF NoRow, DeletionRow
<1>2. /\ commit \in [Commits -> Request({"head", "valid", "invalid"})]
      /\ removal \in [Removals -> Request({"write", "delete", "complete"})]
  BY DEF Idle, Request
<1>3. /\ reserver \in Batch({"read", "insert"})
      /\ cleaner \in [Cleaners -> Batch({"claim", "work", "deleted", "failed"})]
  BY DEF IdleRun, Batch
<1>4. flying \in [Assets -> 0..MaxFlying]
  OBVIOUS
<1>5. WellFormed
  BY DEF WellFormed, Idle, IdleRun
<1> QED BY <1>1, <1>2, <1>3, <1>4, <1>5 DEF TypeInv, TypeOK, Status

LEMMA NewRowType == NewRow \in DeletionRow
<1>1. NoRow \in DeletionRow
  BY ConstantsAssumption DEF NoRow, DeletionRow
<1>2. \A row \in DeletionRow : [row EXCEPT !.status = "PENDING"] \in DeletionRow
  BY DEF DeletionRow
<1> QED BY <1>1, <1>2 DEF NewRow

(* Rows of the deletion outbox stay rows.                                  *)
LEMMA RowTypes ==
  ASSUME NEW row \in DeletionRow
  PROVE  /\ NewRow \in DeletionRow
         /\ [row EXCEPT !.status = "PENDING"] \in DeletionRow
         /\ [row EXCEPT !.leased = FALSE] \in DeletionRow
         /\ Completed(row) \in DeletionRow
         /\ \A k \in Cleaners : Claimed(row, k) \in DeletionRow
         /\ \A given \in {"PENDING", "FAILED"} :
              [Released(row) EXCEPT !.status = given] \in DeletionRow
<1>1. NewRow \in DeletionRow
  BY NewRowType
<1>2. Completed(row) \in DeletionRow
  BY DEF Completed, DeletionRow
<1>3. ASSUME NEW k \in Cleaners PROVE Claimed(row, k) \in DeletionRow
  <2>1. ASSUME NEW n \in 0..MaxAttempts
        PROVE  [row EXCEPT !.owner = k, !.leased = TRUE, !.attempts = n] \in DeletionRow
    BY DEF DeletionRow
  <2>2. (IF row.attempts < MaxAttempts THEN row.attempts + 1 ELSE row.attempts)
          \in 0..MaxAttempts
    BY ConstantsAssumption DEF DeletionRow
  <2> QED BY <2>1, <2>2 DEF Claimed
<1>4. \A given \in {"PENDING", "FAILED"} :
        [Released(row) EXCEPT !.status = given] \in DeletionRow
  BY DEF Released, DeletionRow
<1> QED BY <1>1, <1>2, <1>3, <1>4 DEF DeletionRow

LEMMA ClaimedStatus ==
  ASSUME NEW row \in DeletionRow, NEW k
  PROVE  Claimed(row, k).status = row.status
  BY DEF Claimed, DeletionRow

LEMMA UploadTypes ==
  ASSUME TypeInv, NEW a \in Assets,
         UploadNext(a) \/ InvalidateOriginal(a) \/ ClaimExpires(a)
  PROVE  TypeInv'
<1> USE DEF TypeInv, TypeOK, WellFormed, rows, s3
<1>1. CASE CreateIntent(a)
  BY <1>1 DEF CreateIntent, Status
<1>2. CASE StartPut(a)
  BY <1>2, ConstantsAssumption DEF StartPut
<1>3. CASE PutLands(a)
  BY <1>3, ConstantsAssumption DEF PutLands
<1>4. CASE PutLost(a)
  BY <1>4, ConstantsAssumption DEF PutLost
<1>5. CASE UrlExpires(a)
  BY <1>5 DEF UrlExpires
<1>6. CASE RetentionEnds(a)
  BY <1>6 DEF RetentionEnds
<1>7. CASE InvalidateOriginal(a)
  BY <1>7 DEF InvalidateOriginal, Status
<1>8. CASE ClaimExpires(a)
  <2> DEFINE row == [deletion[a] EXCEPT !.leased = FALSE]
  <2>1. row \in DeletionRow
    <3>1. deletion[a] \in DeletionRow
      OBVIOUS
    <3> QED BY <3>1, RowTypes
  <2>2. deletion' = [deletion EXCEPT ![a] = row]
    BY <1>8 DEF ClaimExpires
  <2> HIDE DEF row
  <2>3. deletion' \in [Assets -> DeletionRow]
    BY <2>1, <2>2
  <2> QED BY <1>8, <2>3 DEF ClaimExpires
<1> QED BY <1>1, <1>2, <1>3, <1>4, <1>5, <1>6, <1>7, <1>8 DEF UploadNext

LEMMA CommitTypes ==
  ASSUME TypeInv, NEW c \in Commits, CommitNext(c)
  PROVE  TypeInv'
<1> DEFINE Rows == Request({"head", "valid", "invalid"})
<1>1. ASSUME NEW h \in Rows, h.pc # "idle" => h.at \in Assets,
             commit' = [commit EXCEPT ![c] = h], asset' \in [Assets -> Status \cup {"NONE"}],
             UNCHANGED <<reason, used, deletion, s3, lock, removal, reserver, cleaner>>
      PROVE  TypeInv'
  <2>1. commit' \in [Commits -> Rows]
    BY <1>1 DEF TypeInv, TypeOK
  <2>2. WellFormed'
    BY <1>1 DEF TypeInv, TypeOK, WellFormed
  <2> QED BY <1>1, <2>1, <2>2 DEF TypeInv, TypeOK, s3
<1>2. commit[c] \in Rows /\ (commit[c].pc # "idle" => commit[c].at \in Assets)
  BY DEF TypeInv, TypeOK, WellFormed
<1>3. asset \in [Assets -> Status \cup {"NONE"}]
  BY DEF TypeInv, TypeOK
<1>4. Idle \in Rows /\ Idle.pc = "idle"
  BY DEF Idle, Request
<1>5. ASSUME NEW a \in Assets, BeginCommit(c, a) PROVE TypeInv'
  <2> DEFINE h == [pc |-> "head", at |-> a]
  <2>1. h \in Rows /\ h.at \in Assets
    BY DEF Request
  <2>2. commit' = [commit EXCEPT ![c] = h]
    BY <1>5 DEF BeginCommit
  <2> HIDE DEF h, Rows
  <2> QED BY <1>1, <1>3, <1>5, <2>1, <2>2 DEF BeginCommit, rows
<1>6. CASE HeadObject(c)
  <2>1. ASSUME NEW verdict \in {"valid", "invalid"},
               commit' = [commit EXCEPT ![c].pc = verdict]
        PROVE  TypeInv'
    <3> DEFINE h == [commit[c] EXCEPT !.pc = verdict]
    <3>1. h \in Rows /\ h.at = commit[c].at
      BY <1>2 DEF Request
    <3>2. commit' = [commit EXCEPT ![c] = h]
      BY <2>1
    <3>3. h.at \in Assets
      BY <1>2, <1>6, <3>1 DEF HeadObject
    <3> HIDE DEF h, Rows
    <3> QED BY <1>1, <1>3, <1>6, <3>1, <3>2, <3>3 DEF HeadObject, rows
  <2>2. CASE commit' = [commit EXCEPT ![c] = Idle]
    <3> HIDE DEF Rows
    <3> QED BY <1>1, <1>3, <1>4, <1>6, <2>2 DEF HeadObject, rows
  <2> QED BY <1>6, <2>1, <2>2 DEF HeadObject, Verdicts
<1>7. CASE MarkUploaded(c) \/ MarkInvalid(c) \/ CommitEnds(c)
  <2>1. asset' \in [Assets -> Status \cup {"NONE"}]
    BY <1>3, <1>7 DEF MarkUploaded, MarkInvalid, CommitEnds, AfterCommit, Status, rows
  <2>2. commit' = [commit EXCEPT ![c] = Idle]
    BY <1>7 DEF MarkUploaded, MarkInvalid, CommitEnds
  <2>3. UNCHANGED <<reason, used, deletion, s3, lock, removal, reserver, cleaner>>
    BY <1>7 DEF MarkUploaded, MarkInvalid, CommitEnds, rows
  <2> HIDE DEF Rows
  <2> QED BY <1>1, <1>4, <2>1, <2>2, <2>3
<1> QED BY <1>5, <1>6, <1>7 DEF CommitNext

LEMMA RemovalTypes ==
  ASSUME TypeInv, NEW r \in Removals, RemovalNext(r)
  PROVE  TypeInv'
<1> DEFINE Rows == Request({"write", "delete", "complete"})
<1>1. ASSUME NEW h \in Rows, h.pc # "idle" => h.at \in Assets,
             removal' = [removal EXCEPT ![r] = h],
             asset' \in [Assets -> Status \cup {"NONE"}],
             reason' \in [Assets -> {"NONE", "UPLOAD_EXPIRED", "USER_REMOVED_UPLOAD"}],
             deletion' \in [Assets -> DeletionRow], stored' \subseteq Assets,
             lock' \in [Assets -> Removals \cup {Reserver, None}],
             UNCHANGED <<used, window, flying, commit, reserver, cleaner>>
      PROVE  TypeInv'
  <2>1. removal' \in [Removals -> Rows]
    BY <1>1 DEF TypeInv, TypeOK
  <2>2. WellFormed'
    BY <1>1 DEF TypeInv, TypeOK, WellFormed
  <2> QED BY <1>1, <2>1, <2>2 DEF TypeInv, TypeOK
<1>2. /\ removal[r] \in Rows
      /\ removal[r].pc # "idle" => removal[r].at \in Assets
  BY DEF TypeInv, TypeOK, WellFormed
<1>3. /\ asset \in [Assets -> Status \cup {"NONE"}]
      /\ reason \in [Assets -> {"NONE", "UPLOAD_EXPIRED", "USER_REMOVED_UPLOAD"}]
      /\ deletion \in [Assets -> DeletionRow] /\ stored \subseteq Assets
      /\ lock \in [Assets -> Removals \cup {Reserver, None}]
  BY DEF TypeInv, TypeOK
<1>4. Idle \in Rows /\ Idle.pc = "idle"
  BY DEF Idle, Request
<1>5. ASSUME NEW pc \in {"delete", "complete"}, removal[r].pc # "idle",
             removal' = [removal EXCEPT ![r].pc = pc]
      PROVE  \E h \in Rows : h.at \in Assets /\ removal' = [removal EXCEPT ![r] = h]
  <2> DEFINE h == [removal[r] EXCEPT !.pc = pc]
  <2>1. h \in Rows /\ h.at = removal[r].at
    BY <1>2 DEF Request
  <2>2. removal' = [removal EXCEPT ![r] = h] /\ h.at \in Assets
    BY <1>2, <1>5, <2>1
  <2> HIDE DEF h, Rows
  <2> QED BY <2>1, <2>2
<1>6. ASSUME NEW a \in Assets, ReadForRemoval(r, a) PROVE TypeInv'
  <2> DEFINE h == [pc |-> "write", at |-> a]
  <2>1. h \in Rows /\ h.at \in Assets
    BY DEF Request
  <2>2. /\ removal' = [removal EXCEPT ![r] = h]
        /\ lock' \in [Assets -> Removals \cup {Reserver, None}]
    BY <1>3, <1>6 DEF ReadForRemoval
  <2> HIDE DEF h, Rows
  <2> QED BY <1>1, <1>3, <1>6, <2>1, <2>2 DEF ReadForRemoval, rows, s3
<1>7. CASE WriteRemoval(r)
  <2>1. PICK h \in Rows : h.at \in Assets /\ removal' = [removal EXCEPT ![r] = h]
    BY <1>5, <1>7 DEF WriteRemoval
  <2>2. deletion' \in [Assets -> DeletionRow]
    <3> DEFINE row == IF deletion[removal[r].at].status = "NONE" THEN NewRow
                      ELSE [deletion[removal[r].at] EXCEPT !.status = "PENDING"]
    <3>1. removal[r].at \in Assets
      BY <1>2, <1>7 DEF WriteRemoval
    <3>2. row \in DeletionRow
      <4>1. deletion[removal[r].at] \in DeletionRow
        BY <1>3, <3>1
      <4> QED BY <4>1, RowTypes
    <3>3. deletion' = [deletion EXCEPT ![removal[r].at] = row]
      BY <1>7 DEF WriteRemoval
    <3> HIDE DEF row
    <3> QED BY <1>3, <3>2, <3>3
  <2>3. /\ asset' \in [Assets -> Status \cup {"NONE"}]
        /\ reason' \in [Assets -> {"NONE", "UPLOAD_EXPIRED", "USER_REMOVED_UPLOAD"}]
        /\ lock' \in [Assets -> Removals \cup {Reserver, None}]
        /\ UNCHANGED <<used, stored, window, flying, commit, reserver, cleaner>>
    BY <1>3, <1>7 DEF WriteRemoval, Status, s3
  <2> HIDE DEF Rows
  <2> QED BY <1>1, <1>3, <2>1, <2>2, <2>3
<1>8. CASE DeleteForRemoval(r)
  <2>1. PICK h \in Rows : h.at \in Assets /\ removal' = [removal EXCEPT ![r] = h]
    BY <1>5, <1>8 DEF DeleteForRemoval
  <2>2. stored' \subseteq Assets /\ UNCHANGED <<rows, window, flying, lock, commit, reserver, cleaner>>
    BY <1>3, <1>8 DEF DeleteForRemoval
  <2> HIDE DEF Rows
  <2> QED BY <1>1, <1>3, <2>1, <2>2 DEF rows
<1>9. CASE CompleteRemoval(r)
  <2> DEFINE row == deletion[removal[r].at]
             after == IF row.status \in {"PENDING", "FAILED"} THEN Completed(row) ELSE row
  <2>1. removal[r].at \in Assets
    BY <1>2, <1>9 DEF CompleteRemoval
  <2>2. after \in DeletionRow
    <3>1. row \in DeletionRow
      BY <1>3, <2>1
    <3> HIDE DEF row
    <3> QED BY <3>1, RowTypes
  <2>3. deletion' = [deletion EXCEPT ![removal[r].at] = after]
    BY <1>9 DEF CompleteRemoval
  <2> HIDE DEF after, Rows
  <2>4. deletion' \in [Assets -> DeletionRow]
    BY <1>3, <2>2, <2>3
  <2> QED BY <1>1, <1>3, <1>4, <1>9, <2>4 DEF CompleteRemoval, s3
<1>10. CASE RemovalEnds(r)
  <2>1. lock' \in [Assets -> Removals \cup {Reserver, None}]
    BY <1>3, <1>10 DEF RemovalEnds
  <2> HIDE DEF Rows
  <2> QED BY <1>1, <1>3, <1>4, <1>10, <2>1 DEF RemovalEnds, rows, s3
<1> QED BY <1>6, <1>7, <1>8, <1>9, <1>10 DEF RemovalNext

LEMMA ReservationTypes ==
  ASSUME TypeInv, ReservationNext
  PROVE  TypeInv'
<1>1. ASSUME reserver' \in Batch({"read", "insert"}), used' \subseteq Assets,
             lock' \in [Assets -> Removals \cup {Reserver, None}],
             UNCHANGED <<asset, reason, deletion, s3, commit, removal, cleaner>>
      PROVE  TypeInv'
  BY <1>1 DEF TypeInv, TypeOK, WellFormed, s3
<1>2. /\ reserver \in Batch({"read", "insert"}) /\ used \subseteq Assets
      /\ lock \in [Assets -> Removals \cup {Reserver, None}]
  BY DEF TypeInv, TypeOK
<1>3. IdleRun \in Batch({"read", "insert"}) /\ Unlocked \in [Assets -> Removals \cup {Reserver, None}]
  BY <1>2 DEF IdleRun, Batch, Unlocked
<1>4. ASSUME NEW batch \in SUBSET Assets, BeginReservation(batch) PROVE TypeInv'
  <2>1. reserver' \in Batch({"read", "insert"})
    BY <1>4 DEF BeginReservation, Batch
  <2> QED BY <1>1, <1>2, <1>4, <2>1 DEF BeginReservation, LockAssets, rows
<1>5. CASE ReadForReservation
  <2>1. [reserver EXCEPT !.pc = "insert"] \in Batch({"read", "insert"})
    BY <1>2 DEF Batch
  <2>2. /\ reserver' \in Batch({"read", "insert"})
        /\ lock' \in [Assets -> Removals \cup {Reserver, None}]
    BY <1>2, <1>3, <1>5, <2>1 DEF ReadForReservation
  <2> QED BY <1>1, <1>2, <1>5, <2>2 DEF ReadForReservation, rows
<1>6. CASE InsertJobs
  <2>1. used' \subseteq Assets
    BY <1>2, <1>6 DEF InsertJobs, Batch
  <2> QED BY <1>1, <1>3, <1>6, <2>1 DEF InsertJobs
<1>7. CASE ReservationEnds
  BY <1>1, <1>2, <1>3, <1>7 DEF ReservationEnds, rows
<1> QED BY <1>4, <1>5, <1>6, <1>7 DEF ReservationNext

LEMMA CleanerTypes ==
  ASSUME TypeInv, NEW k \in Cleaners, CleanerSteps(k) \/ CrashCleaner(k)
  PROVE  TypeInv'
<1> DEFINE Rows == Batch({"claim", "work", "deleted", "failed"})
<1>1. ASSUME NEW h \in Rows, h.pc \in {"deleted", "failed"} => h.at \in Assets,
             cleaner' = [cleaner EXCEPT ![k] = h],
             asset' \in [Assets -> Status \cup {"NONE"}],
             reason' \in [Assets -> {"NONE", "UPLOAD_EXPIRED", "USER_REMOVED_UPLOAD"}],
             deletion' \in [Assets -> DeletionRow], stored' \subseteq Assets,
             UNCHANGED <<used, window, flying, lock, commit, removal, reserver>>
      PROVE  TypeInv'
  <2>1. cleaner' \in [Cleaners -> Rows]
    BY <1>1 DEF TypeInv, TypeOK
  <2>2. WellFormed'
    BY <1>1 DEF TypeInv, TypeOK, WellFormed
  <2> QED BY <1>1, <2>1, <2>2 DEF TypeInv, TypeOK
<1>2. /\ cleaner[k] \in Rows
      /\ cleaner[k].pc \in {"deleted", "failed"} => cleaner[k].at \in Assets
  BY DEF TypeInv, TypeOK, WellFormed
<1>3. /\ asset \in [Assets -> Status \cup {"NONE"}]
      /\ reason \in [Assets -> {"NONE", "UPLOAD_EXPIRED", "USER_REMOVED_UPLOAD"}]
      /\ deletion \in [Assets -> DeletionRow] /\ stored \subseteq Assets
  BY DEF TypeInv, TypeOK
<1>4. IdleRun \in Rows /\ IdleRun.pc = "idle"
  BY DEF IdleRun, Batch
<1>5. CASE ReserveExpired(k)
  <2> DEFINE h == [cleaner[k] EXCEPT !.pc = "claim"]
  <2>1. h \in Rows /\ h.pc = "claim"
    BY <1>2 DEF Batch
  <2>2. cleaner' = [cleaner EXCEPT ![k] = h]
    BY <1>5 DEF ReserveExpired
  <2>3. NewRow \in DeletionRow
    BY NewRowType
  <2>4. PICK batch : /\ asset' = [a \in Assets |-> IF a \in batch THEN "DELETED" ELSE asset[a]]
                     /\ reason' = [a \in Assets |-> IF a \in batch THEN "UPLOAD_EXPIRED" ELSE reason[a]]
                     /\ deletion' = [a \in Assets |-> IF a \in batch THEN NewRow ELSE deletion[a]]
    BY <1>5 DEF ReserveExpired
  <2>5. deletion' \in [Assets -> DeletionRow]
    BY <1>3, <2>3, <2>4
  <2>6. /\ asset' \in [Assets -> Status \cup {"NONE"}]
        /\ reason' \in [Assets -> {"NONE", "UPLOAD_EXPIRED", "USER_REMOVED_UPLOAD"}]
    BY <1>3, <2>4 DEF Status
  <2> HIDE DEF h, Rows
  <2> QED BY <1>1, <1>3, <1>5, <2>1, <2>2, <2>5, <2>6 DEF ReserveExpired, s3
<1>6. CASE ClaimDeletions(k)
  <2>1. PICK batch \in FirstOf({a \in Assets : Due(a)}) :
          /\ deletion' = [a \in Assets |->
               IF a \in batch THEN Claimed(deletion[a], k) ELSE deletion[a]]
          /\ cleaner' = [cleaner EXCEPT ![k] =
               [pc |-> IF batch = {} THEN "idle" ELSE "work", todo |-> batch, at |-> None]]
    BY <1>6 DEF ClaimDeletions
  <2> DEFINE h == [pc |-> IF batch = {} THEN "idle" ELSE "work", todo |-> batch, at |-> None]
  <2>2. h \in Rows /\ h.pc \in {"idle", "work"}
    BY DEF Batch, FirstOf
  <2>3. deletion' \in [Assets -> DeletionRow]
    BY <1>3, <2>1, RowTypes
  <2>4. cleaner' = [cleaner EXCEPT ![k] = h]
    BY <2>1
  <2> HIDE DEF h, Rows
  <2> QED BY <1>1, <1>3, <1>6, <2>2, <2>3, <2>4 DEF ClaimDeletions, s3
<1>7. ASSUME NEW a \in Assets, DeleteObject(k, a) \/ DeleteFails(k, a) PROVE TypeInv'
  <2>1. ASSUME NEW pc \in {"deleted", "failed"},
               cleaner' = [cleaner EXCEPT ![k] = [@ EXCEPT !.pc = pc, !.at = a]]
        PROVE  \E h \in Rows : h.at \in Assets /\ cleaner' = [cleaner EXCEPT ![k] = h]
    <3> DEFINE h == [cleaner[k] EXCEPT !.pc = pc, !.at = a]
    <3>1. h \in Rows /\ h.at = a
      BY <1>2 DEF Batch
    <3>2. cleaner' = [cleaner EXCEPT ![k] = h]
      BY <2>1
    <3> HIDE DEF h, Rows
    <3> QED BY <3>1, <3>2
  <2>2. PICK h \in Rows : h.at \in Assets /\ cleaner' = [cleaner EXCEPT ![k] = h]
    BY <1>7, <2>1 DEF DeleteObject, DeleteFails
  <2>3. stored' \subseteq Assets /\ UNCHANGED <<rows, window, flying, lock, commit, removal, reserver>>
    BY <1>3, <1>7 DEF DeleteObject, DeleteFails, s3
  <2> HIDE DEF Rows
  <2> QED BY <1>1, <1>3, <2>2, <2>3 DEF rows
<1>8. ASSUME NextMessage(k),  cleaner[k].pc \in {"deleted", "failed"},
             deletion' \in [Assets -> DeletionRow],
             UNCHANGED <<asset, reason, used, s3, lock, commit, removal, reserver>>
      PROVE  TypeInv'
  <2> DEFINE rest == cleaner[k].todo \ {cleaner[k].at}
             h == IF rest = {} THEN IdleRun ELSE [pc |-> "work", todo |-> rest, at |-> None]
  <2>1. h \in Rows /\ h.pc \in {"idle", "work"}
    BY <1>2, <1>4 DEF Batch
  <2>2. cleaner' = [cleaner EXCEPT ![k] = h]
    BY <1>8 DEF NextMessage
  <2> HIDE DEF h, Rows
  <2> QED BY <1>1, <1>3, <1>8, <2>1, <2>2 DEF s3
<1>9. CASE MarkDeletionCompleted(k)
  <2>1. deletion' \in [Assets -> DeletionRow]
    BY <1>2, <1>3, <1>9, RowTypes DEF MarkDeletionCompleted
  <2> QED BY <1>8, <1>9, <2>1 DEF MarkDeletionCompleted
<1>10. CASE HandleDeletionFailure(k)
  <2> DEFINE a == cleaner[k].at
             given == IF deletion[a].attempts >= MaxAttempts THEN "FAILED" ELSE "PENDING"
             row == [Released(deletion[a]) EXCEPT !.status = given]
  <2>1. a \in Assets /\ given \in {"PENDING", "FAILED"}
    BY <1>2, <1>10 DEF HandleDeletionFailure
  <2>2. row \in DeletionRow
    <3>1. deletion[a] \in DeletionRow
      BY <1>3, <2>1
    <3> HIDE DEF a, given
    <3> QED BY <2>1, <3>1, RowTypes
  <2>3. deletion' = [deletion EXCEPT ![a] = row] \/ deletion' = deletion
    BY <1>10 DEF HandleDeletionFailure
  <2> HIDE DEF row, a
  <2>4. deletion' \in [Assets -> DeletionRow]
    BY <1>3, <2>2, <2>3
  <2> QED BY <1>8, <1>10, <2>4 DEF HandleDeletionFailure
<1>11. CASE CrashCleaner(k)
  <2> HIDE DEF Rows
  <2> QED BY <1>1, <1>3, <1>4, <1>11 DEF CrashCleaner, rows, s3
<1> QED BY <1>5, <1>6, <1>7, <1>9, <1>10, <1>11 DEF CleanerSteps

LEMMA TypeInvStep == TypeInv /\ [Next]_vars => TypeInv'
<1> SUFFICES ASSUME TypeInv, [Next]_vars PROVE TypeInv'
  OBVIOUS
<1>1. CASE UNCHANGED vars
  BY <1>1 DEF vars, TypeInv, TypeOK, WellFormed
<1> QED BY <1>1, UploadTypes, CommitTypes, RemovalTypes, ReservationTypes, CleanerTypes
        DEF Next

(* Every reachable state is well typed, and every request under way is      *)
(* about an original.                                                      *)
THEOREM TypeInvariance == Spec => []TypeInv
  BY TypeInvInit, TypeInvStep, PTL DEF Spec
-----------------------------------------------------------------------------
(* UploadedIsStored and ReservedIsKept are not inductive: they rest on what *)
(* the requests under way have read.                                        *)

(* A verdict that can still be recorded was passed on an object that is     *)
(* there: only a deleted original loses its object.                         *)
VerdictsHold ==
  /\ \A c \in Commits : commit[c].pc # "idle" => asset[commit[c].at] # "NONE"
  /\ \A c \in Commits :
    /\ commit[c].pc \in {"valid", "invalid"}
    /\ asset[commit[c].at] = "PENDING_UPLOAD"
    => /\ commit[c].at \in stored
       /\ commit[c].pc = "valid" => commit[c].at \notin Unsound

CheckedIsStored ==
  \A a \in Assets : /\ asset[a] \in {"UPLOADED", "INVALID"} => a \in stored
                    /\ asset[a] = "UPLOADED" => a \notin Unsound

(* A removal decided under the asset's lock is still right when it writes; *)
(* after that the original stays deleted.                                  *)
RemovalsHold ==
  \A r \in Removals :
    /\ removal[r].pc = "write" =>
         /\ lock[removal[r].at] = r
         /\ removal[r].at \notin used
         /\ asset[removal[r].at] \in {"UPLOADED", "DELETED"}
    /\ removal[r].pc \in {"delete", "complete"} => asset[removal[r].at] = "DELETED"

(* The same of a reservation.                                              *)
ReservationHolds ==
  \A a \in reserver.todo :
    /\ reserver.pc \in {"read", "insert"} => lock[a] = Reserver
    /\ reserver.pc = "insert" => asset[a] \in {"UPLOADED", "INVALID"}

UsedIsKept == \A a \in used : asset[a] \in {"UPLOADED", "INVALID"}

(* Deletions are intended, claimed and done for deleted originals only.    *)
DeletionsHold ==
  /\ \A a \in Assets : deletion[a].status # "NONE" => asset[a] = "DELETED"
  /\ \A k \in Cleaners : \A a \in cleaner[k].todo : deletion[a].status # "NONE"
  /\ \A k \in Cleaners : cleaner[k].pc \in {"deleted", "failed"} =>
       cleaner[k].at \in cleaner[k].todo

UploadInv == /\ VerdictsHold /\ CheckedIsStored /\ RemovalsHold
             /\ ReservationHolds /\ UsedIsKept /\ DeletionsHold

LEMMA UploadKeeps ==
  ASSUME TypeInv, UploadInv, NEW a \in Assets,
         UploadNext(a) \/ InvalidateOriginal(a) \/ ClaimExpires(a)
  PROVE  UploadInv'
<1> USE DEF UploadInv, VerdictsHold, CheckedIsStored, RemovalsHold, ReservationHolds,
         UsedIsKept, DeletionsHold, TypeInv, TypeOK, WellFormed, rows, s3
<1>1. CASE CreateIntent(a)
  BY <1>1 DEF CreateIntent
<1>2. CASE StartPut(a)
  BY <1>2 DEF StartPut
<1>3. CASE PutLands(a)
  BY <1>3 DEF PutLands
<1>4. CASE PutLost(a)
  BY <1>4 DEF PutLost
<1>5. CASE UrlExpires(a)
  BY <1>5 DEF UrlExpires
<1>6. CASE RetentionEnds(a)
  BY <1>6 DEF RetentionEnds
<1>7. CASE InvalidateOriginal(a)
  BY <1>7 DEF InvalidateOriginal
<1>8. CASE ClaimExpires(a)
  BY <1>8 DEF ClaimExpires, DeletionRow
<1> QED BY <1>1, <1>2, <1>3, <1>4, <1>5, <1>6, <1>7, <1>8 DEF UploadNext

LEMMA CommitKeeps ==
  ASSUME TypeInv, UploadInv, NEW c \in Commits, CommitNext(c)
  PROVE  UploadInv'
<1> USE DEF UploadInv, VerdictsHold, CheckedIsStored, RemovalsHold, ReservationHolds,
         UsedIsKept, DeletionsHold, TypeInv, TypeOK, WellFormed, rows, s3
<1>1. ASSUME NEW a \in Assets, BeginCommit(c, a) PROVE UploadInv'
  BY <1>1 DEF BeginCommit
<1>2. CASE HeadObject(c)
  <2>1. VerdictsHold'
    <3> HIDE DEF UploadInv, CheckedIsStored, RemovalsHold, ReservationHolds,
             UsedIsKept, DeletionsHold, TypeInv, TypeOK, WellFormed
    <3>1. /\ VerdictsHold
          /\ commit \in [Commits -> Request({"head", "valid", "invalid"})]
      BY DEF UploadInv, TypeInv, TypeOK
    <3>2. asset' = asset /\ stored' = stored
      BY <1>2 DEF HeadObject
    <3>3. CASE commit[c].at \in stored
      <4>1. PICK verdict \in Verdicts(commit[c].at) :
              commit' = [commit EXCEPT ![c].pc = verdict]
        BY <1>2, <3>3 DEF HeadObject
      <4>2. verdict = "valid" => commit[c].at \notin Unsound
        BY <4>1 DEF Verdicts
      <4>3. /\ commit'[c].pc = verdict /\ commit'[c].at = commit[c].at
            /\ \A d \in Commits : d # c => commit'[d] = commit[d]
        BY <3>1, <4>1 DEF Request
      <4>4. commit[c].pc # "idle"
        BY <1>2 DEF HeadObject
      <4> QED BY <3>1, <3>2, <3>3, <4>2, <4>3, <4>4
    <3>4. CASE commit[c].at \notin stored
      <4>1. commit' = [commit EXCEPT ![c] = Idle]
        BY <1>2, <3>4 DEF HeadObject
      <4> QED BY <3>1, <3>2, <4>1 DEF Idle
    <3> QED BY <3>3, <3>4
  <2>2. /\ CheckedIsStored' /\ RemovalsHold' /\ ReservationHolds'
        /\ UsedIsKept' /\ DeletionsHold'
    BY <1>2 DEF HeadObject
  <2> QED BY <2>1, <2>2
<1>3. CASE MarkUploaded(c)
  BY <1>3 DEF MarkUploaded, AfterCommit, Idle
<1>4. CASE MarkInvalid(c)
  BY <1>4 DEF MarkInvalid, AfterCommit, Idle
<1>5. CASE CommitEnds(c)
  BY <1>5 DEF CommitEnds, Idle
<1> QED BY <1>1, <1>2, <1>3, <1>4, <1>5 DEF CommitNext

LEMMA RemovalKeeps ==
  ASSUME TypeInv, UploadInv, NEW r \in Removals, RemovalNext(r)
  PROVE  UploadInv'
<1> USE DEF UploadInv, VerdictsHold, CheckedIsStored, RemovalsHold, ReservationHolds,
         UsedIsKept, DeletionsHold, TypeInv, TypeOK, WellFormed, rows, s3
<1>1. ASSUME NEW a \in Assets, ReadForRemoval(r, a) PROVE UploadInv'
  BY <1>1, ConstantsAssumption DEF ReadForRemoval, Removable
<1>2. CASE WriteRemoval(r)
  BY <1>2, ConstantsAssumption DEF WriteRemoval, Request
<1>3. CASE DeleteForRemoval(r)
  BY <1>3, ConstantsAssumption DEF DeleteForRemoval, Request
<1>4. CASE CompleteRemoval(r)
  BY <1>4, ConstantsAssumption DEF CompleteRemoval, Idle, Completed, DeletionRow
<1>5. CASE RemovalEnds(r)
  BY <1>5, ConstantsAssumption DEF RemovalEnds, Idle, Batch
<1> QED BY <1>1, <1>2, <1>3, <1>4, <1>5 DEF RemovalNext

LEMMA ReservationKeeps ==
  ASSUME TypeInv, UploadInv, ReservationNext
  PROVE  UploadInv'
<1> USE DEF UploadInv, VerdictsHold, CheckedIsStored, RemovalsHold, ReservationHolds,
         UsedIsKept, DeletionsHold, TypeInv, TypeOK, WellFormed, rows, s3
<1>1. ASSUME NEW batch \in SUBSET Assets, BeginReservation(batch) PROVE UploadInv'
  BY <1>1, ConstantsAssumption DEF BeginReservation, LockAssets
<1>2. CASE ReadForReservation
  BY <1>2, ConstantsAssumption DEF ReadForReservation, IdleRun, Unlocked, Batch
<1>3. CASE InsertJobs
  BY <1>3, ConstantsAssumption DEF InsertJobs, IdleRun, Unlocked
<1>4. CASE ReservationEnds
  BY <1>4, ConstantsAssumption DEF ReservationEnds, IdleRun, Unlocked
<1> QED BY <1>1, <1>2, <1>3, <1>4 DEF ReservationNext

LEMMA CleanerKeeps ==
  ASSUME TypeInv, UploadInv, NEW k \in Cleaners, CleanerSteps(k) \/ CrashCleaner(k)
  PROVE  UploadInv'
<1> USE DEF UploadInv, VerdictsHold, CheckedIsStored, RemovalsHold, ReservationHolds,
         UsedIsKept, DeletionsHold, TypeInv, TypeOK, WellFormed, rows, s3
<1>1. ASSUME NEW a \in Assets, DeleteObject(k, a) PROVE UploadInv'
  BY <1>1 DEF DeleteObject, Batch
<1>2. ASSUME NEW a \in Assets, DeleteFails(k, a) PROVE UploadInv'
  BY <1>2 DEF DeleteFails, Batch
<1>3. CASE ReserveExpired(k)
  <2>1. PICK batch \in SUBSET {a \in Assets : Abandoned(a)} :
          /\ asset' = [a \in Assets |-> IF a \in batch THEN "DELETED" ELSE asset[a]]
          /\ deletion' = [a \in Assets |-> IF a \in batch THEN NewRow ELSE deletion[a]]
    BY <1>3 DEF ReserveExpired, FirstOf
  <2>2. UNCHANGED <<used, s3, lock, commit, removal, reserver>>
    BY <1>3 DEF ReserveExpired
  <2>3. \A a \in batch : asset[a] = "PENDING_UPLOAD"
    BY <2>1 DEF Abandoned
  <2>4. VerdictsHold'
    <3> HIDE DEF UploadInv, CheckedIsStored, RemovalsHold, ReservationHolds,
             UsedIsKept, DeletionsHold, TypeInv, TypeOK, WellFormed
    <3>1. VerdictsHold /\ commit \in [Commits -> Request({"head", "valid", "invalid"})]
      BY DEF UploadInv, TypeInv, TypeOK
    <3>2. \A c \in Commits : commit[c].pc # "idle" => commit[c].at \in Assets
      BY DEF TypeInv, WellFormed
    <3>3. commit' = commit /\ stored' = stored
      BY <2>2
    <3>4. \A a \in Assets : asset'[a] \in {asset[a], "DELETED"}
      BY <2>1
    <3> QED BY <3>1, <3>2, <3>3, <3>4
  <2>7. CheckedIsStored' /\ ReservationHolds' /\ UsedIsKept'
    <3> HIDE DEF UploadInv, VerdictsHold, RemovalsHold, DeletionsHold, TypeInv, TypeOK,
             WellFormed
    <3>1. /\ CheckedIsStored /\ ReservationHolds /\ UsedIsKept
          /\ used \subseteq Assets /\ reserver.todo \subseteq Assets
      BY DEF UploadInv, TypeInv, TypeOK, Batch
    <3>2. \A a \in Assets : asset'[a] = IF a \in batch THEN "DELETED" ELSE asset[a]
      BY <2>1
    <3>3. used' = used /\ stored' = stored /\ reserver' = reserver /\ lock' = lock
      BY <2>2
    <3>4. \A a \in batch : a \notin used /\ (reserver.pc = "insert" => a \notin reserver.todo)
      BY <2>3, <3>1
    <3> QED BY <3>1, <3>2, <3>3, <3>4
  <2>5. RemovalsHold'
    BY <2>1, <2>2, <2>3 DEF Request
  <2>6. DeletionsHold'
    <3>1. cleaner' = [cleaner EXCEPT ![k].pc = "claim"] /\ cleaner[k].pc = "idle"
      BY <1>3 DEF ReserveExpired
    <3>2. \A q \in Cleaners : /\ cleaner'[q].todo = cleaner[q].todo
                              /\ cleaner'[q].at = cleaner[q].at
                              /\ cleaner[q].todo \subseteq Assets
      BY <3>1 DEF Batch
    <3>3. \A q \in Cleaners : cleaner'[q].pc \in {"deleted", "failed"} =>
                               cleaner[q].pc \in {"deleted", "failed"}
      BY <3>1 DEF Batch
    <3>4. \A a \in Assets : /\ deletion'[a].status # "NONE" => asset'[a] = "DELETED"
                            /\ deletion[a].status # "NONE" => deletion'[a].status # "NONE"
      BY <2>1 DEF NewRow, NoRow
    <3> QED BY <3>2, <3>3, <3>4
  <2> QED BY <2>4, <2>5, <2>6, <2>7
<1>4. CASE ClaimDeletions(k)
  <2>1. PICK batch \in SUBSET {a \in Assets : Due(a)} :
          /\ deletion' = [a \in Assets |->
               IF a \in batch THEN Claimed(deletion[a], k) ELSE deletion[a]]
          /\ cleaner' = [cleaner EXCEPT ![k] =
               [pc |-> IF batch = {} THEN "idle" ELSE "work", todo |-> batch, at |-> None]]
    BY <1>4 DEF ClaimDeletions, FirstOf
  <2>2. /\ VerdictsHold' /\ CheckedIsStored' /\ RemovalsHold'
        /\ ReservationHolds' /\ UsedIsKept'
    BY <1>4 DEF ClaimDeletions
  <2>3. DeletionsHold'
    <3>1. \A a \in Assets : deletion'[a].status = deletion[a].status
      BY <2>1, ClaimedStatus
    <3>2. \A a \in batch : deletion[a].status # "NONE"
      BY <2>1 DEF Due
    <3>3. \A q \in Cleaners : q # k => cleaner'[q] = cleaner[q]
      BY <2>1
    <3>4. cleaner'[k].todo = batch /\ cleaner'[k].pc \notin {"deleted", "failed"}
      BY <2>1
    <3>5. asset' = asset /\ \A q \in Cleaners : cleaner[q].todo \subseteq Assets
      BY <1>4 DEF ClaimDeletions, Batch
    <3> QED BY <2>1, <3>1, <3>2, <3>3, <3>4, <3>5
  <2> QED BY <2>2, <2>3
<1>5. CASE MarkDeletionCompleted(k)
  BY <1>5 DEF MarkDeletionCompleted, NextMessage, IdleRun, Completed, DeletionRow
<1>6. CASE HandleDeletionFailure(k)
  BY <1>6 DEF HandleDeletionFailure, NextMessage, IdleRun, Released, DeletionRow
<1>7. CASE CrashCleaner(k)
  BY <1>7 DEF CrashCleaner, IdleRun
<1> QED BY <1>1, <1>2, <1>3, <1>4, <1>5, <1>6, <1>7 DEF CleanerSteps

LEMMA UploadInvInit == Init => UploadInv
  BY DEF Init, UploadInv, VerdictsHold, CheckedIsStored, RemovalsHold,
         ReservationHolds, UsedIsKept, DeletionsHold, Idle, IdleRun, NoRow

LEMMA UploadInvStep == TypeInv /\ UploadInv /\ [Next]_vars => UploadInv'
<1> SUFFICES ASSUME TypeInv, UploadInv, [Next]_vars PROVE UploadInv'
  OBVIOUS
<1>1. CASE UNCHANGED vars
  BY <1>1 DEF vars, UploadInv, VerdictsHold, CheckedIsStored, RemovalsHold,
              ReservationHolds, UsedIsKept, DeletionsHold
<1> QED BY <1>1, UploadKeeps, CommitKeeps, RemovalKeeps, ReservationKeeps, CleanerKeeps
        DEF Next

(* TypeInv and UploadInv are an invariant of every execution.              *)
THEOREM UploadInvariance == Spec => [](TypeInv /\ UploadInv)
<1>1. TypeInv /\ UploadInv /\ [Next]_vars => (TypeInv /\ UploadInv)'
  BY TypeInvStep, UploadInvStep
<1> QED BY <1>1, TypeInvInit, UploadInvInit, PTL DEF Spec

(* A committed original is in S3 and passed its validation, for any number  *)
(* of commits, removals, reservations, cleanup runs and repeated PUTs.     *)
THEOREM UploadedStaysStored == Spec => []UploadedIsStored
<1>1. TypeInv /\ UploadInv => UploadedIsStored
  BY DEF UploadInv, CheckedIsStored, UploadedIsStored
<1> QED BY <1>1, UploadInvariance, PTL

(* An original with a job keeps its object and is never up for deletion.   *)
THEOREM ReservedStaysKept == Spec => []ReservedIsKept
<1>1. TypeInv /\ UploadInv => ReservedIsKept
  BY DEF TypeInv, TypeOK, UploadInv, CheckedIsStored, UsedIsKept, DeletionsHold,
         ReservedIsKept
<1> QED BY <1>1, UploadInvariance, PTL
-----------------------------------------------------------------------------
(* What a step may do to a deleted original and to the objects.            *)

LEMMA DeletedStays ==
  TypeInv /\ UploadInv /\ [Next]_vars
    => \A a \in Assets : asset[a] = "DELETED" => asset'[a] = "DELETED"
<1> SUFFICES ASSUME TypeInv, UploadInv, [Next]_vars,
                    NEW b \in Assets, asset[b] = "DELETED"
             PROVE  asset'[b] = "DELETED"
  OBVIOUS
<1> USE DEF rows, s3
<1>0. asset \in [Assets -> Status \cup {"NONE"}]
  BY DEF TypeInv, TypeOK
<1>1. ASSUME NEW a \in Assets, UploadNext(a) \/ InvalidateOriginal(a) \/ ClaimExpires(a)
      PROVE  asset'[b] = "DELETED"
  BY <1>0, <1>1 DEF UploadNext, CreateIntent, StartPut, PutLands, PutLost, UrlExpires,
     RetentionEnds, InvalidateOriginal, ClaimExpires, UploadInv, UsedIsKept
<1>2. ASSUME NEW c \in Commits, CommitNext(c) PROVE asset'[b] = "DELETED"
  BY <1>0, <1>2 DEF CommitNext, BeginCommit, HeadObject, MarkUploaded, MarkInvalid,
     CommitEnds, AfterCommit
<1>3. ASSUME NEW r \in Removals, RemovalNext(r) PROVE asset'[b] = "DELETED"
  BY <1>0, <1>3 DEF RemovalNext, ReadForRemoval, WriteRemoval, DeleteForRemoval,
     CompleteRemoval, RemovalEnds
<1>4. CASE ReservationNext
  BY <1>4 DEF ReservationNext, BeginReservation, ReadForReservation, InsertJobs,
     ReservationEnds
<1>5. ASSUME NEW k \in Cleaners, CleanerSteps(k) \/ CrashCleaner(k)
      PROVE  asset'[b] = "DELETED"
  BY <1>0, <1>5 DEF CleanerSteps, ReserveExpired, ClaimDeletions, DeleteObject,
     DeleteFails, MarkDeletionCompleted, HandleDeletionFailure, CrashCleaner
<1>6. CASE UNCHANGED vars
  BY <1>6 DEF vars
<1> QED BY <1>1, <1>2, <1>3, <1>4, <1>5, <1>6 DEF Next

LEMMA ObjectsStay ==
  TypeInv /\ UploadInv /\ [Next]_vars
    => \A a \in Assets : a \in stored /\ a \notin stored' => asset[a] = "DELETED"
<1> SUFFICES ASSUME TypeInv, UploadInv, [Next]_vars,
                    NEW b \in Assets, b \in stored, b \notin stored'
             PROVE  asset[b] = "DELETED"
  OBVIOUS
<1> USE DEF rows, s3
<1>1. ASSUME NEW a \in Assets
      PROVE  ~(UploadNext(a) \/ InvalidateOriginal(a) \/ ClaimExpires(a))
  BY DEF UploadNext, CreateIntent, StartPut, PutLands, PutLost, UrlExpires,
     RetentionEnds, InvalidateOriginal, ClaimExpires
<1>2. ASSUME NEW c \in Commits PROVE ~CommitNext(c)
  BY DEF CommitNext, BeginCommit, HeadObject, MarkUploaded, MarkInvalid, CommitEnds
<1>3. ASSUME NEW r \in Removals, RemovalNext(r) PROVE asset[b] = "DELETED"
  BY <1>3 DEF RemovalNext, ReadForRemoval, WriteRemoval, DeleteForRemoval,
     CompleteRemoval, RemovalEnds, UploadInv, RemovalsHold
<1>4. ~ReservationNext
  BY DEF ReservationNext, BeginReservation, ReadForReservation, InsertJobs,
     ReservationEnds
<1>5. ASSUME NEW k \in Cleaners, CleanerSteps(k) \/ CrashCleaner(k)
      PROVE  asset[b] = "DELETED"
  BY <1>5 DEF CleanerSteps, ReserveExpired, ClaimDeletions, DeleteObject, DeleteFails,
     MarkDeletionCompleted, HandleDeletionFailure, CrashCleaner, UploadInv, DeletionsHold
<1>6. ~UNCHANGED vars
  BY DEF vars
<1> QED BY <1>1, <1>2, <1>3, <1>4, <1>5, <1>6 DEF Next

(* No commit, verdict or reservation brings a deleted original back.       *)
THEOREM DeletedForEver == Spec => DeletedIsFinal
<1>1. TypeInv /\ UploadInv /\ [Next]_vars
        => [\A a \in Assets : asset[a] = "DELETED" => asset'[a] = "DELETED"]_vars
  BY DeletedStays
<1> QED BY <1>1, UploadInvariance, PTL DEF Spec, DeletedIsFinal

(* Only the object of a deleted original disappears.                       *)
THEOREM ObjectsLostByDeletionOnly == Spec => OnlyDeletedLoseObjects
<1>1. TypeInv /\ UploadInv /\ [Next]_vars
        => [\A a \in Assets : a \in stored /\ a \notin stored' => asset[a] = "DELETED"]_vars
  BY ObjectsStay
<1> QED BY <1>1, UploadInvariance, PTL DEF Spec, OnlyDeletedLoseObjects
-----------------------------------------------------------------------------
(* The retry authority of a deletion, when no PUT lands after its original  *)
(* has left PENDING_UPLOAD.                                                *)

(* What S3 confirmed as deleted is still gone when the row is completed.   *)
ConfirmedIsGone ==
  /\ \A r \in Removals : removal[r].pc = "complete" => removal[r].at \notin stored
  /\ \A k \in Cleaners : cleaner[k].pc = "deleted" => cleaner[k].at \notin stored

OwedInv == TypeInv /\ UploadInv /\ DeletionIsOwed /\ ConfirmedIsGone

(* Steps that add no object and leave the rows' status and the asset's      *)
(* being deleted as they were.                                             *)
LEMMA OwedStands ==
  ASSUME DeletionIsOwed, ConfirmedIsGone, stored' \subseteq stored,
         \A a \in Assets : /\ asset'[a] = "DELETED" <=> asset[a] = "DELETED"
                           /\ deletion'[a].status = deletion[a].status,
         \A r \in Removals : removal'[r].pc = "complete" =>
           removal'[r].at \notin stored'
             \/ (removal[r].pc = "complete" /\ removal'[r].at = removal[r].at),
         \A k \in Cleaners : cleaner'[k].pc = "deleted" =>
           cleaner'[k].at \notin stored'
             \/ (cleaner[k].pc = "deleted" /\ cleaner'[k].at = cleaner[k].at)
  PROVE  DeletionIsOwed' /\ ConfirmedIsGone'
BY DEF DeletionIsOwed, ConfirmedIsGone

LEMMA UploadKeepsOwed ==
  ASSUME OwedInv, ~LatePuts, NEW a \in Assets,
         UploadNext(a) \/ InvalidateOriginal(a) \/ ClaimExpires(a)
  PROVE  DeletionIsOwed' /\ ConfirmedIsGone'
<1>1. /\ DeletionIsOwed /\ ConfirmedIsGone
      /\ asset \in [Assets -> Status \cup {"NONE"}] /\ deletion \in [Assets -> DeletionRow]
  BY DEF OwedInv, TypeInv, TypeOK
<1>2. CASE PutLands(a)
  <2>1. /\ asset[a] = "PENDING_UPLOAD" /\ stored' = stored \cup {a}
        /\ UNCHANGED <<asset, deletion, removal, cleaner>>
    BY <1>2 DEF PutLands, rows
  <2>2. \A r \in Removals : removal[r].pc = "complete" => removal[r].at # a
    BY <2>1 DEF OwedInv, UploadInv, RemovalsHold
  <2>3. \A k \in Cleaners : cleaner[k].pc = "deleted" => cleaner[k].at # a
    BY <2>1 DEF OwedInv, UploadInv, DeletionsHold
  <2> QED BY <1>1, <2>1, <2>2, <2>3 DEF DeletionIsOwed, ConfirmedIsGone
<1>3. CASE CreateIntent(a) \/ InvalidateOriginal(a)
  <2>1. asset[a] # "DELETED"
    BY <1>3 DEF CreateIntent, InvalidateOriginal, OwedInv, UploadInv, UsedIsKept
  <2>2. UNCHANGED <<deletion, stored, removal, cleaner>>
    BY <1>3 DEF CreateIntent, InvalidateOriginal, s3
  <2>3. \A b \in Assets : asset'[b] = "DELETED" <=> asset[b] = "DELETED"
    BY <1>1, <1>3, <2>1 DEF CreateIntent, InvalidateOriginal
  <2> QED BY <1>1, <2>2, <2>3, OwedStands
<1>4. CASE ClaimExpires(a)
  <2>1. \A b \in Assets : deletion'[b].status = deletion[b].status
    BY <1>1, <1>4 DEF ClaimExpires, DeletionRow
  <2> QED BY <1>1, <1>4, <2>1, OwedStands DEF ClaimExpires, s3
<1>5. CASE StartPut(a) \/ PutLost(a) \/ UrlExpires(a) \/ RetentionEnds(a)
  <2>1. UNCHANGED <<asset, deletion, stored, removal, cleaner>>
    BY <1>5 DEF StartPut, PutLost, UrlExpires, RetentionEnds, rows
  <2> QED BY <1>1, <2>1, OwedStands
<1> QED BY <1>2, <1>3, <1>4, <1>5 DEF UploadNext

LEMMA RequestsKeepOwed ==
  ASSUME OwedInv, (\E c \in Commits : CommitNext(c)) \/ ReservationNext
  PROVE  DeletionIsOwed' /\ ConfirmedIsGone'
<1>1. DeletionIsOwed /\ ConfirmedIsGone /\ asset \in [Assets -> Status \cup {"NONE"}]
  BY DEF OwedInv, TypeInv, TypeOK
<1>2. UNCHANGED <<deletion, stored, removal, cleaner>>
  BY DEF CommitNext, BeginCommit, HeadObject, MarkUploaded, MarkInvalid, CommitEnds,
     ReservationNext, BeginReservation, ReadForReservation, InsertJobs, ReservationEnds,
     rows, s3
<1>3. \A a \in Assets : asset'[a] = "DELETED" <=> asset[a] = "DELETED"
  BY <1>1 DEF CommitNext, BeginCommit, HeadObject, MarkUploaded, MarkInvalid, CommitEnds,
     AfterCommit, ReservationNext, BeginReservation, ReadForReservation, InsertJobs,
     ReservationEnds, rows
<1> QED BY <1>1, <1>2, <1>3, OwedStands

LEMMA RemovalKeepsOwed ==
  ASSUME OwedInv, NEW r \in Removals, RemovalNext(r)
  PROVE  DeletionIsOwed' /\ ConfirmedIsGone'
<1> DEFINE a == removal[r].at
<1>1. /\ DeletionIsOwed /\ ConfirmedIsGone
      /\ asset \in [Assets -> Status \cup {"NONE"}] /\ deletion \in [Assets -> DeletionRow]
      /\ removal \in [Removals -> Request({"write", "delete", "complete"})]
      /\ removal[r].pc # "idle" => a \in Assets
  BY DEF OwedInv, TypeInv, TypeOK, WellFormed
<1>2. ASSUME NEW b \in Assets, ReadForRemoval(r, b)
      PROVE  DeletionIsOwed' /\ ConfirmedIsGone'
  <2>1. UNCHANGED <<asset, deletion, stored, cleaner>>
    BY <1>2 DEF ReadForRemoval, rows, s3
  <2>2. removal'[r].pc = "write" /\ \A q \in Removals \ {r} : removal'[q] = removal[q]
    BY <1>1, <1>2 DEF ReadForRemoval
  <2> QED BY <1>1, <2>1, <2>2, OwedStands
<1>3. CASE WriteRemoval(r)
  <2>1. /\ asset' = [asset EXCEPT ![a] = "DELETED"]
        /\ deletion' = [deletion EXCEPT ![a] = IF @.status = "NONE" THEN NewRow
                                               ELSE [@ EXCEPT !.status = "PENDING"]]
        /\ UNCHANGED <<stored, cleaner>>
        /\ removal' = [removal EXCEPT ![r].pc = "delete"]
        /\ a \in Assets
    BY <1>1, <1>3 DEF WriteRemoval, s3
  <2>2. deletion'[a].status = "PENDING"
    BY <1>1, <2>1 DEF NewRow, NoRow, DeletionRow
  <2>3. \A b \in Assets \ {a} : asset'[b] = asset[b] /\ deletion'[b] = deletion[b]
    BY <1>1, <2>1
  <2>4. asset'[a] = "DELETED"
    BY <1>1, <2>1
  <2>5. removal'[r].pc = "delete" /\ \A q \in Removals \ {r} : removal'[q] = removal[q]
    BY <1>1, <2>1 DEF Request
  <2> HIDE DEF a
  <2> QED BY <1>1, <2>1, <2>2, <2>3, <2>4, <2>5 DEF DeletionIsOwed, ConfirmedIsGone
<1>4. CASE DeleteForRemoval(r)
  <2>1. /\ stored' = stored \ {a} /\ UNCHANGED <<asset, deletion, cleaner>>
        /\ removal' = [removal EXCEPT ![r].pc = "complete"]
    BY <1>4 DEF DeleteForRemoval, rows
  <2>2. removal'[r].at = a /\ \A q \in Removals \ {r} : removal'[q] = removal[q]
    BY <1>1, <2>1 DEF Request
  <2> HIDE DEF a
  <2> QED BY <1>1, <2>1, <2>2, OwedStands
<1>5. CASE CompleteRemoval(r)
  <2>1. /\ deletion' = [deletion EXCEPT ![a] =
             IF @.status \in {"PENDING", "FAILED"} THEN Completed(@) ELSE @]
        /\ UNCHANGED <<asset, stored, cleaner>> /\ removal' = [removal EXCEPT ![r] = Idle]
        /\ removal[r].pc = "complete" /\ a \in Assets
    BY <1>1, <1>5 DEF CompleteRemoval, s3
  <2>2. deletion'[a].status # "NONE" <=> deletion[a].status # "NONE"
    BY <1>1, <2>1 DEF Completed, DeletionRow
  <2>3. \A b \in Assets \ {a} : deletion'[b] = deletion[b]
    BY <1>1, <2>1
  <2>4. a \notin stored
    BY <1>1, <2>1 DEF ConfirmedIsGone
  <2>5. removal'[r].pc = "idle" /\ \A q \in Removals \ {r} : removal'[q] = removal[q]
    BY <1>1, <2>1 DEF Idle
  <2> HIDE DEF a
  <2> QED BY <1>1, <2>1, <2>2, <2>3, <2>4, <2>5 DEF DeletionIsOwed, ConfirmedIsGone
<1>6. CASE RemovalEnds(r)
  <2>1. UNCHANGED <<asset, deletion, stored, cleaner>> /\ removal' = [removal EXCEPT ![r] = Idle]
    BY <1>6 DEF RemovalEnds, rows, s3
  <2>2. removal'[r].pc = "idle" /\ \A q \in Removals \ {r} : removal'[q] = removal[q]
    BY <1>1, <2>1 DEF Idle
  <2> QED BY <1>1, <2>1, <2>2, OwedStands
<1> QED BY <1>2, <1>3, <1>4, <1>5, <1>6 DEF RemovalNext

LEMMA CleanerKeepsOwed ==
  ASSUME OwedInv, NEW k \in Cleaners, CleanerSteps(k) \/ CrashCleaner(k)
  PROVE  DeletionIsOwed' /\ ConfirmedIsGone'
<1> DEFINE at == cleaner[k].at
<1>1. /\ DeletionIsOwed /\ ConfirmedIsGone
      /\ asset \in [Assets -> Status \cup {"NONE"}] /\ deletion \in [Assets -> DeletionRow]
      /\ cleaner \in [Cleaners -> Batch({"claim", "work", "deleted", "failed"})]
      /\ cleaner[k].pc \in {"deleted", "failed"} => at \in Assets
  BY DEF OwedInv, TypeInv, TypeOK, WellFormed
<1>2. CASE ReserveExpired(k)
  <2>1. PICK batch \in SUBSET {a \in Assets : Abandoned(a)} :
          /\ asset' = [a \in Assets |-> IF a \in batch THEN "DELETED" ELSE asset[a]]
          /\ deletion' = [a \in Assets |-> IF a \in batch THEN NewRow ELSE deletion[a]]
    BY <1>2 DEF ReserveExpired, FirstOf
  <2>2. UNCHANGED <<stored, removal>> /\ cleaner' = [cleaner EXCEPT ![k].pc = "claim"]
    BY <1>2 DEF ReserveExpired, s3
  <2>3. NewRow.status = "PENDING"
    BY DEF NewRow, NoRow
  <2>4. cleaner'[k].pc = "claim" /\ \A q \in Cleaners \ {k} : cleaner'[q] = cleaner[q]
    BY <1>1, <2>2 DEF Batch
  <2> QED BY <1>1, <2>1, <2>2, <2>3, <2>4 DEF DeletionIsOwed, ConfirmedIsGone
<1>3. CASE ClaimDeletions(k)
  <2>1. PICK batch \in SUBSET Assets :
          /\ deletion' = [a \in Assets |->
               IF a \in batch THEN Claimed(deletion[a], k) ELSE deletion[a]]
          /\ cleaner' = [cleaner EXCEPT ![k] =
               [pc |-> IF batch = {} THEN "idle" ELSE "work", todo |-> batch, at |-> None]]
    BY <1>3 DEF ClaimDeletions, FirstOf
  <2>2. UNCHANGED <<asset, stored, removal>>
    BY <1>3 DEF ClaimDeletions, s3
  <2>3. \A a \in Assets : deletion'[a].status = deletion[a].status
    BY <1>1, <2>1, ClaimedStatus
  <2>4. cleaner'[k].pc # "deleted" /\ \A q \in Cleaners \ {k} : cleaner'[q] = cleaner[q]
    BY <1>1, <2>1
  <2> QED BY <1>1, <2>2, <2>3, <2>4, OwedStands
<1>4. ASSUME NEW a \in Assets, DeleteObject(k, a) \/ DeleteFails(k, a)
      PROVE  DeletionIsOwed' /\ ConfirmedIsGone'
  <2>1. UNCHANGED <<asset, deletion, removal>> /\ stored' \subseteq stored
    BY <1>4 DEF DeleteObject, DeleteFails, rows, s3
  <2>2. \A q \in Cleaners \ {k} : cleaner'[q] = cleaner[q]
    BY <1>1, <1>4 DEF DeleteObject, DeleteFails
  <2>3. CASE DeleteObject(k, a)
    <3> DEFINE h == [cleaner[k] EXCEPT !.pc = "deleted", !.at = a]
    <3>1. h.at = a
      BY <1>1 DEF Batch
    <3>2. cleaner' = [cleaner EXCEPT ![k] = h]
      BY <2>3 DEF DeleteObject
    <3> HIDE DEF h
    <3>3. cleaner'[k].at = a /\ stored' = stored \ {a}
      BY <1>1, <2>3, <3>1, <3>2 DEF DeleteObject
    <3> QED BY <1>1, <2>1, <2>2, <3>3, OwedStands
  <2>4. CASE DeleteFails(k, a)
    <3>1. cleaner'[k].pc = "failed"
      BY <1>1, <2>4 DEF DeleteFails, Batch
    <3> QED BY <1>1, <2>1, <2>2, <3>1, OwedStands
  <2> QED BY <1>4, <2>3, <2>4
<1>5. NextMessage(k) => /\ cleaner'[k].pc # "deleted"
                        /\ \A q \in Cleaners \ {k} : cleaner'[q] = cleaner[q]
  BY <1>1 DEF NextMessage, IdleRun
<1>6. CASE MarkDeletionCompleted(k)
  <2>1. /\ deletion' = IF Holds(k, at) THEN [deletion EXCEPT ![at] = Completed(@)] ELSE deletion
        /\ UNCHANGED <<asset, stored, removal>> /\ NextMessage(k)
        /\ cleaner[k].pc = "deleted" /\ at \in Assets /\ at \notin stored
    BY <1>1, <1>6 DEF MarkDeletionCompleted, s3, ConfirmedIsGone
  <2> HIDE DEF at
  <2>2. /\ deletion'[at].status # "NONE" <=> deletion[at].status # "NONE"
        /\ \A b \in Assets \ {at} : deletion'[b] = deletion[b]
    BY <1>1, <2>1 DEF Completed, DeletionRow, Holds
  <2> QED BY <1>1, <1>5, <2>1, <2>2 DEF DeletionIsOwed, ConfirmedIsGone
<1>7. CASE HandleDeletionFailure(k)
  <2> DEFINE given == IF deletion[at].attempts >= MaxAttempts THEN "FAILED" ELSE "PENDING"
  <2>1. /\ deletion' = IF Holds(k, at)
                         THEN [deletion EXCEPT ![at] = [Released(@) EXCEPT !.status = given]]
                         ELSE deletion
        /\ UNCHANGED <<asset, stored, removal>> /\ NextMessage(k) /\ at \in Assets
    BY <1>1, <1>7 DEF HandleDeletionFailure, s3
  <2>2. given \in {"PENDING", "FAILED"}
    OBVIOUS
  <2> HIDE DEF at, given
  <2>3. CASE Holds(k, at)
    <3> DEFINE row == [Released(deletion[at]) EXCEPT !.status = given]
    <3>1. row.status \in {"PENDING", "FAILED"}
      <4>1. deletion[at] \in DeletionRow
        BY <1>1, <2>1
      <4> QED BY <2>2, <4>1 DEF Released, DeletionRow
    <3>2. deletion' = [deletion EXCEPT ![at] = row]
      BY <2>1, <2>3
    <3> HIDE DEF row
    <3>3. deletion'[at] = row /\ \A b \in Assets \ {at} : deletion'[b] = deletion[b]
      BY <1>1, <2>1, <3>2
    <3>4. asset[at] = "DELETED"
      BY <1>1, <2>1, <2>3 DEF Holds, DeletionIsOwed
    <3> QED BY <1>1, <1>5, <2>1, <3>1, <3>3, <3>4 DEF DeletionIsOwed, ConfirmedIsGone
  <2>4. CASE ~Holds(k, at)
    BY <1>1, <1>5, <2>1, <2>4, OwedStands
  <2> QED BY <2>3, <2>4
<1>8. CASE CrashCleaner(k)
  <2>1. /\ UNCHANGED <<asset, deletion, stored, removal>>
        /\ cleaner'[k].pc = "idle" /\ \A q \in Cleaners \ {k} : cleaner'[q] = cleaner[q]
    BY <1>1, <1>8 DEF CrashCleaner, rows, s3, IdleRun
  <2> QED BY <1>1, <2>1, OwedStands
<1> QED BY <1>2, <1>3, <1>4, <1>6, <1>7, <1>8 DEF CleanerSteps

LEMMA OwedInit == Init => OwedInv
<1> SUFFICES ASSUME Init PROVE DeletionIsOwed /\ ConfirmedIsGone
  BY TypeInvInit, UploadInvInit DEF OwedInv
<1> QED BY DEF Init, DeletionIsOwed, ConfirmedIsGone, NoRow, Idle, IdleRun

LEMMA OwedStep == ~LatePuts /\ OwedInv /\ [Next]_vars => OwedInv'
<1> SUFFICES ASSUME ~LatePuts, OwedInv, [Next]_vars PROVE DeletionIsOwed' /\ ConfirmedIsGone'
  BY TypeInvStep, UploadInvStep DEF OwedInv
<1>1. CASE UNCHANGED vars
  BY <1>1 DEF vars, OwedInv, DeletionIsOwed, ConfirmedIsGone
<1> QED BY <1>1, UploadKeepsOwed, RequestsKeepOwed, RemovalKeepsOwed, CleanerKeepsOwed DEF Next

(* While the object of a deleted original is in S3 some row still owes its  *)
(* deletion, and no row is written for an original that is not deleted:     *)
(* for any removals and cleanup runs that race, die and take over claims.   *)
(* The PUT that lands after the original left PENDING_UPLOAD is excluded    *)
(* (see LatePuts).                                                         *)
THEOREM DeletionStaysOwed ==
  ASSUME ~LatePuts
  PROVE  Spec => []DeletionIsOwed
<1>1. OwedInv => DeletionIsOwed
  BY DEF OwedInv
<1>2. OwedInv /\ [Next]_vars => OwedInv'
  BY OwedStep
<1> QED BY <1>1, <1>2, OwedInit, PTL DEF Spec
=============================================================================
