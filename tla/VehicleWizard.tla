---------------------------- MODULE VehicleWizard ----------------------------
(***************************************************************************)
(* The dialog that creates a vehicle, or opens one that exists, uploads its *)
(* photos and submits them for processing: the dialogs that are opened one  *)
(* after the other, the store they all work on, the upload queue with its   *)
(* bounded slots, and as much of the server as answers them: the draft      *)
(* created once per Idempotency-Key, the asset of each photo and the batch. *)
(*                                                                          *)
(* A dialog goes away closed, which resets the store, or with its page,     *)
(* which leaves the store, and the dialog's awaiting handlers, as they are. *)
(*                                                                          *)
(* A browser handler runs to its end, so each is one step; every await ends *)
(* one.  A call the browser stops waiting for may still be handled.  Hashing*)
(* a photo and asking for its intent are one await, a photo's Finalizing    *)
(* covers one commit, and several chosen files are several AddPhoto steps.  *)
(* The session number counts the dialogs that went away; it stands for a    *)
(* dialog's two Idempotency-Keys.                                           *)
(***************************************************************************)
EXTENDS Naturals, FiniteSets, Sequences

CONSTANTS Photos,       \* client ids of photos
          Originals,    \* those an existing vehicle already has
          Broken,       \* originals that failed processing: only replaceable
          Uploads,      \* calls of startUpload under way at once
          Calls,        \* requests of the dialog under way at once
          Vehicles, Existing, \* vehicle ids, and the one that exists already
          Details,      \* what the details form can hold
          Concurrency,  \* PHOTO_UPLOAD_CONCURRENCY
          MaxPhotos,    \* maxImagesPerBatch
          MaxSessions,  \* bound: dialogs opened
          MaxTroubled,  \* bound: the first dialogs, in which details are edited
                        \* and requests given up
          LeftWith,     \* bound: details with which a dialog goes away unclosed
          MaxUnheard,   \* bound: requests under way that the browser gave up on
          None

ASSUME ConstantsAssumption ==
  /\ Broken \subseteq Originals /\ Originals \subseteq Photos
  /\ Existing \in Vehicles
  /\ Concurrency \in Nat \ {0} /\ MaxPhotos \in Nat /\ MaxSessions \in Nat
  /\ MaxTroubled \in Nat /\ MaxUnheard \in Nat
  /\ Details # {}
  /\ None \notin Photos \cup Uploads \cup Vehicles \cup Details \cup Nat

VARIABLES wizard,       \* the dialog and, of the store, all but the photos
          photos,       \* the store's rows
          taken,        \* client ids handed out
          controllers,  \* the step's map of AbortControllers
          upload,       \* startUpload calls
          pending,      \* the scheduler's queue
          active,       \* the scheduler's count of slots taken
          call,         \* requests for the draft or the batch
          vehicles,     \* server: the drafts
          asset,        \* server: each photo's asset, PENDING_UPLOAD also before
                        \* its row exists: an intent is answered in both cases
          owner,        \* server: the vehicle of its row
          deletes,      \* DELETE requests the server has yet to handle
          batches       \* server: the batches accepted

queue  == <<controllers, upload, pending, active>>
server == <<vehicles, asset, owner, batches>>
vars   == <<wizard, photos, taken, queue, call, server, deletes>>
-----------------------------------------------------------------------------
Steps == {"Details", "Photos", "Customize", "Review"}

(* EMPTY_VEHICLE_DETAILS.                                                   *)
Blank == CHOOSE d \in Details : TRUE

NoRow  == [status |-> "NONE", asset |-> FALSE, error |-> FALSE, selected |-> FALSE]
NewRow == [status |-> "SELECTED", asset |-> FALSE, error |-> FALSE, selected |-> TRUE]
NoUpload == [pc |-> "idle", photo |-> None, vehicle |-> None, aborted |-> FALSE, here |-> FALSE]
NoCall   == [pc |-> "idle", kind |-> "create", session |-> 0, key |-> 0,
             vehicle |-> None, body |-> None, heard |-> FALSE]
NoVehicle == [key |-> None, session |-> None, details |-> None, draft |-> FALSE]

(* The dialog: open is whether one is, context whether it was opened on a   *)
(* vehicle, pending the request its form waits for, left the dialogs that   *)
(* went away unclosed.  The store: step, mode, vehicle, details.            *)
Contexts == {"new", "existing"}
Dialog == [session: 0..MaxSessions, context: Contexts]
Wizard == [open: BOOLEAN, context: Contexts, session: 0..MaxSessions,
           pending: Calls \cup {None}, left: SUBSET Dialog,
           step: Steps, mode: {"new", "existing"}, vehicle: Vehicles \cup {None},
           details: Details]

(* The store after reset.                                                   *)
Reset(w) == [w EXCEPT !.step = "Details", !.mode = "new", !.vehicle = None, !.details = Blank]

(* The form the dialog shows: that of the store's step, but one opened on a *)
(* vehicle shows none while the store is about another (ready).             *)
FormOf(w) ==
  IF w.open /\ (w.context = "new" \/ (w.mode = "existing" /\ w.vehicle = Existing))
  THEN w.step ELSE "none"
Shown(step) == FormOf(wizard) = step

Listed == {p \in Photos : photos[p].status # "NONE"}
Chosen == {p \in Listed : photos[p].selected}
Live   == {a \in Uploads : upload[a].pc # "idle"}

TypeOK ==
  /\ wizard \in Wizard
  /\ photos \in [Photos -> [status: {"NONE", "SELECTED", "PREPARING", "UPLOADING",
                                     "FINALIZING", "UPLOADED", "FAILED", "REMOVING"},
                            asset: BOOLEAN, error: BOOLEAN, selected: BOOLEAN]]
  /\ taken \subseteq Photos
  /\ controllers \in [Photos -> Uploads \cup {None}]
  /\ upload \in [Uploads -> [pc: {"idle", "waiting", "intent", "put", "commit", "unsent"},
                             photo: Photos \cup {None}, vehicle: Vehicles \cup {None},
                             aborted: BOOLEAN, here: BOOLEAN]]
  /\ pending \in Seq(Uploads)
  /\ active \in 0..Concurrency
  /\ call \in [Calls -> [pc: {"idle", "sent", "insert", "ok", "refused"},
                         kind: {"create", "update", "process"}, session: 0..MaxSessions,
                         key: Nat, vehicle: Vehicles \cup {None},
                         body: Details \cup {None} \cup SUBSET Photos, heard: BOOLEAN]]
  /\ vehicles \in [Vehicles -> [key: Nat \cup {None}, session: 0..MaxSessions \cup {None},
                                details: Details \cup {None}, draft: BOOLEAN]]
  /\ asset \in [Photos -> {"PENDING_UPLOAD", "UPLOADED", "INVALID", "DELETED"}]
  /\ owner \in [Photos -> Vehicles \cup {None}]
  /\ deletes \subseteq Photos
  /\ batches \subseteq [key: Nat, session: 0..MaxSessions, vehicle: Vehicles \cup {None},
                       photos: SUBSET Photos]

Init ==
  /\ wizard = [open |-> FALSE, context |-> "new", session |-> 0, pending |-> None, left |-> {},
               step |-> "Details", mode |-> "new", vehicle |-> None, details |-> Blank]
  /\ photos = [p \in Photos |-> NoRow]
  /\ taken = Originals
  /\ controllers = [p \in Photos |-> None]
  /\ upload = [a \in Uploads |-> NoUpload]
  /\ pending = <<>>
  /\ active = 0
  /\ call = [c \in Calls |-> NoCall]
  /\ vehicles = [v \in Vehicles |-> NoVehicle]
  /\ asset = [p \in Photos |-> IF p \in Originals THEN "UPLOADED" ELSE "PENDING_UPLOAD"]
  /\ owner = [p \in Photos |-> IF p \in Originals THEN Existing ELSE None]
  /\ deletes = {}
  /\ batches = {}
-----------------------------------------------------------------------------
(* The scheduler                                                           *)

(* drain: the queue, the slots and the uploads it starts, from q and n.     *)
Drained(q, n) ==
  LET free == Concurrency - n
      k == IF free < Len(q) THEN free ELSE Len(q)
  IN [queue |-> SubSeq(q, k + 1, Len(q)), active |-> n + k,
      started |-> {q[i] : i \in 1..k}]

(* A settled upload gives its slot back and drains the queue.               *)
AfterSettled(q, n) == Drained(q, n - 1)

(* An upload that starts reports PREPARING and asks for its intent.         *)
Begin(calls, started) ==
  [a \in Uploads |-> IF a \in started THEN [calls[a] EXCEPT !.pc = "intent"]
                                      ELSE calls[a]]
Preparing(rows, calls, started) ==
  LET begun == {calls[a].photo : a \in started}
  IN [p \in Photos |-> IF p \in begun /\ rows[p].status # "NONE"
                       THEN [rows[p] EXCEPT !.status = "PREPARING"] ELSE rows[p]]

(* Aborting: who waits leaves the queue, who runs goes on until it settles. *)
Cancelled(gone) ==
  [a \in Uploads |->
     IF a \notin gone THEN upload[a]
     ELSE IF upload[a].pc = "waiting" THEN NoUpload
     ELSE [upload[a] EXCEPT !.aborted = TRUE]]

(* Variant: a cancelled upload is not taken out of the queue.               *)
WithNone(q, gone) == q

(* pending.splice: gone is one upload at most, and q holds each once.        *)
Without(q, gone) ==
  IF \E i \in 1..Len(q) : q[i] \in gone
  THEN LET i == CHOOSE j \in 1..Len(q) : q[j] \in gone
       IN SubSeq(q, 1, i - 1) \o SubSeq(q, i + 1, Len(q))
  ELSE q

(* The upload a photo's controller would abort.                             *)
Previous(p) == {controllers[p]} \cap Uploads

(* startUpload of a photo as call a, given the rows its caller leaves; it   *)
(* fails at once when the store has no vehicle.                             *)
StartUpload(p, a, rows) ==
  LET calls == [Cancelled(Previous(p)) EXCEPT
                  ![a] = [pc |-> "waiting", photo |-> p, vehicle |-> wizard.vehicle,
                          aborted |-> FALSE, here |-> TRUE]]
      d == Drained(Append(Without(pending, Previous(p)), a), active)
  IN \/ /\ wizard.vehicle # None /\ upload[a].pc = "idle"
        /\ upload' = Begin(calls, d.started)
        /\ pending' = d.queue
        /\ active' = d.active
        /\ photos' = Preparing([rows EXCEPT ![p].error = FALSE], calls, d.started)
        /\ controllers' = [controllers EXCEPT ![p] = a]
     \/ /\ wizard.vehicle = None
        /\ photos' = [rows EXCEPT ![p].status = "FAILED", ![p].error = TRUE]
        /\ UNCHANGED queue
-----------------------------------------------------------------------------
(* The photos step                                                         *)

Fresh == Photos \ taken

AddPhoto(p, a) ==
  /\ Shown("Photos") /\ p \in Fresh /\ Cardinality(Chosen) < MaxPhotos
  /\ taken' = taken \cup {p}
  /\ StartUpload(p, a, [photos EXCEPT ![p] = NewRow])
  /\ UNCHANGED <<wizard, call, server, deletes>>

(* Retry is offered while the row shows FAILED, a waiting retry included.   *)
Retry(p, a) ==
  /\ Shown("Photos") /\ photos[p].status = "FAILED"
  /\ StartUpload(p, a, photos)
  /\ UNCHANGED <<wizard, taken, call, server, deletes>>

(* Another photo takes the row of one that failed processing.               *)
Replace(p, q, a) ==
  /\ Shown("Photos") /\ wizard.mode = "existing"
  /\ p \in Listed \cap Broken /\ q \in Fresh
  /\ taken' = taken \cup {q}
  /\ StartUpload(q, a, [photos EXCEPT ![p] = NoRow, ![q] = NewRow])
  /\ UNCHANGED <<wizard, call, server, deletes>>

Toggle(p) ==
  /\ Shown("Photos") /\ wizard.mode = "existing"
  /\ photos[p].status = "UPLOADED" /\ p \notin Broken
  /\ photos' = [photos EXCEPT ![p].selected = ~@]
  /\ UNCHANGED <<wizard, taken, queue, call, server, deletes>>

(* removeSelectedPhoto: a photo stored for this batch is deleted first, any *)
(* other leaves the list at once.                                           *)
Remove(p) ==
  LET kept == photos[p].status = "UPLOADED" /\ photos[p].asset /\ p \notin Originals
  IN /\ Shown("Photos") /\ p \in Listed /\ photos[p].status # "REMOVING"
     /\ upload' = Cancelled(Previous(p))
     /\ pending' = Without(pending, Previous(p))
     /\ controllers' = [controllers EXCEPT ![p] = None]
     /\ photos' = [photos EXCEPT ![p] =
                     IF kept THEN [@ EXCEPT !.error = FALSE, !.status = "REMOVING"] ELSE NoRow]
     /\ deletes' = IF kept THEN deletes \cup {p} ELSE deletes
     /\ UNCHANGED <<wizard, taken, active, call, server>>

(* The server deletes an uploaded asset that no batch took.                 *)
DeleteHandled(p) ==
  /\ p \in deletes
  /\ deletes' = deletes \ {p}
  /\ asset' = [asset EXCEPT ![p] = IF @ = "UPLOADED" /\ \A b \in batches : p \notin b.photos
                                   THEN "DELETED" ELSE @]
  /\ UNCHANGED <<wizard, photos, taken, queue, call, vehicles, owner, batches>>

RemovalAnswered(p) ==
  /\ photos[p].status = "REMOVING" /\ p \notin deletes /\ asset[p] = "DELETED"
  /\ photos' = [photos EXCEPT ![p] = NoRow]
  /\ UNCHANGED <<wizard, taken, queue, call, server, deletes>>

(* The answer is an error, or is lost: the request may still be handled.    *)
RemovalFails(p) ==
  /\ photos[p].status = "REMOVING"
  /\ photos' = [photos EXCEPT ![p].status = "UPLOADED", ![p].error = TRUE]
  /\ UNCHANGED <<wizard, taken, queue, call, server, deletes>>
-----------------------------------------------------------------------------
(* An upload                                                               *)

Current(a) == ~upload[a].aborted /\ controllers[upload[a].photo] = a

(* updatePhoto: a row that is gone stays gone.                              *)
Updated(p, row) == IF p \in Listed THEN [photos EXCEPT ![p] = row] ELSE photos

Reported(a, status) ==
  IF Current(a) THEN Updated(upload[a].photo, [photos[upload[a].photo] EXCEPT !.status = status])
  ELSE photos

(* The slot is one of the mounted step's scheduler.                         *)
ThisMount(a) == upload[a].here

(* The call ends with these rows, gives its slot back to its own scheduler  *)
(* and forgets its controller.                                              *)
Settle(a, rows) ==
  LET d == IF ThisMount(a) THEN AfterSettled(pending, active)
           ELSE [queue |-> pending, active |-> active, started |-> {}]
      calls == [upload EXCEPT ![a] = NoUpload]
  IN /\ upload' = Begin(calls, d.started)
     /\ pending' = d.queue
     /\ active' = d.active
     /\ photos' = Preparing(rows, calls, d.started)
     /\ controllers' = [p \in Photos |-> IF controllers[p] = a THEN None ELSE controllers[p]]
     /\ UNCHANGED <<wizard, taken, call, vehicles, batches, deletes>>

(* The rows after an upload rejected.                                       *)
Rejected(a) ==
  IF upload[a].aborted THEN photos
  ELSE Updated(upload[a].photo,
               [photos[upload[a].photo] EXCEPT !.status = "FAILED", !.error = TRUE])

(* putFileWithProgress: what becomes of a call that has its URL.  Aborting  *)
(* a request that was never sent fires no event, so a call aborted before   *)
(* it has its URL never settles.                                            *)
Sent(a) == IF upload[a].aborted THEN "unsent" ELSE "put"

(* The server reserves the row for a new key, and finds that of a known one.*)
Reserve(a) ==
  owner' = [owner EXCEPT ![upload[a].photo] = IF @ = None THEN upload[a].vehicle ELSE @]

(* It gives an URL to a row that is pending and of the vehicle asked for.   *)
IntentAnswered(a) ==
  /\ upload[a].pc = "intent" /\ asset[upload[a].photo] = "PENDING_UPLOAD"
  /\ Reserve(a) /\ owner'[upload[a].photo] = upload[a].vehicle
  /\ upload' = [upload EXCEPT ![a].pc = Sent(a)]
  /\ photos' = Reported(a, "UPLOADING")
  /\ UNCHANGED <<wizard, taken, controllers, pending, active, call, vehicles, asset, batches,
                 deletes>>

(* Hashing or the request fails, before or after it was handled, or the row *)
(* is not one that gets an URL.                                             *)
IntentFails(a) ==
  /\ upload[a].pc = "intent"
  /\ Reserve(a) \/ UNCHANGED owner
  /\ UNCHANGED asset
  /\ Settle(a, Rejected(a))

PutDone(a) ==
  /\ upload[a].pc = "put" /\ ~upload[a].aborted
  /\ upload' = [upload EXCEPT ![a].pc = "commit"]
  /\ photos' = Reported(a, "FINALIZING")
  /\ UNCHANGED <<wizard, taken, controllers, pending, active, call, server, deletes>>

(* An error of the PUT, or its abort.                                       *)
PutFails(a) ==
  /\ upload[a].pc = "put"
  /\ UNCHANGED <<asset, owner>>
  /\ Settle(a, Rejected(a))

(* The commit of a pending or uploaded asset succeeds; nobody aborts it.    *)
CommitAnswered(a) ==
  LET p == upload[a].photo
  IN /\ upload[a].pc = "commit" /\ asset[p] \in {"PENDING_UPLOAD", "UPLOADED"}
     /\ asset' = [asset EXCEPT ![p] = "UPLOADED"]
     /\ UNCHANGED owner
     /\ Settle(a, IF Current(a)
                  THEN Updated(p, [photos[p] EXCEPT !.status = "UPLOADED", !.asset = TRUE,
                                                    !.error = FALSE])
                  ELSE photos)

(* It fails: lost before or after it was handled, or the file is unsound.   *)
CommitFails(a) ==
  LET p == upload[a].photo
      Outcome(status) == [asset EXCEPT ![p] = IF @ = "PENDING_UPLOAD" THEN status ELSE @]
  IN /\ upload[a].pc = "commit"
     /\ asset' \in {asset, Outcome("UPLOADED"), Outcome("INVALID")}
     /\ UNCHANGED owner
     /\ Settle(a, Rejected(a))
-----------------------------------------------------------------------------
(* The dialog                                                              *)

(* Variant: leaving the step forgets its uploads without aborting them.     *)
LeftRunning ==
  [a \in Uploads |-> IF upload[a].pc = "waiting" THEN NoUpload
                     ELSE [upload[a] EXCEPT !.here = FALSE]]

(* The step's cleanup effect aborts every controller.                       *)
Aborted ==
  [a \in Uploads |->
     IF upload[a].pc = "waiting" THEN NoUpload
     ELSE [upload[a] EXCEPT !.here = FALSE,
             !.aborted = @ \/ (upload[a].pc # "idle" /\ controllers[upload[a].photo] = a)]]

(* The photos step unmounts; a later mount has a scheduler of its own.      *)
Unmount ==
  /\ upload' = Aborted
  /\ controllers' = [p \in Photos |-> None]
  /\ pending' = <<>>
  /\ active' = 0

ThisDialog == [session |-> wizard.session, context |-> wizard.context]

(* The dialogs nobody closed: the one that is open, or opened next, and the *)
(* ones that went away with their pages.                                    *)
Unclosed == {ThisDialog} \cup wizard.left

(* The dialog and the store become w: a form that is shown no more is       *)
(* unmounted, and forgets what it waits for.                                *)
Becomes(w) ==
  /\ wizard' = IF FormOf(w) = FormOf(wizard) THEN w ELSE [w EXCEPT !.pending = None]
  /\ IF Shown("Photos") /\ FormOf(w) # "Photos" THEN Unmount ELSE UNCHANGED queue

(* changeOpen: the store is taken as it is.                                 *)
OpenNew ==
  /\ ~wizard.open /\ wizard.session < MaxSessions
  /\ Becomes([wizard EXCEPT !.open = TRUE, !.context = "new"])
  /\ UNCHANGED <<photos, taken, call, server, deletes>>

(* initialize: the existing vehicle's photos, the sound ones selected.      *)
OpenExisting ==
  /\ ~wizard.open /\ wizard.session < MaxSessions
  /\ Becomes([Reset(wizard) EXCEPT !.open = TRUE, !.context = "existing", !.step = "Photos",
                                   !.mode = "existing", !.vehicle = Existing])
  /\ photos' = [p \in Photos |->
                  IF p \in Originals
                  THEN [status |-> "UPLOADED", asset |-> TRUE, error |-> FALSE,
                        selected |-> p \notin Broken]
                  ELSE NoRow]
  /\ UNCHANGED <<taken, call, server, deletes>>

(* closeWizard: a new session with new keys, and the store is reset.        *)
CloseWizard ==
  /\ Becomes([Reset(wizard) EXCEPT !.open = FALSE, !.context = "new", !.session = @ + 1])
  /\ photos' = [p \in Photos |-> NoRow]

(* The same of a dialog that went away before: the store is reset under the *)
(* dialog that is open now.                                                 *)
CloseLeft(session) ==
  /\ Becomes([Reset(wizard) EXCEPT !.left = {d \in @ : d.session # session}])
  /\ photos' = [p \in Photos |-> NoRow]

Close ==
  /\ wizard.open
  /\ CloseWizard
  /\ UNCHANGED <<taken, call, server, deletes>>

(* The page goes away and the dialog with it: nothing is reset, and its     *)
(* handlers that wait for an answer keep their session.  Bound: only if     *)
(* another dialog can be opened.                                            *)
Leave ==
  /\ wizard.open /\ wizard.details \in LeftWith /\ wizard.session + 1 < MaxSessions
  /\ Becomes([wizard EXCEPT !.open = FALSE, !.context = "new", !.session = @ + 1,
                            !.left = @ \cup {ThisDialog}])
  /\ UNCHANGED <<photos, taken, call, server, deletes>>

(* Bound: once per session.                                                 *)
SetDetails(d) ==
  /\ Shown("Details") /\ wizard.details = Blank /\ d # Blank /\ wizard.session < MaxTroubled
  /\ wizard' = [wizard EXCEPT !.details = d]
  /\ UNCHANGED <<photos, taken, queue, call, server, deletes>>

(* Variant: photos that show an error can be submitted.                     *)
ReadyDespiteErrors ==
  /\ Chosen # {} /\ Cardinality(Chosen) <= MaxPhotos
  /\ \A p \in Chosen : photos[p].status = "UPLOADED"

(* handleContinue's checks.                                                 *)
Ready ==
  /\ Chosen # {} /\ Cardinality(Chosen) <= MaxPhotos
  /\ \A p \in Chosen : photos[p].status = "UPLOADED" /\ ~photos[p].error

(* setStep by a button of the form that is shown.                           *)
Turn(from, to) ==
  /\ Shown(from)
  /\ Becomes([wizard EXCEPT !.step = to])
  /\ UNCHANGED <<photos, taken, call, server, deletes>>

Continue == Ready /\ Turn("Photos", "Customize")

(* Back from the photos, but of a dialog opened on a vehicle it closes it.  *)
BackToDetails == wizard.context = "new" /\ Turn("Photos", "Details")

BackToPhotos == Turn("Customize", "Photos")
ToReview     == Turn("Customize", "Review")
-----------------------------------------------------------------------------
(* Requests for the draft and the batch                                    *)

(* Variant: a new key for every request.                                    *)
KeyPerRequest ==
  wizard.session + (MaxSessions + 1) * (Cardinality(batches)
    + Cardinality({v \in Vehicles : vehicles[v].key # None}))

(* The dialog's keys, renewed when it closes.                               *)
Key == wizard.session

(* The form, details or review, waits for an answer.                        *)
Waiting == wizard.pending # None

Request(c, kind, body) ==
  /\ call[c].pc = "idle" /\ ~Waiting
  /\ call' = [call EXCEPT ![c] =
                [pc |-> "sent", kind |-> kind, session |-> wizard.session, key |-> Key,
                 vehicle |-> wizard.vehicle, body |-> body, heard |-> TRUE]]
  /\ wizard' = [wizard EXCEPT !.pending = c]
  /\ UNCHANGED <<photos, taken, queue, server, deletes>>

(* saveDetails: the draft is created, or updated once it is known.          *)
SaveDetails(c) ==
  /\ Shown("Details")
  /\ Request(c, IF wizard.vehicle = None THEN "create" ELSE "update", wizard.details)

(* processPhotos of the review.                                             *)
Process(c) ==
  /\ Shown("Review") /\ wizard.vehicle # None
  /\ Chosen # {} /\ \A p \in Chosen : photos[p].asset
  /\ Request(c, "process", Chosen)

(* Disabled while the review waits.                                         *)
BackFromReview == ~Waiting /\ Turn("Review", "Customize")

(* The form that waits for call c, if it is still there, waits no more.     *)
Heard(c) == [wizard EXCEPT !.pending = IF @ = c THEN None ELSE @]

(* The browser stops waiting; the form shows an error.                      *)
GiveUp(c) ==
  /\ call[c].heard /\ call[c].session < MaxTroubled
  /\ Cardinality({d \in Calls : call[d].pc # "idle" /\ ~call[d].heard}) < MaxUnheard
  /\ call' = [call EXCEPT ![c] = IF @.pc \in {"ok", "refused"} THEN NoCall
                                 ELSE [@ EXCEPT !.heard = FALSE]]
  /\ wizard' = Heard(c)
  /\ UNCHANGED <<photos, taken, queue, server, deletes>>

(* The server's answer, kept only for a browser that waits for it.          *)
AnswerWith(c, answer, v) ==
  call' = [call EXCEPT ![c] = IF @.heard THEN [@ EXCEPT !.pc = answer, !.vehicle = v]
                              ELSE NoCall]

(* The request never arrives, or is refused for a reason left out here.     *)
CallFails(c) ==
  /\ call[c].pc \in {"sent", "insert"}
  /\ AnswerWith(c, "refused", None)
  /\ UNCHANGED <<wizard, photos, taken, queue, server, deletes>>

Reserved(key) == {v \in Vehicles : vehicles[v].key = key}

FindByKey(c) ==
  /\ call[c].pc = "sent" /\ call[c].kind = "create" /\ Reserved(call[c].key) = {}
  /\ call' = [call EXCEPT ![c].pc = "insert"]
  /\ UNCHANGED <<wizard, photos, taken, queue, server, deletes>>

(* vehicleMatchesCreateCommand.                                             *)
Matches(v, body) == vehicles[v].details = body

(* The key is found, at first or after the insert violated its uniqueness.  *)
ReplayCreate(c) ==
  /\ call[c].pc \in {"sent", "insert"} /\ call[c].kind = "create"
  /\ \E v \in Reserved(call[c].key) :
       AnswerWith(c, IF Matches(v, call[c].body) THEN "ok" ELSE "refused", v)
  /\ UNCHANGED <<wizard, photos, taken, queue, server, deletes>>

Unused == {v \in Vehicles \ {Existing} : vehicles[v] = NoVehicle}

InsertVehicle(c) ==
  /\ call[c].pc = "insert" /\ Reserved(call[c].key) = {} /\ Unused # {}
  /\ LET v == CHOOSE w \in Unused : TRUE
     IN /\ vehicles' = [vehicles EXCEPT ![v] =
                          [key |-> call[c].key, session |-> call[c].session,
                           details |-> call[c].body, draft |-> TRUE]]
        /\ AnswerWith(c, "ok", v)
  /\ UNCHANGED <<wizard, photos, taken, queue, asset, owner, batches, deletes>>

(* updateDraftOwned: only a draft is changed.                               *)
UpdateDraft(c) ==
  LET v == call[c].vehicle
  IN /\ call[c].pc = "sent" /\ call[c].kind = "update" /\ vehicles[v].draft
     /\ vehicles' = [vehicles EXCEPT ![v].details = call[c].body]
     /\ AnswerWith(c, "ok", v)
     /\ UNCHANGED <<wizard, photos, taken, queue, asset, owner, batches, deletes>>

(* The reservation, once per key and only of the vehicle's uploaded photos. *)
ReserveBatch(c) ==
  LET v == call[c].vehicle
      b == [key |-> call[c].key, session |-> call[c].session, vehicle |-> v,
            photos |-> call[c].body]
      Taken == {o \in batches : o.key = b.key}
  IN /\ call[c].pc = "sent" /\ call[c].kind = "process"
     /\ IF Taken # {} THEN Taken = {b} /\ UNCHANGED <<batches, vehicles>>
        ELSE /\ \A p \in b.photos : asset[p] = "UPLOADED" /\ owner[p] = v
             /\ batches' = batches \cup {b}
             /\ vehicles' = [vehicles EXCEPT ![v].draft = FALSE]
     /\ AnswerWith(c, "ok", v)
     /\ UNCHANGED <<wizard, photos, taken, queue, asset, owner, deletes>>

(* Variant: an answer is taken by whichever dialog is open.                 *)
AnySession(c) == TRUE

(* The ref of the dialog that asked is unchanged: nobody closed it.         *)
SameSession(c) == \E d \in Unclosed : d.session = call[c].session

(* The answer: setDraft, setStep or closeWizard, unless its own dialog was  *)
(* closed.                                                                  *)
Answered(c) ==
  /\ call[c].pc \in {"ok", "refused"}
  /\ call' = [call EXCEPT ![c] = NoCall]
  /\ \/ /\ call[c].pc = "ok" /\ SameSession(c) /\ call[c].kind = "process"
        /\ IF call[c].session = wizard.session THEN CloseWizard ELSE CloseLeft(call[c].session)
     \/ /\ call[c].pc = "ok" /\ SameSession(c) /\ call[c].kind # "process"
        /\ Becomes([Heard(c) EXCEPT !.step = "Photos",
                       !.vehicle = IF call[c].kind = "create" THEN call[c].vehicle ELSE @])
        /\ UNCHANGED photos
     \/ /\ call[c].pc = "refused" \/ ~SameSession(c)
        /\ Becomes(Heard(c))
        /\ UNCHANGED photos
  /\ UNCHANGED <<taken, server, deletes>>
-----------------------------------------------------------------------------
UploadNext(a) ==
  \/ IntentAnswered(a) \/ IntentFails(a) \/ PutDone(a) \/ PutFails(a)
  \/ CommitAnswered(a) \/ CommitFails(a)

PhotoNext ==
  \E p \in Photos :
    \/ \E a \in Uploads : AddPhoto(p, a) \/ Retry(p, a) \/ \E q \in Photos : Replace(p, q, a)
    \/ Toggle(p) \/ Remove(p)
    \/ DeleteHandled(p) \/ RemovalAnswered(p) \/ RemovalFails(p)

CallNext(c) ==
  \/ SaveDetails(c) \/ Process(c) \/ GiveUp(c) \/ Answered(c)
  \/ CallFails(c) \/ FindByKey(c) \/ ReplayCreate(c) \/ InsertVehicle(c)
  \/ UpdateDraft(c) \/ ReserveBatch(c)

Next ==
  \/ OpenNew \/ OpenExisting \/ Close \/ Leave \/ Continue \/ BackToDetails
  \/ BackToPhotos \/ ToReview \/ BackFromReview
  \/ \E d \in Details : SetDetails(d)
  \/ PhotoNext
  \/ \E a \in Uploads : UploadNext(a)
  \/ \E c \in Calls : CallNext(c)

Spec == Init /\ [][Next]_vars

(* The awaits of an upload end: its timers and requests do.                 *)
FairSpec == Spec /\ \A a \in Uploads : WF_vars(UploadNext(a))
-----------------------------------------------------------------------------
(* Properties                                                              *)

(* The scheduler counts exactly the uploads of its own step that run, never *)
(* lets more run than it has slots, and makes one wait only while every slot*)
(* is taken, whatever is aborted, removed or retried                        *)
(* (create-upload-scheduler.ts).                                            *)
SlotsMatch ==
  /\ active = Cardinality({a \in Live : upload[a].here /\ upload[a].pc # "waiting"})
  /\ active <= Concurrency
  /\ pending # <<>> => active = Concurrency
  /\ \A a \in Uploads : upload[a].pc = "waiting" <=> \E i \in DOMAIN pending : pending[i] = a

(* An upload nobody aborted belongs to a photo in the list of the step that *)
(* is shown, and no other does: nothing is uploaded for a removed photo or a*)
(* dialog that went away, or twice for one photo.                           *)
UploadsAreWanted ==
  \A a \in Live : ~upload[a].aborted =>
    /\ Shown("Photos") /\ upload[a].photo \in Listed
    /\ \A b \in Live : upload[b].photo = upload[a].photo /\ ~upload[b].aborted => a = b

(* Past the photos step every selected photo is stored and committed on the *)
(* server, although answers of commits and removals get lost.               *)
ContinuesWithStoredPhotos ==
  wizard.step \in {"Customize", "Review"} =>
    Chosen # {} /\ \A p \in Chosen : asset[p] = "UPLOADED"

(* The vehicle in the store was created by a dialog that nobody closed, or  *)
(* is the one such a dialog was opened on: closing a dialog is the end of   *)
(* its vehicle and of the answers it waits for (closeWizard and the checks  *)
(* of wizardSession in vehicle-create-dialog.tsx).                          *)
VehicleOfSession ==
  wizard.vehicle # None =>
    \E d \in Unclosed : IF wizard.vehicle = Existing THEN d.context = "existing"
                        ELSE d.session = vehicles[wizard.vehicle].session

(* However often a request is repeated, one dialog creates at most one      *)
(* vehicle and one batch.                                                   *)
OncePerSession ==
  /\ \A v, w \in Vehicles :
       vehicles[v].session = vehicles[w].session /\ vehicles[v].session # None => v = w
  /\ \A b, o \in batches : b.session = o.session => b = o

(* An aborted upload ends (docs/progress.md: "active requests still abort   *)
(* on removal or dialog close").                                            *)
AbortedUploadsEnd ==
  \A a \in Uploads : (upload[a].pc # "idle" /\ upload[a].aborted) ~> upload[a].pc = "idle"
=============================================================================
